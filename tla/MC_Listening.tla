---------------------------- MODULE MC_Listening ----------------------------
(* A network of two devices, a and b, a router gw, our own interface and    *)
(* the zero MAC.                                                            *)
(* home is inside the expected subnet, lab a private address outside it,    *)
(* web a public one, auto is in 169.254/16.                                 *)
EXTENDS Listening

CONSTANTS a, b, gw, us, zero, home, lab, web, auto

MCMacs     == {a, b, gw, us, zero}
MCNotHosts == {zero}
MCIps      == {home, lab, web, auto}
MCPrivate  == {home, lab}
MCApipa    == {auto}
MCExpected == {home}

Arp(mac, sender_mac, reply, sender_ip, target_ip) ==
    [mac |-> mac, sender_mac |-> sender_mac, reply |-> reply,
     sender_ip |-> sender_ip, target_ip |-> target_ip, kind |-> "arp"]
Ip(mac, src_ip, dhcp) ==
    [mac |-> mac, kind |-> "ipv4", src_ip |-> src_ip, dhcp |-> dhcp]
Obs(client_mac, msg_type, assigned) ==
    [client_mac |-> client_mac, msg_type |-> msg_type, assigned |-> assigned]

MCFrames ==
    { Arp(a, a, TRUE, home, lab), Arp(b, b, TRUE, home, lab),    \* both own home
      Arp(a, a, FALSE, lab, home), Arp(b, b, FALSE, lab, lab),   \* request, announcement
      Arp(b, b, FALSE, Unspecified, auto),                       \* probe
      Arp(b, b, FALSE, Unspecified, Unspecified),
      Arp(us, us, TRUE, home, lab),                              \* our own
      Arp(a, zero, TRUE, lab, home),
      Ip(a, web, NoDhcp), Ip(gw, home, NoDhcp), Ip(b, Unusable, NoDhcp),
      Ip(a, Unspecified, Obs(a, "Discover", NoIp)),
      Ip(b, home, Obs(a, "Ack", home)), Ip(b, home, Obs(a, "Ack", lab)),
      Ip(b, home, Obs(a, "Ack", NoIp)),                          \* answer to an INFORM
      Ip(b, home, Obs(a, "Nak", NoIp)),
      Ip(a, lab, Obs(a, "Release", NoIp)),
      [mac |-> a, kind |-> "ipv6", usable |-> TRUE],
      [mac |-> b, kind |-> "ipv6", usable |-> FALSE] }

EmptyFile    == [m \in MCMacs |-> NoIp]
MCLeaseFiles == {EmptyFile, [EmptyFile EXCEPT ![a] = home]}
=============================================================================
