------------------------------ MODULE Dissect -------------------------------
(***************************************************************************)
(* From frames to events: the dissection that capture::rx_loop applies to  *)
(* every frame it receives.  A frame is a record with the fields the code  *)
(* reads; the bytes are abstracted away.  The payload of a DHCP packet is  *)
(* the observation dhcp::parse makes of it, or NoDhcp when it is none.     *)
(***************************************************************************)
EXTENDS Naturals, Sequences

CONSTANTS Macs,         \* hardware addresses
          LocalMac,     \* our own
          Ips,          \* the IPv4 addresses a device may have
          Unspecified,  \* 0.0.0.0
          Unusable,     \* a broadcast or multicast source
          NoIp,         \* "None" where the code has Option<Ipv4Addr>
          NoDhcp        \* a payload that is no DHCP

ASSUME DissectAssumption ==
    /\ LocalMac \in Macs
    /\ Unspecified \notin Ips
    /\ Unusable \notin Ips
    /\ NoIp \notin Ips

Sources  == {"ArpReply", "ArpRequest", "Gratuitous", "Ipv4Source", "Dhcp", "Ndp"}
MsgTypes == {"Discover", "Offer", "Request", "Decline", "Ack", "Nak",
             "Release", "Inform", "Other"}

(* What dhcp::parse returns: the client's address from chaddr (from the    *)
(* frame if hlen is not 6), the message type, and yiaddr if it is not 0.   *)
DhcpObservation == [client_mac : Macs, msg_type : MsgTypes, assigned : Ips \cup {NoIp}]

V4(mac, ip, src) == [type |-> "V4", mac |-> mac, ip |-> ip, src |-> src]
V6(mac)          == [type |-> "V6", mac |-> mac]
Dhcp(obs)        == [type |-> "Dhcp", obs |-> obs]

EventType ==
    [type : {"V4"}, mac : Macs, ip : Ips, src : Sources]
        \cup [type : {"V6"}, mac : Macs]
        \cup [type : {"Dhcp"}, obs : DhcpObservation]

(* `mac` is the Ethernet source, `sender_mac` the one in the ARP payload.  *)
ArpFrames  == [kind : {"arp"}, mac : Macs, sender_mac : Macs, reply : BOOLEAN,
               sender_ip : Ips \cup {Unspecified}, target_ip : Ips \cup {Unspecified}]
Ipv4Frames == [kind : {"ipv4"}, mac : Macs, src_ip : Ips \cup {Unspecified, Unusable},
               dhcp : DhcpObservation \cup {NoDhcp}]
Ipv6Frames == [kind : {"ipv6"}, mac : Macs, usable : BOOLEAN]

(* A sender of 0.0.0.0 is an ARP probe: the target is the address its      *)
(* sender is about to take.                                                *)
HandleArp(f) ==
    IF f.sender_ip = Unspecified
    THEN IF f.target_ip = Unspecified
         THEN <<>>
         ELSE <<V4(f.sender_mac, f.target_ip, "Gratuitous")>>
    ELSE <<V4(f.sender_mac, f.sender_ip,
              IF f.reply THEN "ArpReply"
              ELSE IF f.sender_ip = f.target_ip THEN "Gratuitous"
              ELSE "ArpRequest")>>

(* DHCP first, then the source address if it can be a device's.            *)
HandleIpv4(f) ==
    (IF f.dhcp = NoDhcp THEN <<>> ELSE <<Dhcp(f.dhcp)>>) \o
    (IF f.src_ip \in Ips THEN <<V4(f.mac, f.src_ip, "Ipv4Source")>> ELSE <<>>)

(* `usable`: the source is neither :: nor multicast.                       *)
HandleIpv6(f) == IF f.usable THEN <<V6(f.mac)>> ELSE <<>>

(* The body of the receive loop: what we sent ourselves is skipped.        *)
Dispatch(f) ==
    IF f.mac = LocalMac THEN <<>>
    ELSE CASE f.kind = "arp"  -> HandleArp(f)
           [] f.kind = "ipv4" -> HandleIpv4(f)
           [] f.kind = "ipv6" -> HandleIpv6(f)
=============================================================================
