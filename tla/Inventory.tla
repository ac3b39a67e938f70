----------------------------- MODULE Inventory ------------------------------
(***************************************************************************)
(* The inventory: what is known of every MAC, and the two operations that  *)
(* change it, Inventory::apply and Inventory::merge_lease_file, as         *)
(* operators from an inventory to the next.                                *)
(*                                                                         *)
(* IPv6 addresses are reduced to "some were seen"; host names, lease times *)
(* and time stamps decide nothing and are left out.                        *)
(***************************************************************************)
EXTENDS Dissect

CONSTANT NotHosts   \* the broadcast and the all-zero MAC

ASSUME InventoryAssumption == NotHosts \subseteq Macs

HostType == [owned   : SUBSET Ips,      \* ipv4_owned: proof of ownership
             routed  : SUBSET Ips,      \* ipv4_routed: merely seen as a source
             ipv6    : BOOLEAN,         \* the set of IPv6 addresses is not empty
             sources : SUBSET Sources,
             lease   : Ips \cup {NoIp},
             tried_dhcp : BOOLEAN]

(* `known` is the key set of the map `hosts`; orphan_leases has NoIp where *)
(* the map has no key.                                                     *)
InventoryType == [known : SUBSET Macs,
                  hosts : [Macs -> HostType],
                  orphan_leases : [Macs -> Ips \cup {NoIp}],
                  lease_file_loaded : BOOLEAN]

NewHost == [owned |-> {}, routed |-> {}, ipv6 |-> FALSE, sources |-> {},
            lease |-> NoIp, tried_dhcp |-> FALSE]

NewInventory == [known |-> {},
                 hosts |-> [m \in Macs |-> NewHost],
                 orphan_leases |-> [m \in Macs |-> NoIp],
                 lease_file_loaded |-> FALSE]

-----------------------------------------------------------------------------
(* hosts.entry(mac).or_insert_with(Host::new), then the host becomes h.    *)
PutHost(i, mac, h) ==
    [i EXCEPT !.known = @ \cup {mac}, !.hosts[mac] = h]

(* Fault: every source proves ownership.                                   *)
HostSeenV4Owns(h, ip, src) ==
    [h EXCEPT !.owned = @ \cup {ip}, !.sources = @ \cup {src}]

(* ARP and DHCP prove ownership, an IPv4 source address does not.          *)
HostSeenV4(h, ip, src) ==
    IF src = "Ipv4Source"
    THEN [h EXCEPT !.routed = @ \cup {ip}, !.sources = @ \cup {src}]
    ELSE [h EXCEPT !.owned = @ \cup {ip}, !.sources = @ \cup {src}]

HostSeenV6(h) == [h EXCEPT !.ipv6 = TRUE, !.sources = @ \cup {"Ndp"}]

(* Only the server's ACK creates a lease; a RELEASE ends it.               *)
HostAck(h, ip) ==
    IF ip = NoIp THEN h ELSE [h EXCEPT !.lease = ip, !.owned = @ \cup {ip}]

(* Fault: a RELEASE is treated as any other message of the client.         *)
HostDhcpKeepsLease(h, obs) ==
    LET seen  == [h EXCEPT !.sources = @ \cup {"Dhcp"}]
        tried == [seen EXCEPT !.tried_dhcp = TRUE]
    IN CASE obs.msg_type = "Ack" -> HostAck(tried, obs.assigned)
         [] obs.msg_type \in {"Discover", "Request", "Inform", "Decline", "Release"} -> tried
         [] OTHER -> seen

HostDhcp(h, obs) ==
    LET seen  == [h EXCEPT !.sources = @ \cup {"Dhcp"}]
        tried == [seen EXCEPT !.tried_dhcp = TRUE]
    IN CASE obs.msg_type = "Ack" -> HostAck(tried, obs.assigned)
         [] obs.msg_type \in {"Discover", "Request", "Inform", "Decline"} -> tried
         [] obs.msg_type = "Release" -> [tried EXCEPT !.lease = NoIp]
         [] OTHER -> seen

EventMac(ev) == IF ev.type = "Dhcp" THEN ev.obs.client_mac ELSE ev.mac

(* Inventory::apply.                                                       *)
Apply(i, ev) ==
    LET mac == EventMac(ev)
        h   == i.hosts[mac]
    IN IF mac \in NotHosts THEN i
       ELSE PutHost(i, mac, CASE ev.type = "V4" -> HostSeenV4(h, ev.ip, ev.src)
                              [] ev.type = "V6" -> HostSeenV6(h)
                              [] ev.type = "Dhcp" -> HostDhcp(h, ev.obs))

(* Inventory::merge_lease_file.  `leases` maps each MAC to the lease the   *)
(* file has for it last, NoIp if none.  A MAC that is a known host gets    *)
(* the lease; any other becomes an orphan.                                 *)
MergeLeaseFile(i, leases) ==
    LET listed == {m \in Macs : leases[m] # NoIp}
        Hosted(m) == m \in listed \cap i.known
        Orphan(m) == m \in listed \ i.known
    IN [i EXCEPT
          !.lease_file_loaded = TRUE,
          !.hosts = [m \in Macs |->
              IF Hosted(m) THEN [@[m] EXCEPT !.lease = leases[m], !.tried_dhcp = TRUE]
              ELSE @[m]],
          !.orphan_leases = [m \in Macs |-> IF Orphan(m) THEN leases[m] ELSE @[m]]]

(* Every known IPv4, and the ones that stand for the device's identity.    *)
Ipv4All(h) == h.owned \cup h.routed

(* Fault: what a router forwards counts as its identity.                   *)
IdentityAll(h) == Ipv4All(h)

IdentityIpv4(h) == IF h.owned = {} THEN h.routed ELSE h.owned
=============================================================================
