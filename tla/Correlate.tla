------------------------------ MODULE Correlate -----------------------------
(***************************************************************************)
(* correlate::analyze: from an inventory to the findings a front end       *)
(* reports.  `expected` is the set of the addresses inside some expected   *)
(* subnet.  Findings and flags are sets; the texts are left out.           *)
(***************************************************************************)
EXTENDS Inventory

CONSTANTS Private,    \* the addresses is_private accepts (RFC 1918, CGNAT)
          Apipa       \* 169.254/16

ASSUME CorrelateAssumption ==
    /\ Private \subseteq Ips
    /\ Apipa \subseteq Ips
    /\ Private \cap Apipa = {}

(* Fault: a forwarded address counts as owned.                             *)
Seen4(i, ip) == {m \in i.known : ip \in Ipv4All(i.hosts[m])}

(* The addresses two or more hosts own, with their owners.                 *)
Owners4(i, ip) == {m \in i.known : ip \in i.hosts[m].owned}

DuplicateIps(i) == {ip \in Ips : \E m, n \in Owners4(i, ip) : m # n}

Routable(h) == IdentityIpv4(h) \ Apipa

(* Private addresses of the host outside every expected subnet.            *)
Foreign(h, expected) == (Routable(h) \cap Private) \ expected

OutsideSubnet(h, expected) ==
    LET foreign == Foreign(h, expected)
    IN IF foreign = {} THEN {} ELSE {[code |-> "OUTSIDE_SUBNET", ips |-> foreign]}

(* Fault: only owned addresses are looked at.                              *)
L2OnlyOwned(h) == IF h.owned = {} THEN {[code |-> "L2_ONLY"]} ELSE {}

L2Only(h) == IF Ipv4All(h) = {} THEN {[code |-> "L2_ONLY"]} ELSE {}

FellBack(h) ==
    IF IdentityIpv4(h) \cap Apipa = {} THEN {} ELSE {[code |-> "APIPA"]}

Alive(h) ==
    h.sources \cap {"ArpReply", "Ndp", "Ipv4Source", "Gratuitous"} # {}

(* With a lease: every other address in use is a mismatch.  Without one:   *)
(* NO_LEASE, if the host proved alive and a lease file was loaded.         *)
LeaseFlags(h, dhcp_baseline) ==
    IF h.lease # NoIp
    THEN LET mismatched == Routable(h) \ {h.lease}
         IN IF mismatched = {} THEN {}
            ELSE {[code |-> "LEASE_MISMATCH", lease |-> h.lease, in_use |-> mismatched]}
    ELSE IF Alive(h) /\ dhcp_baseline THEN {[code |-> "NO_LEASE"]} ELSE {}

DuplicateFlags(i, mac) ==
    {[code |-> "DUPLICATE_IP", ip |-> ip, others |-> Owners4(i, ip) \ {mac}] :
        ip \in {a \in Routable(i.hosts[mac]) \cap DuplicateIps(i) :
                    Owners4(i, a) \ {mac} # {}}}

FlagsFor(i, mac, expected) ==
    LET h == i.hosts[mac]
    IN OutsideSubnet(h, expected) \cup L2Only(h) \cup FellBack(h)
         \cup LeaseFlags(h, i.lease_file_loaded) \cup DuplicateFlags(i, mac)

HostFinding(i, mac, expected) ==
    [mac |-> mac, ipv4 |-> Ipv4All(i.hosts[mac]), flags |-> FlagsFor(i, mac, expected)]

OrphanFinding(i, mac) ==
    [mac |-> mac, ipv4 |-> {},
     flags |-> {[code |-> "ORPHAN_LEASE", ip |-> i.orphan_leases[mac]]}]

(* One finding per host and one per lease on record without a host.        *)
Analyze(i, expected) ==
    {HostFinding(i, m, expected) : m \in i.known}
      \cup {OrphanFinding(i, m) : m \in {n \in Macs : i.orphan_leases[n] # NoIp}}

Codes(flags) == {f.code : f \in flags}

(* Flag::severity, and the worst of a finding.                             *)
Severity(flags) ==
    CASE Codes(flags) \cap {"OUTSIDE_SUBNET", "L2_ONLY"} # {} -> 2    \* Critical
      [] Codes(flags) \subseteq {"ORPHAN_LEASE"}              -> 0    \* Info
      [] OTHER                                                -> 1    \* High
=============================================================================
