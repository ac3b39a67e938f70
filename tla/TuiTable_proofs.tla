--------------------------- MODULE TuiTable_proofs --------------------------
(***************************************************************************)
(* Proofs about the table of results, for any devices, events, lease file, *)
(* filters and keys: what Sorted lists is all the findings there are, so a *)
(* key acts on the row drawn, a network marked as known is not reported    *)
(* any more, and no device once listed is lost.                            *)
(***************************************************************************)
EXTENDS TuiTable, Lists_proofs

-----------------------------------------------------------------------------
(* Places in an order: in a finite set that R orders, every place has its  *)
(* element, and no two elements share one.                                 *)
Below(S, R, x) == {y \in S : <<y, x>> \in R}

Orders(S, R) ==
    /\ \A x \in S : <<x, x>> \notin R
    /\ \A x, y, z \in S : <<x, y>> \in R /\ <<y, z>> \in R => <<x, z>> \in R
    /\ \A x, y \in S : x # y => <<x, y>> \in R \/ <<y, x>> \in R

(* The number of the elements below is the place: by pigeonhole, the places*)
(* are 1 to the number of elements, each of them taken once.               *)
LEMMA Places ==
    ASSUME NEW S, IsFiniteSet(S), NEW R, Orders(S, R)
    PROVE  /\ \A x \in S : Cardinality(Below(S, R, x)) + 1 \in 1 .. Cardinality(S)
           /\ \A x, y \in S : Cardinality(Below(S, R, x)) = Cardinality(Below(S, R, y)) => x = y
           /\ \A k \in 1 .. Cardinality(S) : \E x \in S : Cardinality(Below(S, R, x)) = k - 1
<1> DEFINE n == Cardinality(S)
           rank(x) == Cardinality(Below(S, R, x))
           place == [x \in S |-> rank(x) + 1]
<1>1. n \in Nat
  BY FS_CardinalityType
<1>2. ASSUME NEW x \in S
      PROVE  IsFiniteSet(Below(S, R, x)) /\ rank(x) \in Nat /\ rank(x) < n
  <2>1. Below(S, R, x) \in SUBSET S /\ x \notin Below(S, R, x)
    BY DEF Below, Orders
  <2>2. IsFiniteSet(Below(S, R, x)) /\ rank(x) <= n /\ (n = rank(x) => S = Below(S, R, x))
    BY <2>1, FS_Subset
  <2>3. rank(x) \in Nat
    BY <2>2, FS_CardinalityType
  <2> QED
    BY <1>1, <2>1, <2>2, <2>3
<1>3. ASSUME NEW x \in S, NEW y \in S, <<x, y>> \in R
      PROVE  rank(x) < rank(y)
  <2>1. /\ Below(S, R, x) \in SUBSET Below(S, R, y)
        /\ x \in Below(S, R, y) /\ x \notin Below(S, R, x)
    BY <1>3 DEF Below, Orders
  <2>2. rank(x) <= rank(y) /\ (rank(y) = rank(x) => Below(S, R, y) = Below(S, R, x))
    BY <1>2, <2>1, FS_Subset
  <2> QED
    BY <1>2, <2>1, <2>2
<1>4. ASSUME NEW x \in S, NEW y \in S, rank(x) = rank(y) PROVE x = y
  <2> SUFFICES ASSUME x # y PROVE FALSE
    OBVIOUS
  <2>1. <<x, y>> \in R \/ <<y, x>> \in R
    BY DEF Orders
  <2>2. rank(x) < rank(y) \/ rank(y) < rank(x)
    BY <1>3, <2>1
  <2> HIDE DEF rank
  <2> QED
    BY <1>2, <1>4, <2>2
<1>5. \A x \in S : rank(x) + 1 \in 1 .. n
  BY <1>1, <1>2
<1> HIDE DEF n, rank
<1>6. place \in [S -> 1 .. n] /\ \A x, y \in S : place[x] = place[y] => x = y
  <2>1. \A x \in S : rank(x) \in Nat
    BY <1>2
  <2> QED
    BY <1>4, <1>5, <2>1
<1>7. place \in Injection(S, 1 .. n)
  <2> HIDE DEF place
  <2> QED
    BY <1>6 DEF Injection, IsInjective
<1>8. IsFiniteSet(1 .. n) /\ Cardinality(1 .. n) = n
  BY <1>1, FS_Interval
<1>9. place \in Surjection(S, 1 .. n)
  <2> HIDE DEF place
  <2>1. n = Cardinality(S)
    BY DEF n
  <2> QED
    BY <1>7, <1>8, <2>1, FS_Injection
<1>10. \A k \in 1 .. n : \E x \in S : place[x] = k
  <2> HIDE DEF place
  <2> QED
    BY <1>9 DEF Surjection
<1>11. \A k \in 1 .. n : \E x \in S : rank(x) = k - 1
  <2> SUFFICES ASSUME NEW k \in 1 .. n PROVE \E x \in S : rank(x) = k - 1
    OBVIOUS
  <2>1. PICK x \in S : place[x] = k
    BY <1>10
  <2>2. rank(x) + 1 = k /\ rank(x) \in Nat
    BY <1>2, <2>1
  <2> QED
    BY <2>2
<1> QED
  BY <1>4, <1>5, <1>11 DEF n, rank

-----------------------------------------------------------------------------
(* The findings of an inventory, and their order.                          *)
Orphan(f) == "ORPHAN_LEASE" \in Codes(f.flags)

(* The devices an inventory knows of.                                      *)
Listed(i) == i.known \cup {m \in Macs : i.orphan_leases[m] # NoIp}

(* There are three severities.                                             *)
LEMMA SeverityIs == \A flags : Severity(flags) \in 0 .. 2
  BY DEF Severity

(* What flags a host may get; OUTSIDE_SUBNET names no legitimate address.  *)
LEMMA FlagsAre ==
    ASSUME NEW i \in InventoryType, NEW m \in i.known, NEW legitimate
    PROVE  /\ FlagsFor(i, m, legitimate) \subseteq FlagType
           /\ "ORPHAN_LEASE" \notin Codes(FlagsFor(i, m, legitimate))
           /\ \A fl \in FlagsFor(i, m, legitimate) :
                 fl.code = "OUTSIDE_SUBNET" => fl.ips \cap legitimate = {}
<1> DEFINE h == i.hosts[m]
<1>1. h \in HostType /\ i.known \subseteq Macs /\ m \in Macs
  BY DEF InventoryType
<1> HIDE DEF h
<1>2. Routable(h) \subseteq Ips
  BY <1>1 DEF Routable, IdentityIpv4, HostType
<1> DEFINE Proper(fl) == /\ fl \in FlagType /\ fl.code # "ORPHAN_LEASE"
                         /\ fl.code = "OUTSIDE_SUBNET" => fl.ips \cap legitimate = {}
<1>3. \A fl \in OutsideSubnet(h, legitimate) : Proper(fl)
  BY <1>2 DEF OutsideSubnet, Foreign, FlagType
<1>4. \A fl \in L2Only(h) \cup FellBack(h) : Proper(fl)
  BY DEF L2Only, FellBack, FlagType
<1>5. \A fl \in LeaseFlags(h, i.lease_file_loaded) : Proper(fl)
  <2>1. h.lease # NoIp => h.lease \in Ips
    BY <1>1 DEF HostType
  <2> QED
    BY <1>2, <2>1 DEF LeaseFlags, FlagType
<1>6. \A fl \in DuplicateFlags(i, m) : Proper(fl)
  <2>1. \A ip : Owners4(i, ip) \ {m} \subseteq Macs
    BY <1>1 DEF Owners4
  <2> QED
    BY <1>2, <2>1 DEF DuplicateFlags, FlagType, h
<1>7. \A fl \in FlagsFor(i, m, legitimate) : Proper(fl)
  BY <1>3, <1>4, <1>5, <1>6 DEF FlagsFor, h
<1> QED
  BY <1>7 DEF Codes

(* The findings: one for each device listed, host and orphan apart.        *)
LEMMA FindingsAre ==
    ASSUME NEW i \in InventoryType, NEW legitimate
    PROVE  LET fs == Analyze(i, legitimate)
           IN /\ fs \subseteq FindingType /\ IsFiniteSet(fs)
              /\ {f.mac : f \in fs} = Listed(i)
              /\ \A f, g \in fs : f.mac = g.mac /\ (Orphan(f) <=> Orphan(g)) => f = g
              /\ \A f \in fs : \A fl \in f.flags :
                    fl.code = "OUTSIDE_SUBNET" => fl.ips \cap legitimate = {}
<1> DEFINE hosts == {HostFinding(i, m, legitimate) : m \in i.known}
           missing == {m \in Macs : i.orphan_leases[m] # NoIp}
           orphans == {OrphanFinding(i, m) : m \in missing}
           fs == Analyze(i, legitimate)
<1>1. /\ i.known \in SUBSET Macs /\ missing \in SUBSET Macs
      /\ \A m \in missing : i.orphan_leases[m] \in Ips
      /\ \A m \in Macs : i.hosts[m] \in HostType
  BY DEF InventoryType
<1>2. fs = hosts \cup orphans
  BY DEF Analyze
<1>3. \A f \in hosts : /\ f.mac \in i.known /\ f = HostFinding(i, f.mac, legitimate)
                       /\ f \in FindingType /\ ~Orphan(f)
                       /\ \A fl \in f.flags :
                             fl.code = "OUTSIDE_SUBNET" => fl.ips \cap legitimate = {}
  <2> SUFFICES ASSUME NEW m \in i.known
               PROVE  LET f == HostFinding(i, m, legitimate)
                      IN /\ f.mac = m
                         /\ f \in FindingType /\ ~Orphan(f)
                         /\ \A fl \in f.flags :
                               fl.code = "OUTSIDE_SUBNET" => fl.ips \cap legitimate = {}
    OBVIOUS
  <2>1. Ipv4All(i.hosts[m]) \subseteq Ips
    BY <1>1 DEF Ipv4All, HostType
  <2> QED
    BY <1>1, <2>1, FlagsAre DEF HostFinding, FindingType, Orphan
<1>4. \A f \in orphans : /\ f.mac \in missing /\ f = OrphanFinding(i, f.mac)
                         /\ f \in FindingType /\ Orphan(f)
                         /\ \A fl \in f.flags : fl.code = "ORPHAN_LEASE"
  <2> SUFFICES ASSUME NEW m \in missing
               PROVE  LET f == OrphanFinding(i, m)
                      IN /\ f.mac = m
                         /\ f \in FindingType /\ Orphan(f)
                         /\ \A fl \in f.flags : fl.code = "ORPHAN_LEASE"
    OBVIOUS
  <2> DEFINE flag == [code |-> "ORPHAN_LEASE", ip |-> i.orphan_leases[m]]
  <2>1. flag \in FlagType /\ flag.code = "ORPHAN_LEASE" /\ m \in Macs
    BY <1>1 DEF FlagType
  <2> HIDE DEF flag
  <2>2. OrphanFinding(i, m) = [mac |-> m, ipv4 |-> {}, flags |-> {flag}]
    BY DEF OrphanFinding, flag
  <2> QED
    BY <2>1, <2>2 DEF FindingType, Orphan, Codes
<1>5. IsFiniteSet(hosts) /\ IsFiniteSet(orphans)
  <2>1. IsFiniteSet(i.known) /\ IsFiniteSet(missing)
    BY <1>1, TableAssumption, FS_Subset
  <2> DEFINE hostOf == [m \in i.known |-> HostFinding(i, m, legitimate)]
             orphanOf == [m \in missing |-> OrphanFinding(i, m)]
  <2>2. hostOf \in Surjection(i.known, hosts)
    BY DEF Surjection
  <2>3. orphanOf \in Surjection(missing, orphans)
    BY DEF Surjection
  <2> HIDE DEF hostOf, orphanOf, hosts, orphans, missing
  <2> QED
    BY <2>1, <2>2, <2>3, FS_Surjection
<1>6. IsFiniteSet(fs)
  <2> HIDE DEF hosts, orphans, fs
  <2> QED
    BY <1>2, <1>5, FS_Union
<1>7. \A m \in i.known : \E f \in hosts : f.mac = m
  <2>1. \A m : HostFinding(i, m, legitimate).mac = m
    BY DEF HostFinding
  <2> QED
    BY <2>1
<1>8. \A m \in missing : \E f \in orphans : f.mac = m
  <2>1. \A m : OrphanFinding(i, m).mac = m
    BY DEF OrphanFinding
  <2> QED
    BY <2>1
<1> HIDE DEF hosts, orphans, fs
<1>9. {f.mac : f \in fs} = Listed(i)
  BY <1>2, <1>3, <1>4, <1>7, <1>8 DEF Listed
<1>10. \A f, g \in fs : f.mac = g.mac /\ (Orphan(f) <=> Orphan(g)) => f = g
  BY <1>2, <1>3, <1>4
<1>11. \A f \in fs : \A fl \in f.flags : fl.code = "OUTSIDE_SUBNET" => fl.ips \cap legitimate = {}
  BY <1>2, <1>3, <1>4
<1> QED
  BY <1>2, <1>3, <1>4, <1>6, <1>9, <1>10, <1>11 DEF fs

(* The pairs of findings of which the first is listed before the second.   *)
Order(fs) == {p \in fs \X fs : Before(p[1], p[2])}

(* analyze compares by severity and MAC, which orders them totally.        *)
LEMMA OrdersFindings ==
    ASSUME NEW i \in InventoryType, NEW legitimate
    PROVE  Orders(Analyze(i, legitimate), Order(Analyze(i, legitimate)))
<1> DEFINE fs == Analyze(i, legitimate)
           rank(f) == Severity(f.flags)
<1>1. \A f \in fs : rank(f) \in Nat /\ f.mac \in Nat
  <2>1. \A f \in fs : f.mac \in Macs
    BY FindingsAre DEF FindingType
  <2> QED
    BY <2>1, SeverityIs, TableAssumption
<1>2. \A f, g \in fs : f.mac = g.mac /\ (Orphan(f) <=> Orphan(g)) => f = g
  BY FindingsAre
<1> HIDE DEF rank, fs
<1>3. \A f, g : Before(f, g) <=>
         \/ rank(f) > rank(g)
         \/ /\ rank(f) = rank(g)
            /\ \/ f.mac < g.mac
               \/ f.mac = g.mac /\ Orphan(g) /\ ~Orphan(f)
  BY DEF Before, rank, Orphan
<1>4. \A f \in fs : ~Before(f, f)
  BY <1>1, <1>3
<1>5. \A f, g, h \in fs : Before(f, g) /\ Before(g, h) => Before(f, h)
  BY <1>1, <1>3
<1>6. \A f, g \in fs : f # g => Before(f, g) \/ Before(g, f)
  BY <1>1, <1>2, <1>3
<1>7. \A f, g \in fs : <<f, g>> \in Order(fs) <=> Before(f, g)
  BY DEF Order
<1>8. Orders(fs, Order(fs))
  BY <1>4, <1>5, <1>6, <1>7 DEF Orders
<1> QED
  BY <1>8 DEF fs

(* inventory to table: a listing of the findings, every one of them once.  *)
LEMMA SortedIs ==
    ASSUME NEW i \in InventoryType, NEW legitimate
    PROVE  /\ Sorted(Analyze(i, legitimate)) \in Seq(FindingType)
           /\ Range(Sorted(Analyze(i, legitimate))) = Analyze(i, legitimate)
<1> DEFINE fs == Analyze(i, legitimate)
           n == Cardinality(fs)
           rank(f) == Cardinality(Below(fs, Order(fs), f))
           At(k) == CHOOSE f \in fs : Cardinality({g \in fs : Before(g, f)}) = k - 1
<1>1. fs \subseteq FindingType /\ IsFiniteSet(fs)
  BY FindingsAre
<1>2. n \in Nat
  BY <1>1, FS_CardinalityType
<1>3. Orders(fs, Order(fs))
  BY OrdersFindings
<1> HIDE DEF fs
<1>4. /\ \A x \in fs : rank(x) + 1 \in 1 .. n
      /\ \A x, y \in fs : rank(x) = rank(y) => x = y
      /\ \A k \in 1 .. n : \E x \in fs : rank(x) = k - 1
  BY <1>1, <1>3, Places
<1>5. \A f \in fs : {g \in fs : Before(g, f)} = Below(fs, Order(fs), f)
  BY DEF Below, Order
<1>6. ASSUME NEW k \in 1 .. n
      PROVE  At(k) \in fs /\ rank(At(k)) = k - 1
  <2>1. \E f \in fs : Cardinality({g \in fs : Before(g, f)}) = k - 1
    BY <1>4, <1>5
  <2>2. At(k) \in fs /\ Cardinality({g \in fs : Before(g, At(k))}) = k - 1
    <3> HIDE DEF n
    <3> QED
      BY <2>1, Zenon
  <2> HIDE DEF At
  <2> QED
    BY <1>5, <2>2
<1>7. Sorted(fs) = [k \in 1 .. n |-> At(k)]
  BY DEF Sorted
<1>8. \A f \in fs : f = At(rank(f) + 1)
  <2> SUFFICES ASSUME NEW f \in fs PROVE f = At(rank(f) + 1)
    OBVIOUS
  <2> DEFINE k == rank(f) + 1
  <2>1. k \in 1 .. n
    BY <1>4
  <2>2. rank(f) \in Nat
    <3>1. Below(fs, Order(fs), f) \in SUBSET fs
      BY DEF Below
    <3> QED
      BY <1>1, <3>1, FS_Subset, FS_CardinalityType
  <2> HIDE DEF At, rank, n
  <2>3. k - 1 = rank(f)
    BY <2>2
  <2> HIDE DEF k
  <2>4. At(k) \in fs /\ rank(At(k)) = rank(f)
    BY <1>6, <2>1, <2>3
  <2>5. f = At(k)
    BY <1>4, <2>4
  <2> QED
    BY <2>5 DEF k
<1> HIDE DEF At, rank, n
<1>9. Sorted(fs) \in Seq(FindingType)
  <2>1. \A k \in 1 .. n : At(k) \in FindingType
    BY <1>1, <1>6
  <2> QED
    BY <1>2, <1>7, <2>1
<1>10. Range(Sorted(fs)) = fs
  <2>1. \A f \in Range(Sorted(fs)) : f \in fs
    BY <1>6, <1>7 DEF Range
  <2>2. \A f \in fs : f \in Range(Sorted(fs))
    BY <1>4, <1>7, <1>8 DEF Range
  <2> QED
    BY <2>1, <2>2
<1> QED
  BY <1>9, <1>10 DEF fs

-----------------------------------------------------------------------------
(* The inventory: an event or a lease file leaves it of its type, and no   *)
(* event makes it forget a device.                                         *)
LEMMA HostTyped ==
    ASSUME NEW h \in HostType, NEW ev \in EventType
    PROVE  /\ ev.type = "V4" => HostSeenV4(h, ev.ip, ev.src) \in HostType
           /\ ev.type = "V6" => HostSeenV6(h) \in HostType
           /\ ev.type = "Dhcp" => HostDhcp(h, ev.obs) \in HostType
<1>1. CASE ev.type = "V4"
  <2>1. ev.ip \in Ips /\ ev.src \in Sources
    BY <1>1 DEF EventType
  <2> QED
    BY <1>1, <2>1 DEF HostSeenV4, HostType
<1>2. CASE ev.type = "V6"
  BY <1>2 DEF HostSeenV6, HostType, Sources
<1>3. CASE ev.type = "Dhcp"
  <2> DEFINE seen  == [h EXCEPT !.sources = @ \cup {"Dhcp"}]
             tried == [seen EXCEPT !.tried_dhcp = TRUE]
  <2>1. seen \in HostType /\ tried \in HostType
    BY DEF HostType, Sources
  <2>2. ev.obs.assigned \in Ips \cup {NoIp}
    BY <1>3 DEF EventType, DhcpObservation
  <2>3. /\ HostDhcp(h, ev.obs) \in {seen, tried, HostAck(tried, ev.obs.assigned),
                                    [tried EXCEPT !.lease = NoIp]}
    BY DEF HostDhcp
  <2> HIDE DEF seen, tried
  <2>4. HostAck(tried, ev.obs.assigned) \in HostType
    BY <2>1, <2>2 DEF HostAck, HostType
  <2>5. [tried EXCEPT !.lease = NoIp] \in HostType
    BY <2>1 DEF HostType
  <2> QED
    BY <1>3, <2>1, <2>3, <2>4, <2>5
<1> QED
  BY <1>1, <1>2, <1>3 DEF EventType

(* An event keeps the inventory one, and what it lists listed.             *)
LEMMA ApplyKeeps ==
    ASSUME NEW i \in InventoryType, NEW ev \in EventType
    PROVE  Apply(i, ev) \in InventoryType /\ Listed(i) \subseteq Listed(Apply(i, ev))
<1> DEFINE m == EventMac(ev)
           h == i.hosts[m]
           g == CASE ev.type = "V4" -> HostSeenV4(h, ev.ip, ev.src)
                  [] ev.type = "V6" -> HostSeenV6(h)
                  [] ev.type = "Dhcp" -> HostDhcp(h, ev.obs)
           j == Apply(i, ev)
<1>1. m \in Macs
  BY DEF EventMac, EventType, DhcpObservation
<1>2. i.hosts \in [Macs -> HostType] /\ i.known \subseteq Macs
  BY DEF InventoryType
<1>3. g \in HostType
  <2>1. h \in HostType
    BY <1>1, <1>2
  <2> HIDE DEF h
  <2>2. ev.type \in {"V4", "V6", "Dhcp"}
    BY DEF EventType
  <2> QED
    BY <2>1, <2>2, HostTyped
<1>4. CASE m \in NotHosts
  BY <1>4 DEF Apply
<1>5. CASE m \notin NotHosts
  <2>1. j = [i EXCEPT !.known = @ \cup {m}, !.hosts[m] = g]
    BY <1>5 DEF Apply, PutHost
  <2> HIDE DEF g, m
  <2>2. j = [known |-> i.known \cup {m}, hosts |-> [i.hosts EXCEPT ![m] = g],
             orphan_leases |-> i.orphan_leases, lease_file_loaded |-> i.lease_file_loaded]
    BY <2>1 DEF InventoryType
  <2>3. [i.hosts EXCEPT ![m] = g] \in [Macs -> HostType]
    BY <1>2, <1>3
  <2> HIDE DEF j
  <2>4. j \in InventoryType /\ i.known \subseteq j.known /\ j.orphan_leases = i.orphan_leases
    BY <1>1, <1>2, <2>2, <2>3 DEF InventoryType
  <2>5. Listed(i) \subseteq Listed(j)
    BY <2>4 DEF Listed
  <2> QED
    BY <2>4, <2>5 DEF j
<1> QED
  BY <1>4, <1>5

(* Merging the lease file does too.                                        *)
LEMMA MergeTyped ==
    ASSUME NEW leases \in [Macs -> Ips \cup {NoIp}]
    PROVE  MergeLeaseFile(NewInventory, leases) \in InventoryType
<1> DEFINE j == MergeLeaseFile(NewInventory, leases)
<1>1. NewHost \in HostType
  BY DEF NewHost, HostType
<1>2. j = [known |-> {}, hosts |-> [m \in Macs |-> NewHost],
           orphan_leases |-> [m \in Macs |-> IF leases[m] # NoIp THEN leases[m] ELSE NoIp],
           lease_file_loaded |-> TRUE]
  <2> DEFINE i == NewInventory
             listed == {m \in Macs : leases[m] # NoIp}
             hosts == [m \in Macs |->
                 IF m \in listed \cap i.known
                 THEN [i.hosts[m] EXCEPT !.lease = leases[m], !.tried_dhcp = TRUE]
                 ELSE i.hosts[m]]
             orphans == [m \in Macs |-> IF m \in listed \ i.known THEN leases[m]
                                        ELSE i.orphan_leases[m]]
  <2>1. j = [i EXCEPT !.lease_file_loaded = TRUE, !.hosts = hosts, !.orphan_leases = orphans]
    BY DEF MergeLeaseFile
  <2>2. /\ i.known = {} /\ \A m \in Macs : i.hosts[m] = NewHost /\ i.orphan_leases[m] = NoIp
        /\ i = [known |-> i.known, hosts |-> i.hosts, orphan_leases |-> i.orphan_leases,
                lease_file_loaded |-> i.lease_file_loaded]
    BY DEF NewInventory
  <2> HIDE DEF i, j
  <2>3. hosts = [m \in Macs |-> NewHost]
    BY <2>2
  <2>4. orphans = [m \in Macs |-> IF leases[m] # NoIp THEN leases[m] ELSE NoIp]
    BY <2>2
  <2> HIDE DEF hosts, orphans
  <2>5. j = [known |-> i.known, hosts |-> hosts, orphan_leases |-> orphans,
             lease_file_loaded |-> TRUE]
    BY <2>1, <2>2
  <2> QED
    BY <2>2, <2>3, <2>4, <2>5
<1>3. [m \in Macs |-> IF leases[m] # NoIp THEN leases[m] ELSE NoIp] \in [Macs -> Ips \cup {NoIp}]
  OBVIOUS
<1> HIDE DEF j
<1>4. j \in InventoryType
  BY <1>1, <1>2, <1>3 DEF InventoryType
<1> QED
  BY <1>4 DEF j

(* An inventory to begin with.                                             *)
LEMMA NewTyped == NewInventory \in InventoryType
<1>1. NewHost \in HostType
  BY DEF NewHost, HostType
<1> QED
  BY <1>1 DEF NewInventory, InventoryType

-----------------------------------------------------------------------------
(* The table.                                                              *)
MacsOf(fs) == {fs[k].mac : k \in DOMAIN fs}

AccusedIn(fs) == UNION {UNION {fl.ips : fl \in {g \in fs[k].flags : g.code = "OUTSIDE_SUBNET"}} :
                           k \in DOMAIN fs}

(* A report lists the devices of the inventory, and accuses nobody for     *)
(* what is legitimate.                                                     *)
LEMMA ReportIs ==
    ASSUME inv \in InventoryType, NEW legitimate
    PROVE  /\ Report(legitimate) \in Seq(FindingType)
           /\ MacsOf(Report(legitimate)) = Listed(inv)
           /\ AccusedIn(Report(legitimate)) \cap legitimate = {}
<1> DEFINE fs == Analyze(inv, legitimate)
           r == Sorted(fs)
<1>1. r \in Seq(FindingType) /\ Range(r) = fs
  BY SortedIs
<1>2. /\ {f.mac : f \in fs} = Listed(inv)
      /\ \A f \in fs : \A fl \in f.flags :
            fl.code = "OUTSIDE_SUBNET" => fl.ips \cap legitimate = {}
  BY FindingsAre
<1>3. r = Report(legitimate)
  BY DEF Report
<1> HIDE DEF r, fs
<1>4. MacsOf(r) = {f.mac : f \in fs}
  BY <1>1 DEF MacsOf, Range
<1>5. AccusedIn(r) \cap legitimate = {}
  <2> SUFFICES ASSUME NEW k \in DOMAIN r, NEW fl \in r[k].flags, fl.code = "OUTSIDE_SUBNET"
               PROVE  fl.ips \cap legitimate = {}
    BY DEF AccusedIn
  <2>1. r[k] \in fs
    BY <1>1 DEF Range
  <2> QED
    BY <1>2, <2>1
<1> QED
  BY <1>1, <1>2, <1>3, <1>4, <1>5

(* The visible rows are rows.                                              *)
LEMMA VisibleIs ==
    ASSUME NEW fs \in Seq(FindingType)
    PROVE  VisibleOf(fs) \in Seq(FindingType) /\ Len(VisibleOf(fs)) \in Nat
<1>1. VisibleOf(fs) \in Seq(FindingType)
  BY OnlyIs DEF VisibleOf
<1> QED
  BY <1>1

(* The first address of a device that has one.                             *)
LEMMA FirstIpIs ==
    ASSUME NEW f \in FindingType, f.ipv4 # {}
    PROVE  FirstIp(f) \in Ips
<1>1. f.ipv4 \in SUBSET Nat /\ f.ipv4 \subseteq Ips
  BY TableAssumption DEF FindingType
<1>2. \E ip \in f.ipv4 : \A other \in f.ipv4 : ip <= other
  BY <1>1, LeastNumber
<1>3. FirstIp(f) \in f.ipv4
  BY <1>2, Zenon DEF FirstIp
<1> QED
  BY <1>1, <1>3

-----------------------------------------------------------------------------
(* Between the drawing and the key only a refresh changes what is selected;*)
(* and while there is a scan, the table lists no device that its inventory *)
(* does not.                                                               *)
LoopInv ==
    /\ target # Nobody /\ ~refreshed => target = drawn
    /\ turn # "draw" => target = Nobody
    /\ turn = "refresh" => ~refreshed
    /\ turn # "draw" /\ ~refreshed => drawn = Highlighted

RowsInv == handle # "none" => RowMacs \subseteq Listed(inv)

TableInv ==
    /\ TypeOK
    /\ scans \in Nat
    /\ LoopInv
    /\ RowsInv

(* What is drawn depends on the table alone.                               *)
LEMMA SameTable ==
    ASSUME UNCHANGED tableVars
    PROVE  Highlighted' = Highlighted /\ Visible' = Visible /\ RowMacs' = RowMacs
<1>1. UNCHANGED <<findings, result_idx, only_flagged, filter>>
  BY DEF tableVars
<1>2. Visible' = Visible
  BY <1>1 DEF Visible, VisibleOf, Passes
<1> QED
  BY <1>1, <1>2 DEF Highlighted, RowMacs

(* Before anything is launched the table is empty.                         *)
LEMMA TableBegins == Init => TableInv
<1> SUFFICES ASSUME Init PROVE TableInv
  OBVIOUS
<1>1. TypeOK
  <2>1. only_flagged \in BOOLEAN /\ filtering \in BOOLEAN
    BY DEF Init
  <2>2. inv \in InventoryType /\ findings \in Seq(FindingType)
    BY NewTyped DEF Init
  <2> QED
    BY <2>1, <2>2 DEF Init, TypeOK
<1>2. LoopInv /\ RowsInv
  BY DEF Init, LoopInv, RowsInv
<1> QED
  BY <1>1, <1>2 DEF Init, TableInv

(* The scan's own threads.                                                 *)
LEMMA CollectStep == TableInv /\ Collect => TableInv'
<1> SUFFICES ASSUME TableInv, Collect PROVE TableInv'
  OBVIOUS
<1>1. PICK ev \in Events : inv' = Apply(inv, ev)
  BY DEF Collect
<1>2. /\ UNCHANGED <<handle, expected, scans>> /\ UNCHANGED tableVars /\ UNCHANGED loopVars
  BY DEF Collect
<1>3. inv' \in InventoryType /\ Listed(inv) \subseteq Listed(inv')
  BY <1>1, ApplyKeeps, TableAssumption DEF TableInv, TypeOK
<1>4. TypeOK'
  BY <1>2, <1>3 DEF TableInv, TypeOK, tableVars, loopVars
<1>5. LoopInv'
  BY <1>2, SameTable DEF TableInv, LoopInv, loopVars
<1>6. RowsInv'
  BY <1>2, <1>3, SameTable DEF TableInv, RowsInv, Listed
<1> QED
  BY <1>2, <1>4, <1>5, <1>6 DEF TableInv

(* The end of the driver leaves the table alone.                           *)
LEMMA EndsStep == TableInv /\ DriverEnds => TableInv'
<1> SUFFICES ASSUME TableInv, DriverEnds PROVE TableInv'
  OBVIOUS
<1>1. /\ handle = "running" /\ handle' = "over" /\ UNCHANGED <<inv, expected, scans>>
      /\ UNCHANGED tableVars /\ UNCHANGED loopVars
  BY DEF DriverEnds
<1>2. TypeOK'
  BY <1>1 DEF TableInv, TypeOK, tableVars, loopVars
<1>3. LoopInv'
  BY <1>1, SameTable DEF TableInv, LoopInv, loopVars
<1>4. RowsInv'
  BY <1>1, SameTable DEF TableInv, RowsInv, Listed
<1> QED
  BY <1>1, <1>2, <1>3, <1>4 DEF TableInv

(* The event loop.                                                         *)
LEMMA DrawStep == TableInv /\ Draw => TableInv'
<1> SUFFICES ASSUME TableInv, Draw PROVE TableInv'
  OBVIOUS
<1>1. /\ turn' = "refresh" /\ drawn' = Highlighted /\ refreshed' = FALSE /\ target' = Nobody
      /\ UNCHANGED <<inv, handle, expected, events, scans>> /\ UNCHANGED tableVars
  BY DEF Draw, scanVars
<1>2. TypeOK'
  BY <1>1 DEF TableInv, TypeOK, tableVars
<1>3. LoopInv'
  BY <1>1, SameTable DEF LoopInv
<1>4. RowsInv'
  BY <1>1, SameTable DEF TableInv, RowsInv, Listed
<1> QED
  BY <1>1, <1>2, <1>3, <1>4 DEF TableInv

(* What a refresh shows is the inventory of that moment.                   *)
LEMMA RefreshStep == TableInv /\ Refresh => TableInv'
<1> SUFFICES ASSUME TableInv, Refresh PROVE TableInv'
  OBVIOUS
<1> DEFINE n == Len(VisibleOf(findings'))
<1>1. /\ turn = "refresh" /\ turn' = "key" /\ refreshed' = TRUE /\ findings' = Report(expected)
      /\ result_idx' = IF result_idx >= n /\ n > 0 THEN n - 1 ELSE result_idx
      /\ UNCHANGED <<only_flagged, filter, filtering, session_whitelist, drawn, target>>
      /\ UNCHANGED <<inv, handle, expected, events, scans>>
  BY DEF Refresh, scanVars
<1>2. /\ findings' \in Seq(FindingType) /\ MacsOf(findings') = Listed(inv)
  BY <1>1, ReportIs DEF TableInv, TypeOK
<1>3. n \in Nat
  BY <1>2, VisibleIs
<1> HIDE DEF n
<1>4. result_idx' \in Nat
  BY <1>1, <1>3 DEF TableInv, TypeOK
<1>5. TypeOK'
  BY <1>1, <1>2, <1>4 DEF TableInv, TypeOK
<1>6. LoopInv'
  BY <1>1 DEF TableInv, LoopInv
<1>7. RowsInv'
  BY <1>1, <1>2 DEF RowsInv, RowMacs, MacsOf, Listed
<1> QED
  BY <1>1, <1>5, <1>6, <1>7 DEF TableInv

(* A turn without one.                                                     *)
LEMMA NoRefreshStep == TableInv /\ NoRefresh => TableInv'
<1> SUFFICES ASSUME TableInv, NoRefresh PROVE TableInv'
  OBVIOUS
<1>1. /\ turn = "refresh" /\ turn' = "key" /\ UNCHANGED tableVars
      /\ UNCHANGED <<inv, handle, expected, events, scans, drawn, refreshed, target>>
  BY DEF NoRefresh, scanVars
<1>2. TypeOK'
  BY <1>1 DEF TableInv, TypeOK, tableVars
<1>3. LoopInv'
  BY <1>1, SameTable DEF TableInv, LoopInv
<1>4. RowsInv'
  BY <1>1, SameTable DEF TableInv, RowsInv, Listed
<1> QED
  BY <1>1, <1>2, <1>3, <1>4 DEF TableInv

(* A key ends the turn, and acts on what is selected or on no row.         *)
LEMMA KeyLoop ==
    ASSUME TableInv, NEW ready, Pressed(ready), target' \in {target, Selected}
    PROVE  LoopInv' /\ turn' = "draw"
<1>1. turn = "key" /\ turn' = "draw" /\ UNCHANGED <<drawn, refreshed>>
  BY DEF Pressed
<1>2. Selected = Highlighted
  BY DEF Selected, Highlighted
<1> QED
  BY <1>1, <1>2 DEF TableInv, LoopInv

(* Keys that change the index, the filters or nothing.                     *)
LEMMA PlainKeyStep ==
    TableInv /\ (NoKey \/ MoveKey \/ FlaggedKey \/ FilterKey \/ ActKey) => TableInv'
<1> SUFFICES ASSUME TableInv, NoKey \/ MoveKey \/ FlaggedKey \/ FilterKey \/ ActKey
             PROVE  TableInv'
  OBVIOUS
<1>1. /\ UNCHANGED <<findings, session_whitelist>>
      /\ UNCHANGED <<inv, handle, expected, events, scans>>
      /\ target' \in {target, Selected}
      /\ \E ready : Pressed(ready)
  BY DEF NoKey, MoveKey, FlaggedKey, FilterKey, ActKey, tableVars, scanVars
<1>2. LoopInv' /\ turn' = "draw"
  BY <1>1, KeyLoop
<1>3. result_idx' \in Nat
  <2>1. CASE MoveKey
    <3> DEFINE n == Len(Visible)
    <3>1. n \in Nat
      BY VisibleIs DEF TableInv, TypeOK, Visible
    <3>2. \/ n > 0 /\ result_idx' = IF result_idx + 1 < n THEN result_idx + 1 ELSE n - 1
          \/ result_idx > 0 /\ result_idx' = result_idx - 1
      BY <2>1 DEF MoveKey
    <3> HIDE DEF n
    <3> QED
      BY <3>1, <3>2 DEF TableInv, TypeOK
  <2>2. CASE FlaggedKey
    BY <2>2 DEF FlaggedKey
  <2>3. CASE NoKey \/ FilterKey \/ ActKey
    BY <2>3 DEF NoKey, FilterKey, ActKey, TableInv, TypeOK, tableVars
  <2> QED
    BY <2>1, <2>2, <2>3
<1>4. only_flagged' \in BOOLEAN
  <2>1. only_flagged' = only_flagged \/ only_flagged' = ~only_flagged
    BY DEF NoKey, MoveKey, FlaggedKey, FilterKey, ActKey, tableVars
  <2> QED
    BY <2>1 DEF TableInv, TypeOK
<1>5. filtering' \in BOOLEAN /\ filter' \in Queries \cup {NoFilter, Macs \cup Ips}
  <2>1. CASE FilterKey
    BY <2>1 DEF FilterKey, TableInv, TypeOK
  <2>2. CASE NoKey \/ MoveKey \/ FlaggedKey \/ ActKey
    BY <2>2 DEF NoKey, MoveKey, FlaggedKey, ActKey, TableInv, TypeOK, tableVars
  <2> QED
    BY <2>1, <2>2
<1>6. TypeOK'
  BY <1>1, <1>2, <1>3, <1>4, <1>5 DEF TableInv, TypeOK
<1>7. RowsInv'
  BY <1>1 DEF TableInv, RowsInv, RowMacs, Listed
<1> QED
  BY <1>1, <1>2, <1>6, <1>7 DEF TableInv

(* w: what is reported afterwards is the same inventory.                   *)
LEMMA WhitelistStep == TableInv /\ WhitelistKey => TableInv'
<1> SUFFICES ASSUME TableInv, WhitelistKey PROVE TableInv'
  OBVIOUS
<1>1. /\ Pressed(~filtering) /\ target' = Selected /\ Selected # Nobody /\ Selected.ipv4 # {}
      /\ session_whitelist' = session_whitelist \cup Net24(FirstIp(Selected))
      /\ findings' = IF handle = "none" THEN findings ELSE Report(expected \cup session_whitelist')
      /\ UNCHANGED <<result_idx, only_flagged, filter, filtering>>
      /\ UNCHANGED <<inv, handle, expected, events, scans>>
  BY DEF WhitelistKey, scanVars
<1>2. LoopInv' /\ turn' = "draw"
  BY <1>1, KeyLoop
<1>3. session_whitelist' \subseteq Ips
  <2>1. Selected \in FindingType
    <3>1. Visible \in Seq(FindingType)
      BY VisibleIs DEF TableInv, TypeOK, Visible
    <3>2. Selected = Visible[result_idx + 1] /\ result_idx + 1 \in DOMAIN Visible
      BY <1>1 DEF Selected
    <3> QED
      BY <3>1, <3>2
  <2>2. FirstIp(Selected) \in Ips
    BY <1>1, <2>1, FirstIpIs
  <2> QED
    BY <1>1, <2>2, TableAssumption DEF TableInv, TypeOK
<1>4. /\ findings' \in Seq(FindingType)
      /\ handle # "none" => MacsOf(findings') = Listed(inv)
  BY <1>1, ReportIs DEF TableInv, TypeOK
<1>5. TypeOK'
  BY <1>1, <1>2, <1>3, <1>4 DEF TableInv, TypeOK
<1>6. RowsInv'
  BY <1>1, <1>4 DEF RowsInv, RowMacs, MacsOf, Listed
<1> QED
  BY <1>1, <1>2, <1>5, <1>6 DEF TableInv

(* A launch: an empty table, and a new inventory with the lease file.      *)
LEMMA LaunchStep == TableInv /\ LaunchKey => TableInv'
<1> SUFFICES ASSUME TableInv, LaunchKey PROVE TableInv'
  OBVIOUS
<1>1. /\ Pressed(~filtering) /\ target' = target /\ scans' = scans + 1
      /\ UNCHANGED <<only_flagged, filter, filtering, session_whitelist>>
  BY DEF LaunchKey
<1>2. LoopInv' /\ turn' = "draw"
  BY <1>1, KeyLoop
<1>3. CASE /\ handle' = "running" /\ inv' = MergeLeaseFile(NewInventory, LeaseFile)
           /\ expected' = Baseline \cup session_whitelist
           /\ findings' = <<>> /\ result_idx' = 0
  <2>1. inv' \in InventoryType /\ expected' \subseteq Ips
    BY <1>3, MergeTyped, TableAssumption DEF TableInv, TypeOK
  <2>2. TypeOK'
    BY <1>1, <1>2, <1>3, <2>1 DEF TableInv, TypeOK
  <2>3. RowsInv'
    BY <1>3 DEF RowsInv, RowMacs
  <2> QED
    BY <1>1, <1>2, <2>2, <2>3 DEF TableInv
<1>4. CASE /\ handle' = "none" /\ inv' = NewInventory
           /\ UNCHANGED <<expected, findings, result_idx>>
  <2>1. TypeOK'
    BY <1>1, <1>2, <1>4, NewTyped DEF TableInv, TypeOK
  <2>2. RowsInv'
    BY <1>4 DEF RowsInv
  <2> QED
    BY <1>1, <1>2, <2>1, <2>2 DEF TableInv
<1> QED
  BY <1>3, <1>4 DEF LaunchKey

(* Nothing happens.                                                        *)
LEMMA TableIdle == TableInv /\ UNCHANGED vars => TableInv'
<1> SUFFICES ASSUME TableInv, UNCHANGED vars PROVE TableInv'
  OBVIOUS
<1>1. UNCHANGED tableVars /\ UNCHANGED scanVars /\ UNCHANGED loopVars
  BY DEF vars
<1>2. TypeOK'
  BY <1>1 DEF TableInv, TypeOK, tableVars, scanVars, loopVars
<1>3. LoopInv'
  BY <1>1, SameTable DEF TableInv, LoopInv, loopVars
<1>4. RowsInv'
  BY <1>1, SameTable DEF TableInv, RowsInv, Listed, scanVars
<1> QED
  BY <1>1, <1>2, <1>3, <1>4 DEF TableInv, scanVars

(* All of them together.                                                   *)
LEMMA TableStep == TableInv /\ [Next]_vars => TableInv'
  BY CollectStep, EndsStep, DrawStep, RefreshStep, NoRefreshStep, PlainKeyStep,
     WhitelistStep, LaunchStep, TableIdle DEF Next, Loop, Keys

(* No event, key or refresh breaks the invariant, in any order.            *)
THEOREM TableInvariant == SafetySpec => []TableInv
  BY TableBegins, TableStep, PTL DEF SafetySpec

-----------------------------------------------------------------------------
(* handle_results_key: a key acts on the row that was drawn as selected,   *)
(* unless the table was refreshed between the drawing and the key.         *)
THEOREM KeyHitsHighlightedHolds == SafetySpec => []KeyHitsHighlighted
<1>1. TableInv => KeyHitsHighlighted
  BY DEF TableInv, LoopInv, KeyHitsHighlighted
<1> QED
  BY <1>1, TableInvariant, PTL

(* app.rs:432: the step of the key that marks a network leaves no row of   *)
(* the scan reported for an address in any network marked so far.  What a  *)
(* later refresh shows is another matter, see StaysKnown.                  *)
THEOREM MarkedDisappearsHolds == SafetySpec => MarkedDisappears
<1>1. ASSUME TableInv, [Next]_vars, session_whitelist' # session_whitelist, handle # "none"
      PROVE  Accused' \cap session_whitelist' = {}
  <2>1. WhitelistKey
    BY <1>1 DEF Next, Loop, Keys, Collect, DriverEnds, Draw, Refresh, NoRefresh, NoKey, MoveKey,
                FlaggedKey, FilterKey, ActKey, LaunchKey, vars, tableVars
  <2>2. findings' = Report(expected \cup session_whitelist')
    BY <1>1, <2>1 DEF WhitelistKey
  <2>3. AccusedIn(findings') \cap (expected \cup session_whitelist') = {}
    BY <1>1, <2>2, ReportIs DEF TableInv, TypeOK
  <2>4. Accused' = AccusedIn(findings')
    BY DEF Accused, AccusedIn
  <2> QED
    BY <2>3, <2>4
<1>2. TableInv /\ [Next]_vars =>
         [session_whitelist' # session_whitelist /\ handle # "none"
             => Accused' \cap session_whitelist' = {}]_vars
  BY <1>1
<1> QED
  BY <1>2, TableInvariant, PTL DEF SafetySpec, MarkedDisappears

(* A device that a scan has reported is listed until the next scan begins, *)
(* whatever it does and however often the table is recomputed.             *)
THEOREM RowsStayHolds == SafetySpec => RowsStay
<1>1. ASSUME TableInv, [Next]_vars, scans' = scans
      PROVE  RowMacs \subseteq RowMacs'
  <2>1. RowMacs' = MacsOf(findings')
    BY DEF RowMacs, MacsOf
  <2>2. CASE Refresh
    <3>1. handle # "none" /\ findings' = Report(expected)
      BY <2>2 DEF Refresh
    <3>2. MacsOf(findings') = Listed(inv)
      BY <1>1, <3>1, ReportIs DEF TableInv, TypeOK
    <3> QED
      BY <1>1, <2>1, <3>1, <3>2 DEF TableInv, RowsInv
  <2>3. CASE WhitelistKey
    <3>1. findings' = IF handle = "none" THEN findings ELSE Report(expected \cup session_whitelist')
      BY <2>3 DEF WhitelistKey
    <3>2. handle # "none" => MacsOf(findings') = Listed(inv)
      BY <1>1, <3>1, ReportIs DEF TableInv, TypeOK
    <3>3. handle = "none" => RowMacs' = RowMacs
      BY <3>1 DEF RowMacs
    <3> QED
      BY <1>1, <2>1, <3>2, <3>3 DEF TableInv, RowsInv
  <2>4. ~LaunchKey
    BY <1>1 DEF LaunchKey, TableInv
  <2>5. CASE ~Refresh /\ ~WhitelistKey
    <3>1. findings' = findings
      BY <1>1, <2>4, <2>5 DEF Next, Loop, Keys, Collect, DriverEnds, Draw, NoRefresh, NoKey,
                 MoveKey, FlaggedKey, FilterKey, ActKey, vars, tableVars
    <3> QED
      BY <3>1 DEF RowMacs
  <2> QED
    BY <2>2, <2>3, <2>5
<1>2. TableInv /\ [Next]_vars => [scans' = scans => RowMacs \subseteq RowMacs']_vars
  BY <1>1
<1> QED
  BY <1>2, TableInvariant, PTL DEF SafetySpec, RowsStay
=============================================================================
