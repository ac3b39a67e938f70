------------------------- MODULE Listening_proofs ---------------------------
(***************************************************************************)
(* What the inventory has made of the events is what the frames said, for  *)
(* any devices, addresses, frames and lease files, and any delay of the    *)
(* collector; and no flag rests on more than that.                         *)
(***************************************************************************)
EXTENDS Listening, TLAPS

(* What an event says of a device: an address that is its own, one that it *)
(* merely sent from, and a word of the server about its lease.             *)
Gives(ev, m, ip) ==
    \/ ev.type = "V4" /\ ev.src # "Ipv4Source" /\ ev.mac = m /\ ev.ip = ip
    \/ /\ ev.type = "Dhcp" /\ ev.obs.msg_type = "Ack"
       /\ ev.obs.client_mac = m /\ ev.obs.assigned = ip

Forwards(ev, m, ip) == ev.type = "V4" /\ ev.src = "Ipv4Source" /\ ev.mac = m /\ ev.ip = ip

Word(ev, m) ==
    /\ ev.type = "Dhcp" /\ ev.obs.client_mac = m
    /\ \/ ev.obs.msg_type = "Ack" /\ ev.obs.assigned # NoIp
       \/ ev.obs.msg_type = "Release"

LeaseOf(ev) == IF ev.obs.msg_type = "Ack" THEN ev.obs.assigned ELSE NoIp

(* A host with a lease owns its address and was seen in DHCP.              *)
LeaseBacked(h) == h.lease # NoIp => h.lease \in h.owned /\ h.tried_dhcp /\ "Dhcp" \in h.sources

-----------------------------------------------------------------------------
(* One event and one host.                                                 *)
LEMMA HostV6 ==
    ASSUME NEW h \in HostType
    PROVE  LET g == HostSeenV6(h)
           IN /\ g \in HostType
              /\ g.owned = h.owned /\ g.routed = h.routed /\ g.lease = h.lease
              /\ LeaseBacked(h) => LeaseBacked(g)
  BY DEF HostSeenV6, HostType, Sources, LeaseBacked

LEMMA HostTold ==
    ASSUME NEW h \in HostType, NEW obs \in DhcpObservation
    PROVE  LET g    == HostDhcp(h, obs)
               acks == obs.msg_type = "Ack" /\ obs.assigned # NoIp
           IN /\ g \in HostType
              /\ g.owned = IF acks THEN h.owned \cup {obs.assigned} ELSE h.owned
              /\ g.routed = h.routed
              /\ g.lease = IF acks THEN obs.assigned
                           ELSE IF obs.msg_type = "Release" THEN NoIp ELSE h.lease
              /\ LeaseBacked(h) => LeaseBacked(g)
<1> DEFINE seen  == [h EXCEPT !.sources = @ \cup {"Dhcp"}]
           tried == [seen EXCEPT !.tried_dhcp = TRUE]
<1>1. /\ seen \in HostType /\ tried \in HostType
      /\ seen.owned = h.owned /\ seen.routed = h.routed /\ seen.lease = h.lease
      /\ tried.owned = h.owned /\ tried.routed = h.routed /\ tried.lease = h.lease
      /\ LeaseBacked(h) => LeaseBacked(seen) /\ LeaseBacked(tried)
      /\ tried.tried_dhcp = TRUE /\ "Dhcp" \in tried.sources
  BY DEF HostType, Sources, LeaseBacked
<1>2. obs.msg_type \in MsgTypes /\ obs.assigned \in Ips \cup {NoIp}
  BY DEF DhcpObservation
<1>3. CASE obs.msg_type = "Ack"
  <2>1. HostDhcp(h, obs) = HostAck(tried, obs.assigned)
    BY <1>3 DEF HostDhcp
  <2> HIDE DEF tried
  <2>2. CASE obs.assigned = NoIp
    <3>1. HostDhcp(h, obs) = tried
      BY <2>1, <2>2 DEF HostAck
    <3> QED
      BY <1>1, <1>3, <2>2, <3>1
  <2>3. CASE obs.assigned # NoIp
    <3>1. HostDhcp(h, obs) = [tried EXCEPT !.lease = obs.assigned,
                                           !.owned = @ \cup {obs.assigned}]
      BY <2>1, <2>3 DEF HostAck
    <3>2. obs.assigned \in Ips
      BY <1>2, <2>3
    <3> DEFINE g == HostDhcp(h, obs)
    <3>3. /\ g.lease = obs.assigned /\ g.owned = tried.owned \cup {obs.assigned}
          /\ g.routed = tried.routed /\ g.tried_dhcp = tried.tried_dhcp
          /\ g.sources = tried.sources
      BY <1>1, <3>1 DEF HostType
    <3>4. g \in HostType
      <4>1. g = [owned |-> tried.owned \cup {obs.assigned}, routed |-> tried.routed,
                 ipv6 |-> tried.ipv6, sources |-> tried.sources, lease |-> obs.assigned,
                 tried_dhcp |-> tried.tried_dhcp]
        BY <1>1, <3>1 DEF HostType
      <4> QED
        BY <1>1, <3>2, <4>1 DEF HostType
    <3>5. LeaseBacked(g)
      BY <1>1, <3>3 DEF LeaseBacked
    <3> HIDE DEF g
    <3> QED
      BY <1>1, <1>3, <2>3, <3>3, <3>4, <3>5 DEF g
  <2> QED
    BY <2>2, <2>3
<1>4. CASE obs.msg_type = "Release"
  <2>1. HostDhcp(h, obs) = [tried EXCEPT !.lease = NoIp]
    BY <1>4 DEF HostDhcp
  <2> HIDE DEF tried
  <2> QED
    BY <1>1, <1>4, <2>1 DEF HostType, LeaseBacked
<1>5. CASE obs.msg_type \in {"Discover", "Request", "Inform", "Decline"}
  <2>1. HostDhcp(h, obs) = tried
    BY <1>5 DEF HostDhcp
  <2> HIDE DEF tried
  <2> QED
    BY <1>1, <1>5, <2>1
<1>6. CASE obs.msg_type \in {"Offer", "Nak", "Other"}
  <2>1. HostDhcp(h, obs) = seen
    BY <1>6 DEF HostDhcp
  <2> HIDE DEF seen
  <2> QED
    BY <1>1, <1>6, <2>1
<1> QED
  BY <1>2, <1>3, <1>4, <1>5, <1>6 DEF MsgTypes

(* One event and the inventory.                                            *)
LEMMA ApplyFacts ==
    ASSUME NEW i \in InventoryType, NEW ev \in EventType
    PROVE  LET j == Apply(i, ev)
           IN /\ j \in InventoryType
              /\ j.lease_file_loaded = i.lease_file_loaded
              /\ i.known \cap NotHosts = {} => j.known \cap NotHosts = {}
              /\ \A m \in Macs : LeaseBacked(i.hosts[m]) => LeaseBacked(j.hosts[m])
              /\ \A m \in Macs \ NotHosts :
                    /\ j.hosts[m].owned = i.hosts[m].owned \cup {ip \in Ips : Gives(ev, m, ip)}
                    /\ j.hosts[m].routed = i.hosts[m].routed \cup {ip \in Ips : Forwards(ev, m, ip)}
                    /\ j.hosts[m].lease = IF Word(ev, m) THEN LeaseOf(ev) ELSE i.hosts[m].lease
<1> DEFINE mac == EventMac(ev)
           h   == i.hosts[mac]
           g   == CASE ev.type = "V4" -> HostSeenV4(h, ev.ip, ev.src)
                    [] ev.type = "V6" -> HostSeenV6(h)
                    [] ev.type = "Dhcp" -> HostDhcp(h, ev.obs)
           j   == Apply(i, ev)
<1>1. mac \in Macs
  BY DEF EventMac, EventType, DhcpObservation
<1>2. h \in HostType /\ \A m \in Macs : i.hosts[m] \in HostType
  BY <1>1 DEF InventoryType
<1>3. /\ g \in HostType
      /\ LeaseBacked(h) => LeaseBacked(g)
      /\ g.owned = h.owned \cup {ip \in Ips : Gives(ev, mac, ip)}
      /\ g.routed = h.routed \cup {ip \in Ips : Forwards(ev, mac, ip)}
      /\ g.lease = IF Word(ev, mac) THEN LeaseOf(ev) ELSE h.lease
  <2>1. CASE ev.type = "V4"
    <3>1. ev.ip \in Ips /\ ev.src \in Sources /\ mac = ev.mac
      BY <2>1 DEF EventType, EventMac
    <3>2. g = HostSeenV4(h, ev.ip, ev.src)
      BY <2>1
    <3>3. /\ {ip \in Ips : Gives(ev, mac, ip)} = IF ev.src = "Ipv4Source" THEN {} ELSE {ev.ip}
          /\ {ip \in Ips : Forwards(ev, mac, ip)} = IF ev.src = "Ipv4Source" THEN {ev.ip} ELSE {}
          /\ ~Word(ev, mac)
      BY <2>1, <3>1 DEF Gives, Forwards, Word
    <3> HIDE DEF h, g, mac
    <3>4. /\ g \in HostType
          /\ g.owned = IF ev.src = "Ipv4Source" THEN h.owned ELSE h.owned \cup {ev.ip}
          /\ g.routed = IF ev.src = "Ipv4Source" THEN h.routed \cup {ev.ip} ELSE h.routed
          /\ g.lease = h.lease
          /\ LeaseBacked(h) => LeaseBacked(g)
      BY <1>2, <3>1, <3>2 DEF HostSeenV4, HostType, LeaseBacked
    <3> QED
      BY <3>3, <3>4
  <2>2. CASE ev.type = "V6"
    <3>1. g = HostSeenV6(h)
      BY <2>2
    <3> HIDE DEF h
    <3> QED
      BY <1>2, <2>2, <3>1, HostV6 DEF Gives, Forwards, Word
  <2>3. CASE ev.type = "Dhcp"
    <3>1. ev.obs \in DhcpObservation /\ mac = ev.obs.client_mac
      BY <2>3 DEF EventType, EventMac
    <3>2. g = HostDhcp(h, ev.obs)
      BY <2>3
    <3>3. ev.obs.assigned \in Ips \cup {NoIp} /\ NoIp \notin Ips
      BY <3>1, DissectAssumption DEF DhcpObservation
    <3> DEFINE acks == ev.obs.msg_type = "Ack" /\ ev.obs.assigned # NoIp
    <3>4. /\ {ip \in Ips : Gives(ev, mac, ip)} = IF acks THEN {ev.obs.assigned} ELSE {}
          /\ {ip \in Ips : Forwards(ev, mac, ip)} = {}
          /\ Word(ev, mac) <=> acks \/ ev.obs.msg_type = "Release"
      BY <2>3, <3>1, <3>3 DEF Gives, Forwards, Word
    <3> HIDE DEF h, g, mac
    <3> QED
      BY <1>2, <3>1, <3>2, <3>3, <3>4, HostTold DEF LeaseOf
  <2> QED
    BY <2>1, <2>2, <2>3 DEF EventType
<1>4. \A m : m # mac => ~Word(ev, m) /\ \A ip : ~Gives(ev, m, ip) /\ ~Forwards(ev, m, ip)
  BY DEF EventMac, Word, Gives, Forwards
<1>5. CASE mac \in NotHosts
  <2>1. j = i
    BY <1>5 DEF Apply
  <2> HIDE DEF mac
  <2> QED
    BY <1>4, <1>5, <2>1
<1>6. CASE mac \notin NotHosts
  <2>1. j = [i EXCEPT !.known = @ \cup {mac}, !.hosts[mac] = g]
    BY <1>6 DEF Apply, PutHost
  <2> HIDE DEF mac, g
  <2>2. /\ j \in InventoryType
        /\ j.known = i.known \cup {mac}
        /\ j.lease_file_loaded = i.lease_file_loaded
        /\ \A m \in Macs : j.hosts[m] = IF m = mac THEN g ELSE i.hosts[m]
    <3>1. i.hosts \in [Macs -> HostType] /\ i.known \subseteq Macs
      BY DEF InventoryType
    <3>2. j = [known |-> i.known \cup {mac}, hosts |-> [i.hosts EXCEPT ![mac] = g],
               orphan_leases |-> i.orphan_leases, lease_file_loaded |-> i.lease_file_loaded]
      BY <2>1 DEF InventoryType
    <3>3. [i.hosts EXCEPT ![mac] = g] \in [Macs -> HostType]
      BY <1>3, <3>1
    <3> HIDE DEF j
    <3> QED
      BY <1>1, <3>1, <3>2, <3>3 DEF InventoryType
  <2> HIDE DEF j, h
  <2>3. \A m \in Macs : LeaseBacked(i.hosts[m]) => LeaseBacked(j.hosts[m])
    BY <1>3, <2>2 DEF h
  <2>4. ASSUME NEW m \in Macs \ NotHosts
        PROVE  /\ j.hosts[m].owned = i.hosts[m].owned \cup {ip \in Ips : Gives(ev, m, ip)}
               /\ j.hosts[m].routed = i.hosts[m].routed \cup {ip \in Ips : Forwards(ev, m, ip)}
               /\ j.hosts[m].lease = IF Word(ev, m) THEN LeaseOf(ev) ELSE i.hosts[m].lease
    <3>1. CASE m = mac
      BY <1>3, <2>2, <3>1 DEF h
    <3>2. CASE m # mac
      BY <1>4, <2>2, <3>2
    <3> QED
      BY <3>1, <3>2
  <2> QED
    BY <1>6, <2>2, <2>3, <2>4 DEF j
<1> QED
  BY <1>5, <1>6

(* Two sequences, one behind the other.                                    *)
LEMMA JoinedSeqs ==
    ASSUME NEW S, NEW a \in Seq(S), NEW b \in Seq(S)
    PROVE  /\ a \o b \in Seq(S) /\ DOMAIN (a \o b) = 1 .. Len(a) + Len(b)
           /\ \A k \in 1 .. Len(a) : (a \o b)[k] = a[k]
           /\ \A k \in 1 .. Len(b) : (a \o b)[Len(a) + k] = b[k]
  OBVIOUS

(* The events of one frame say what the frame says.                        *)
LEMMA DispatchFacts ==
    ASSUME NEW f \in ArpFrames \cup Ipv4Frames \cup Ipv6Frames
    PROVE  LET d == Dispatch(f)
           IN /\ d \in Seq(EventType)
              /\ ~Heard(f) => d = <<>>
              /\ \A m \in Macs, ip \in Ips :
                    (\E k \in DOMAIN d : Gives(d[k], m, ip))
                       <=> Heard(f) /\ <<m, ip>> \in ArpClaims(f) \cup Grants(f)
              /\ \A m \in Macs, ip \in Ips :
                    (\E k \in DOMAIN d : Forwards(d[k], m, ip))
                       <=> Heard(f) /\ <<m, ip>> \in Uses(f)
              /\ \A m \in Macs :
                    /\ (\A k \in DOMAIN d : ~Word(d[k], m))
                          => (Heard(f) => LastWord(f)[m] = lastWord[m])
                    /\ \A k \in DOMAIN d : Word(d[k], m) => LeaseOf(d[k]) = LastWord(f)[m]
<1> DEFINE d == Dispatch(f)
<1>1. CASE f.mac = LocalMac
  BY <1>1 DEF Dispatch, Heard
<1>2. CASE f.mac # LocalMac /\ f \in ArpFrames
  <2>1. /\ f.kind = "arp" /\ f.sender_mac \in Macs
        /\ f.sender_ip \in Ips \cup {Unspecified} /\ f.target_ip \in Ips \cup {Unspecified}
        /\ f.reply \in BOOLEAN
    BY <1>2 DEF ArpFrames
  <2>2. d = HandleArp(f)
    BY <1>2, <2>1 DEF Dispatch
  <2> DEFINE ip == IF f.sender_ip # Unspecified THEN f.sender_ip ELSE f.target_ip
             src == IF f.sender_ip = Unspecified THEN "Gratuitous"
                    ELSE IF f.reply THEN "ArpReply"
                    ELSE IF f.sender_ip = f.target_ip THEN "Gratuitous" ELSE "ArpRequest"
  <2>3. /\ ArpClaims(f) = {f.sender_mac} \X ({ip} \ {Unspecified})
        /\ Grants(f) = {} /\ Uses(f) = {} /\ ~IsDhcp(f) /\ Heard(f)
    BY <1>2, <2>1 DEF ArpClaims, Grants, Uses, IsDhcp, Heard
  <2>4. \A m \in Macs : LastWord(f)[m] = lastWord[m]
    BY <2>3 DEF LastWord
  <2>5. CASE ip = Unspecified
    <3>1. d = <<>>
      BY <2>1, <2>2, <2>5, DissectAssumption DEF HandleArp
    <3> QED
      BY <2>3, <2>4, <2>5, <3>1
  <2>6. CASE ip # Unspecified
    <3>1. ip \in Ips /\ src \in Sources /\ src # "Ipv4Source"
      BY <2>1, <2>6 DEF Sources
    <3>2. d = <<V4(f.sender_mac, ip, src)>>
      BY <2>1, <2>2, <2>6 DEF HandleArp
    <3> HIDE DEF ip, src, d
    <3> DEFINE ev == V4(f.sender_mac, ip, src)
    <3>3. /\ ev \in EventType
          /\ \A m, a : Gives(ev, m, a) <=> m = f.sender_mac /\ a = ip
          /\ \A m, a : ~Forwards(ev, m, a) /\ ~Word(ev, m)
      BY <2>1, <3>1 DEF V4, EventType, Gives, Forwards, Word
    <3> HIDE DEF ev
    <3>4. d \in Seq(EventType) /\ DOMAIN d = {1} /\ d[1] = ev
      BY <3>2, <3>3 DEF ev
    <3> QED
      BY <2>3, <2>4, <2>6, <3>3, <3>4 DEF d
  <2> QED
    BY <2>5, <2>6
<1>3. CASE f.mac # LocalMac /\ f \in Ipv6Frames
  <2>1. f.kind = "ipv6" /\ f.mac \in Macs /\ f.usable \in BOOLEAN
    BY <1>3 DEF Ipv6Frames
  <2>2. d = HandleIpv6(f)
    BY <1>3, <2>1 DEF Dispatch
  <2>3. ArpClaims(f) = {} /\ Grants(f) = {} /\ Uses(f) = {} /\ ~IsDhcp(f) /\ Heard(f)
    BY <1>3, <2>1 DEF ArpClaims, Grants, Uses, IsDhcp, Heard
  <2>4. \A m \in Macs : LastWord(f)[m] = lastWord[m]
    BY <2>3 DEF LastWord
  <2>5. /\ V6(f.mac) \in EventType
        /\ \A m, a : ~Gives(V6(f.mac), m, a) /\ ~Forwards(V6(f.mac), m, a) /\ ~Word(V6(f.mac), m)
    BY <2>1 DEF V6, EventType, Gives, Forwards, Word
  <2>6. d \in Seq(EventType) /\ \A k \in DOMAIN d : d[k] = V6(f.mac)
    BY <2>1, <2>2, <2>5 DEF HandleIpv6
  <2> HIDE DEF d
  <2> QED
    BY <2>3, <2>4, <2>5, <2>6 DEF d
<1>4. CASE f.mac # LocalMac /\ f \in Ipv4Frames
  <2> DEFINE told == Dhcp(f.dhcp)
             sent == V4(f.mac, f.src_ip, "Ipv4Source")
  <2>1. /\ f.kind = "ipv4" /\ f.mac \in Macs /\ Heard(f)
        /\ f.dhcp \in DhcpObservation \cup {NoDhcp}
        /\ IsDhcp(f) <=> f.dhcp # NoDhcp
    BY <1>4 DEF Ipv4Frames, Heard, IsDhcp
  <2>2. d = (IF ~IsDhcp(f) THEN <<>> ELSE <<told>>) \o (IF f.src_ip \in Ips THEN <<sent>> ELSE <<>>)
    BY <1>4, <2>1 DEF Dispatch, HandleIpv4
  <2>3. IsDhcp(f) => /\ told \in EventType
                     /\ told.type = "Dhcp" /\ told.obs = f.dhcp
                     /\ f.dhcp.client_mac \in Macs /\ f.dhcp.assigned \in Ips \cup {NoIp}
    BY <2>1 DEF Dhcp, EventType, DhcpObservation
  <2>4. f.src_ip \in Ips => /\ sent \in EventType
                            /\ sent.type = "V4" /\ sent.mac = f.mac /\ sent.ip = f.src_ip
                            /\ sent.src = "Ipv4Source"
    BY <2>1 DEF V4, EventType, Sources
  <2>5. /\ ArpClaims(f) = {} /\ Uses(f) = {f.mac} \X ({f.src_ip} \cap Ips)
        /\ Grants(f) = IF IsDhcp(f) /\ f.dhcp.msg_type = "Ack"
                       THEN {f.dhcp.client_mac} \X ({f.dhcp.assigned} \ {NoIp}) ELSE {}
    BY <2>1 DEF ArpClaims, Uses, Grants
  <2>6. \A m \in Macs :
           LastWord(f)[m] = IF IsDhcp(f) /\ f.dhcp.msg_type = "Ack" /\ f.dhcp.assigned # NoIp
                               /\ f.dhcp.client_mac = m THEN f.dhcp.assigned
                            ELSE IF IsDhcp(f) /\ f.dhcp.msg_type = "Release"
                                    /\ f.dhcp.client_mac = m THEN NoIp
                            ELSE lastWord[m]
    <3> SUFFICES ASSUME NEW m \in Macs
                 PROVE  (\E g \in Grants(f) : g[1] = m)
                           <=> /\ IsDhcp(f) /\ f.dhcp.msg_type = "Ack"
                               /\ f.dhcp.assigned # NoIp /\ f.dhcp.client_mac = m
      BY DEF LastWord
    <3>1. CASE IsDhcp(f) /\ f.dhcp.msg_type = "Ack" /\ f.dhcp.assigned # NoIp
      <4>1. Grants(f) = {<<f.dhcp.client_mac, f.dhcp.assigned>>}
        BY <2>5, <3>1
      <4> QED
        BY <3>1, <4>1
    <3>2. CASE ~(IsDhcp(f) /\ f.dhcp.msg_type = "Ack" /\ f.dhcp.assigned # NoIp)
      <4>1. Grants(f) = {}
        BY <2>5, <3>2
      <4> QED
        BY <3>2, <4>1
    <3> QED
      BY <3>1, <3>2
  <2> HIDE DEF told, sent, d
  <2>7. /\ d \in Seq(EventType)
        /\ \A k \in DOMAIN d : \/ IsDhcp(f) /\ d[k] = told
                               \/ f.src_ip \in Ips /\ d[k] = sent
        /\ IsDhcp(f) => \E k \in DOMAIN d : d[k] = told
        /\ f.src_ip \in Ips => \E k \in DOMAIN d : d[k] = sent
    <3> DEFINE a == IF ~IsDhcp(f) THEN <<>> ELSE <<told>>
               b == IF f.src_ip \in Ips THEN <<sent>> ELSE <<>>
    <3>1. a \in Seq(EventType) /\ Len(a) = IF IsDhcp(f) THEN 1 ELSE 0
      BY <2>3
    <3>2. IsDhcp(f) => a[1] = told
      OBVIOUS
    <3>3. b \in Seq(EventType) /\ Len(b) = IF f.src_ip \in Ips THEN 1 ELSE 0
      BY <2>4
    <3>4. f.src_ip \in Ips => b[1] = sent
      OBVIOUS
    <3>5. d = a \o b
      BY <2>2
    <3> HIDE DEF a, b
    <3>6. /\ d \in Seq(EventType) /\ DOMAIN d = 1 .. Len(a) + Len(b)
          /\ \A k \in 1 .. Len(a) : d[k] = a[k]
          /\ \A k \in 1 .. Len(b) : d[Len(a) + k] = b[k]
      BY <3>1, <3>3, <3>5, JoinedSeqs
    <3>7. CASE IsDhcp(f) /\ f.src_ip \in Ips
      <4>1. DOMAIN d = {1, 2} /\ d[1] = told /\ d[2] = sent
        BY <3>1, <3>2, <3>3, <3>4, <3>6, <3>7
      <4>2. /\ \E k \in DOMAIN d : d[k] = told
            /\ \E k \in DOMAIN d : d[k] = sent
            /\ \A k \in DOMAIN d : d[k] = told \/ d[k] = sent
        BY <4>1
      <4>3. d \in Seq(EventType)
        BY <3>6
      <4> QED
        BY <3>7, <4>2, <4>3
    <3>8. CASE IsDhcp(f) /\ f.src_ip \notin Ips
      <4>1. DOMAIN d = {1} /\ d[1] = told
        BY <3>1, <3>2, <3>3, <3>6, <3>8
      <4>2. (\E k \in DOMAIN d : d[k] = told) /\ (\A k \in DOMAIN d : d[k] = told)
        BY <4>1
      <4>3. d \in Seq(EventType)
        BY <3>6
      <4> QED
        BY <3>8, <4>2, <4>3
    <3>9. CASE ~IsDhcp(f) /\ f.src_ip \in Ips
      <4>1. DOMAIN d = {1} /\ d[1] = sent
        BY <3>1, <3>3, <3>4, <3>6, <3>9
      <4> QED
        BY <3>6, <3>9, <4>1
    <3>10. CASE ~IsDhcp(f) /\ f.src_ip \notin Ips
      <4>1. DOMAIN d = {}
        BY <3>1, <3>3, <3>6, <3>10
      <4> QED
        BY <3>6, <3>10, <4>1
    <3> QED
      BY <3>7, <3>8, <3>9, <3>10
  <2>8. \A m, a : f.src_ip \in Ips => /\ ~Gives(sent, m, a) /\ ~Word(sent, m)
                                      /\ Forwards(sent, m, a) <=> m = f.mac /\ a = f.src_ip
    BY <2>4 DEF Gives, Forwards, Word
  <2>9. \A m, a : IsDhcp(f) =>
           /\ ~Forwards(told, m, a)
           /\ Gives(told, m, a) <=> /\ f.dhcp.msg_type = "Ack" /\ f.dhcp.client_mac = m
                                    /\ f.dhcp.assigned = a
           /\ Word(told, m) <=> /\ f.dhcp.client_mac = m
                                /\ \/ f.dhcp.msg_type = "Ack" /\ f.dhcp.assigned # NoIp
                                   \/ f.dhcp.msg_type = "Release"
           /\ LeaseOf(told) = IF f.dhcp.msg_type = "Ack" THEN f.dhcp.assigned ELSE NoIp
    BY <2>3 DEF Gives, Forwards, Word, LeaseOf
  <2>10. \A m \in Macs, ip \in Ips :
            (\E k \in DOMAIN d : Gives(d[k], m, ip)) <=> <<m, ip>> \in Grants(f)
    BY <2>5, <2>7, <2>8, <2>9, DissectAssumption
  <2>11. \A m \in Macs, ip \in Ips :
            (\E k \in DOMAIN d : Forwards(d[k], m, ip)) <=> <<m, ip>> \in Uses(f)
    BY <2>5, <2>7, <2>8, <2>9
  <2>12. \A m \in Macs :
            /\ (\A k \in DOMAIN d : ~Word(d[k], m)) => LastWord(f)[m] = lastWord[m]
            /\ \A k \in DOMAIN d : Word(d[k], m) => LeaseOf(d[k]) = LastWord(f)[m]
    BY <2>6, <2>7, <2>8, <2>9
  <2> QED
    BY <2>1, <2>5, <2>7, <2>10, <2>11, <2>12 DEF d
<1> QED
  BY <1>1, <1>2, <1>3, <1>4

-----------------------------------------------------------------------------
(* The invariant.  What the frames said is in the inventory or still waits *)
(* in the channel; of several words about a lease the last one counts.     *)
ClaimsInv ==
    \A m \in Macs \ NotHosts, ip \in Ips :
        <<m, ip>> \in claims <=>
            \/ ip \in inventory.hosts[m].owned
            \/ \E k \in DOMAIN chan : Gives(chan[k], m, ip)

UsedInv ==
    \A m \in Macs \ NotHosts, ip \in Ips :
        <<m, ip>> \in used <=>
            \/ ip \in inventory.hosts[m].routed
            \/ \E k \in DOMAIN chan : Forwards(chan[k], m, ip)

WordInv ==
    \A m \in Macs \ NotHosts :
        /\ (\A k \in DOMAIN chan : ~Word(chan[k], m)) => inventory.hosts[m].lease = lastWord[m]
        /\ \A k \in DOMAIN chan :
              Word(chan[k], m) /\ (\A l \in DOMAIN chan : l > k => ~Word(chan[l], m))
                 => LeaseOf(chan[k]) = lastWord[m]

StartInv ==
    stage = "start" => inventory = NewInventory /\ chan = <<>> /\ file = NoFile

FileInv == inventory.lease_file_loaded <=> file # NoFile

ListenInv ==
    /\ TypeOK
    /\ inventory.known \cap NotHosts = {}
    /\ \A m \in Macs : LeaseBacked(inventory.hosts[m])
    /\ ClaimsInv /\ UsedInv /\ WordInv
    /\ StartInv /\ FileInv

(* Nothing is known and nothing was said.                                  *)
THEOREM ListenInit == Init => ListenInv
<1> SUFFICES ASSUME Init PROVE ListenInv
  OBVIOUS
<1>1. NewInventory \in InventoryType
  BY DEF NewInventory, InventoryType, NewHost, HostType
<1>2. \A m \in Macs : inventory.hosts[m] = NewHost
  BY DEF Init, NewInventory
<1>3. NewHost.owned = {} /\ NewHost.routed = {} /\ NewHost.lease = NoIp
  BY DEF NewHost
<1>4. inventory.known = {} /\ inventory.lease_file_loaded = FALSE
  BY DEF Init, NewInventory
<1>5. DOMAIN chan = {}
  BY DEF Init
<1>6. TypeOK
  BY <1>1 DEF Init, TypeOK, LeaseFileType
<1>7. ClaimsInv /\ UsedInv /\ WordInv
  BY <1>2, <1>3, <1>5 DEF Init, ClaimsInv, UsedInv, WordInv
<1>8. \A m \in Macs : LeaseBacked(inventory.hosts[m])
  BY <1>2, <1>3 DEF LeaseBacked
<1>9. StartInv /\ FileInv
  BY <1>4 DEF Init, StartInv, FileInv
<1> QED
  BY <1>4, <1>6, <1>7, <1>8, <1>9 DEF ListenInv

(* A lease file is loaded before anything is known of any host: all of its *)
(* leases become orphans.                                                  *)
LEMMA StartStep == ASSUME ListenInv, NEW f \in LeaseFiles \cup {NoFile}, Start(f)
                   PROVE  ListenInv'
<1>1. /\ inventory = NewInventory /\ chan = <<>>
      /\ stage' = "listening" /\ file' = f /\ chan' = chan
      /\ claims' = claims /\ used' = used
      /\ lastWord' = lastWord /\ received' = received
      /\ inventory' = IF f = NoFile THEN inventory ELSE MergeLeaseFile(inventory, f)
  BY DEF Start, ListenInv, StartInv
<1>2. /\ inventory' \in InventoryType /\ inventory'.known = {}
      /\ inventory'.hosts = inventory.hosts
      /\ inventory'.lease_file_loaded <=> f # NoFile
  <2>1. NewHost \in HostType
    BY DEF NewHost, HostType
  <2>2. CASE f = NoFile
    <3>1. inventory' = NewInventory
      BY <1>1, <2>2
    <3> QED
      BY <1>1, <2>1, <2>2, <3>1 DEF NewInventory, InventoryType
  <2>3. CASE f # NoFile
    <3>1. f \in [Macs -> Ips \cup {NoIp}]
      BY <2>3, ListeningAssumption DEF LeaseFileType
    <3>2. inventory' = [known |-> {}, hosts |-> [m \in Macs |-> NewHost],
                        orphan_leases |-> [m \in Macs |-> IF f[m] # NoIp THEN f[m] ELSE NoIp],
                        lease_file_loaded |-> TRUE]
      BY <1>1, <2>3, <3>1 DEF MergeLeaseFile, NewInventory
    <3>3. inventory.hosts = [m \in Macs |-> NewHost]
      BY <1>1 DEF NewInventory
    <3>4. [m \in Macs |-> IF f[m] # NoIp THEN f[m] ELSE NoIp] \in [Macs -> Ips \cup {NoIp}]
      BY <3>1
    <3> QED
      BY <2>1, <2>3, <3>2, <3>3, <3>4 DEF InventoryType
  <2> QED
    BY <2>2, <2>3
<1>3. TypeOK'
  BY <1>1, <1>2, ListeningAssumption DEF ListenInv, TypeOK
<1>4. \A m \in Macs : LeaseBacked(inventory'.hosts[m])
  BY <1>2 DEF ListenInv
<1>5. ClaimsInv' /\ UsedInv' /\ WordInv'
  BY <1>1, <1>2 DEF ListenInv, ClaimsInv, UsedInv, WordInv
<1>6. StartInv' /\ FileInv'
  BY <1>1, <1>2 DEF StartInv, FileInv
<1> QED
  BY <1>2, <1>3, <1>4, <1>5, <1>6 DEF ListenInv

(* What a frame says is about devices and addresses.                       *)
LEMMA FrameTypes ==
    ASSUME NEW f \in ArpFrames \cup Ipv4Frames \cup Ipv6Frames
    PROVE  /\ ArpClaims(f) \subseteq Macs \X Ips
           /\ Grants(f) \subseteq Macs \X Ips
           /\ Uses(f) \subseteq Macs \X Ips
           /\ lastWord \in LeaseFileType => LastWord(f) \in LeaseFileType
<1>1. /\ f.kind = "arp" => /\ f.sender_mac \in Macs
                           /\ f.sender_ip \in Ips \cup {Unspecified}
                           /\ f.target_ip \in Ips \cup {Unspecified}
      /\ f.kind = "ipv4" => f.mac \in Macs /\ f.dhcp \in DhcpObservation \cup {NoDhcp}
  BY DEF ArpFrames, Ipv4Frames, Ipv6Frames
<1>2. IsDhcp(f) => f.dhcp.client_mac \in Macs /\ f.dhcp.assigned \in Ips \cup {NoIp}
  BY <1>1 DEF IsDhcp, DhcpObservation
<1>3. ArpClaims(f) \subseteq Macs \X Ips
  BY <1>1 DEF ArpClaims
<1>4. Grants(f) \subseteq Macs \X Ips
  BY <1>2 DEF Grants
<1>5. Uses(f) \subseteq Macs \X Ips
  BY <1>1 DEF Uses
<1>6. ASSUME NEW m \in Macs, lastWord \in LeaseFileType
      PROVE  LastWord(f)[m] \in Ips \cup {NoIp}
  <2>1. (\E g \in Grants(f) : g[1] = m) => IsDhcp(f)
    BY DEF Grants
  <2> QED
    BY <1>2, <1>6, <2>1 DEF LastWord, LeaseFileType
<1> QED
  BY <1>3, <1>4, <1>5, <1>6 DEF LastWord, LeaseFileType

(* What a frame says is recorded and put in the channel.                   *)
LEMMA ReceiveStep == ASSUME ListenInv, NEW f \in FrameSet, Receive(f)
                     PROVE  ListenInv'
<1> DEFINE d == Dispatch(f)
<1>1. /\ stage = "listening" /\ stage' = stage /\ inventory' = inventory /\ file' = file
      /\ received' = received + 1 /\ chan' = chan \o d
      /\ Heard(f) => /\ claims' = claims \cup (ArpClaims(f) \cup Grants(f))
                     /\ used' = used \cup Uses(f)
                     /\ lastWord' = LastWord(f)
      /\ ~Heard(f) => /\ claims' = claims /\ used' = used
                      /\ lastWord' = lastWord
  BY DEF Receive
<1>2. f \in ArpFrames \cup Ipv4Frames \cup Ipv6Frames
  BY ListeningAssumption
<1>3. /\ d \in Seq(EventType)
      /\ ~Heard(f) => d = <<>>
      /\ \A m \in Macs, ip \in Ips :
            (\E k \in DOMAIN d : Gives(d[k], m, ip))
               <=> Heard(f) /\ <<m, ip>> \in ArpClaims(f) \cup Grants(f)
      /\ \A m \in Macs, ip \in Ips :
            (\E k \in DOMAIN d : Forwards(d[k], m, ip)) <=> Heard(f) /\ <<m, ip>> \in Uses(f)
      /\ \A m \in Macs :
            /\ (\A k \in DOMAIN d : ~Word(d[k], m)) => (Heard(f) => LastWord(f)[m] = lastWord[m])
            /\ \A k \in DOMAIN d : Word(d[k], m) => LeaseOf(d[k]) = LastWord(f)[m]
  BY <1>2, DispatchFacts
<1> HIDE DEF d
<1>4. chan \in Seq(EventType)
  BY DEF ListenInv, TypeOK
<1>5. /\ chan' \in Seq(EventType) /\ DOMAIN chan' = 1 .. Len(chan) + Len(d)
      /\ \A k \in 1 .. Len(chan) : chan'[k] = chan[k]
      /\ \A k \in 1 .. Len(d) : chan'[Len(chan) + k] = d[k]
      /\ DOMAIN chan = 1 .. Len(chan) /\ DOMAIN d = 1 .. Len(d)
      /\ Len(chan) \in Nat /\ Len(d) \in Nat
  BY <1>1, <1>3, <1>4, JoinedSeqs
<1>6. /\ \A k \in DOMAIN chan' : (k \in DOMAIN chan /\ chan'[k] = chan[k])
                                 \/ (k - Len(chan) \in DOMAIN d /\ chan'[k] = d[k - Len(chan)])
      /\ \A k \in DOMAIN chan : k \in DOMAIN chan' /\ chan'[k] = chan[k]
      /\ \A k \in DOMAIN d : Len(chan) + k \in DOMAIN chan' /\ chan'[Len(chan) + k] = d[k]
  <2>1. ASSUME NEW k \in DOMAIN chan', k \notin DOMAIN chan
        PROVE  k - Len(chan) \in DOMAIN d /\ chan'[k] = d[k - Len(chan)]
    <3>1. k - Len(chan) \in 1 .. Len(d) /\ Len(chan) + (k - Len(chan)) = k
      BY <1>5, <2>1
    <3> QED
      BY <1>5, <3>1
  <2> QED
    BY <1>5, <2>1
<1>7. ClaimsInv'
  <2> SUFFICES ASSUME NEW m \in Macs \ NotHosts, NEW ip \in Ips
               PROVE  <<m, ip>> \in claims' <=>
                         \/ ip \in inventory.hosts[m].owned
                         \/ \E k \in DOMAIN chan' : Gives(chan'[k], m, ip)
    BY <1>1 DEF ClaimsInv
  <2>1. (\E k \in DOMAIN chan' : Gives(chan'[k], m, ip))
           <=> \/ \E k \in DOMAIN chan : Gives(chan[k], m, ip)
               \/ \E k \in DOMAIN d : Gives(d[k], m, ip)
    BY <1>6
  <2>2. <<m, ip>> \in claims' <=>
           <<m, ip>> \in claims \/ (Heard(f) /\ <<m, ip>> \in ArpClaims(f) \cup Grants(f))
    BY <1>1
  <2> QED
    BY <1>3, <2>1, <2>2 DEF ListenInv, ClaimsInv
<1>8. UsedInv'
  <2> SUFFICES ASSUME NEW m \in Macs \ NotHosts, NEW ip \in Ips
               PROVE  <<m, ip>> \in used' <=>
                         \/ ip \in inventory.hosts[m].routed
                         \/ \E k \in DOMAIN chan' : Forwards(chan'[k], m, ip)
    BY <1>1 DEF UsedInv
  <2>1. (\E k \in DOMAIN chan' : Forwards(chan'[k], m, ip))
           <=> \/ \E k \in DOMAIN chan : Forwards(chan[k], m, ip)
               \/ \E k \in DOMAIN d : Forwards(d[k], m, ip)
    BY <1>6
  <2>2. <<m, ip>> \in used' <=> <<m, ip>> \in used \/ (Heard(f) /\ <<m, ip>> \in Uses(f))
    BY <1>1
  <2> QED
    BY <1>3, <2>1, <2>2 DEF ListenInv, UsedInv
<1>9. WordInv'
  <2> SUFFICES ASSUME NEW m \in Macs \ NotHosts
               PROVE  /\ (\A k \in DOMAIN chan' : ~Word(chan'[k], m))
                            => inventory.hosts[m].lease = lastWord'[m]
                      /\ \A k \in DOMAIN chan' :
                            /\ Word(chan'[k], m)
                            /\ \A l \in DOMAIN chan' : l > k => ~Word(chan'[l], m)
                            => LeaseOf(chan'[k]) = lastWord'[m]
    BY <1>1 DEF WordInv
  <2>1. CASE \A k \in DOMAIN d : ~Word(d[k], m)
    <3>1. lastWord'[m] = lastWord[m]
      BY <1>1, <1>3, <2>1
    <3>2. \A k \in DOMAIN chan' : Word(chan'[k], m) => k \in DOMAIN chan /\ chan'[k] = chan[k]
      BY <1>6, <2>1
    <3> QED
      BY <1>6, <3>1, <3>2 DEF ListenInv, WordInv
  <2>2. CASE \E k \in DOMAIN d : Word(d[k], m)
    <3>1. PICK j \in DOMAIN d : Word(d[j], m)
      BY <2>2
    <3>2. Heard(f) /\ lastWord' = LastWord(f)
      BY <1>1, <1>3, <3>1
    <3>3. Word(chan'[Len(chan) + j], m) /\ Len(chan) + j \in DOMAIN chan'
      BY <1>6, <3>1
    <3>4. ASSUME NEW k \in DOMAIN chan', Word(chan'[k], m),
                 \A l \in DOMAIN chan' : l > k => ~Word(chan'[l], m)
          PROVE  LeaseOf(chan'[k]) = lastWord'[m]
      <4>1. k \notin DOMAIN chan
        BY <1>5, <3>1, <3>3, <3>4
      <4>2. k - Len(chan) \in DOMAIN d /\ chan'[k] = d[k - Len(chan)]
        BY <1>6, <4>1
      <4> QED
        BY <1>3, <3>2, <3>4, <4>2
    <3> QED
      BY <3>3, <3>4
  <2> QED
    BY <2>1, <2>2
<1>10. TypeOK'
  <2>1. /\ ArpClaims(f) \subseteq Macs \X Ips /\ Grants(f) \subseteq Macs \X Ips
        /\ Uses(f) \subseteq Macs \X Ips
    BY <1>2, FrameTypes
  <2>2. LastWord(f) \in LeaseFileType
    BY <1>2, FrameTypes DEF ListenInv, TypeOK
  <2> QED
    BY <1>1, <1>5, <2>1, <2>2 DEF ListenInv, TypeOK
<1>11. StartInv' /\ FileInv'
  BY <1>1 DEF ListenInv, StartInv, FileInv
<1> QED
  BY <1>1, <1>7, <1>8, <1>9, <1>10, <1>11 DEF ListenInv

(* The oldest event moves from the channel into the inventory.             *)
LEMMA CollectStep == ListenInv /\ Collect => ListenInv'
<1> SUFFICES ASSUME ListenInv, Collect PROVE ListenInv'
  OBVIOUS
<1> DEFINE ev == Head(chan)
<1>1. /\ chan # <<>> /\ chan' = Tail(chan) /\ inventory' = Apply(inventory, ev)
      /\ stage' = stage /\ file' = file /\ claims' = claims /\ used' = used
      /\ lastWord' = lastWord /\ received' = received
  BY DEF Collect
<1>2. /\ chan \in Seq(EventType) /\ ev = chan[1] /\ ev \in EventType
      /\ chan' \in Seq(EventType) /\ DOMAIN chan = 1 .. Len(chan) /\ Len(chan) \in Nat
      /\ DOMAIN chan' = 1 .. Len(chan) - 1 /\ 1 \in DOMAIN chan
      /\ \A k \in DOMAIN chan' : chan'[k] = chan[k + 1]
  BY <1>1 DEF ListenInv, TypeOK
<1> HIDE DEF ev
<1>3. /\ \A k \in DOMAIN chan' : k + 1 \in DOMAIN chan /\ chan'[k] = chan[k + 1]
      /\ \A k \in DOMAIN chan : \/ k = 1 /\ chan[k] = ev
                                \/ k - 1 \in DOMAIN chan' /\ chan'[k - 1] = chan[k]
  <2>1. ASSUME NEW k \in DOMAIN chan, k # 1
        PROVE  k - 1 \in DOMAIN chan' /\ chan'[k - 1] = chan[k]
    <3>1. k - 1 \in 1 .. Len(chan) - 1 /\ (k - 1) + 1 = k
      BY <1>2, <2>1
    <3> QED
      BY <1>2, <3>1
  <2> QED
    BY <1>2, <2>1
<1>4. inventory \in InventoryType
  BY DEF ListenInv, TypeOK
<1>5. /\ inventory' \in InventoryType
      /\ inventory'.lease_file_loaded = inventory.lease_file_loaded
      /\ inventory'.known \cap NotHosts = {}
      /\ \A m \in Macs : LeaseBacked(inventory'.hosts[m])
      /\ \A m \in Macs \ NotHosts :
            /\ inventory'.hosts[m].owned
                  = inventory.hosts[m].owned \cup {ip \in Ips : Gives(ev, m, ip)}
            /\ inventory'.hosts[m].routed
                  = inventory.hosts[m].routed \cup {ip \in Ips : Forwards(ev, m, ip)}
            /\ inventory'.hosts[m].lease
                  = IF Word(ev, m) THEN LeaseOf(ev) ELSE inventory.hosts[m].lease
  <2>1. /\ inventory.known \cap NotHosts = {}
        /\ \A m \in Macs : LeaseBacked(inventory.hosts[m])
    BY DEF ListenInv
  <2> DEFINE j == Apply(inventory, ev)
  <2>2. /\ j \in InventoryType
        /\ j.lease_file_loaded = inventory.lease_file_loaded
        /\ inventory.known \cap NotHosts = {} => j.known \cap NotHosts = {}
        /\ \A m \in Macs : LeaseBacked(inventory.hosts[m]) => LeaseBacked(j.hosts[m])
        /\ \A m \in Macs \ NotHosts :
              /\ j.hosts[m].owned
                    = inventory.hosts[m].owned \cup {ip \in Ips : Gives(ev, m, ip)}
              /\ j.hosts[m].routed
                    = inventory.hosts[m].routed \cup {ip \in Ips : Forwards(ev, m, ip)}
              /\ j.hosts[m].lease
                    = IF Word(ev, m) THEN LeaseOf(ev) ELSE inventory.hosts[m].lease
    BY <1>2, <1>4, ApplyFacts
  <2>3. inventory' = j
    BY <1>1
  <2> HIDE DEF j
  <2> QED
    BY <2>1, <2>2, <2>3
<1>6. ClaimsInv'
  <2> SUFFICES ASSUME NEW m \in Macs \ NotHosts, NEW ip \in Ips
               PROVE  <<m, ip>> \in claims <=>
                         \/ ip \in inventory'.hosts[m].owned
                         \/ \E k \in DOMAIN chan' : Gives(chan'[k], m, ip)
    BY <1>1 DEF ClaimsInv
  <2>1. (\E k \in DOMAIN chan : Gives(chan[k], m, ip))
           <=> Gives(ev, m, ip) \/ \E k \in DOMAIN chan' : Gives(chan'[k], m, ip)
    BY <1>2, <1>3
  <2> QED
    BY <1>5, <2>1 DEF ListenInv, ClaimsInv
<1>7. UsedInv'
  <2> SUFFICES ASSUME NEW m \in Macs \ NotHosts, NEW ip \in Ips
               PROVE  <<m, ip>> \in used <=>
                         \/ ip \in inventory'.hosts[m].routed
                         \/ \E k \in DOMAIN chan' : Forwards(chan'[k], m, ip)
    BY <1>1 DEF UsedInv
  <2>1. (\E k \in DOMAIN chan : Forwards(chan[k], m, ip))
           <=> Forwards(ev, m, ip) \/ \E k \in DOMAIN chan' : Forwards(chan'[k], m, ip)
    BY <1>2, <1>3
  <2> QED
    BY <1>5, <2>1 DEF ListenInv, UsedInv
<1>8. WordInv'
  <2> SUFFICES ASSUME NEW m \in Macs \ NotHosts
               PROVE  /\ (\A k \in DOMAIN chan' : ~Word(chan'[k], m))
                            => inventory'.hosts[m].lease = lastWord[m]
                      /\ \A k \in DOMAIN chan' :
                            /\ Word(chan'[k], m)
                            /\ \A l \in DOMAIN chan' : l > k => ~Word(chan'[l], m)
                            => LeaseOf(chan'[k]) = lastWord[m]
    BY <1>1 DEF WordInv
  <2>1. ASSUME \A k \in DOMAIN chan' : ~Word(chan'[k], m)
        PROVE  inventory'.hosts[m].lease = lastWord[m]
    <3>1. \A k \in DOMAIN chan : Word(chan[k], m) => k = 1
      BY <1>3, <2>1
    <3>2. CASE Word(ev, m)
      <4>1. \A l \in DOMAIN chan : l > 1 => ~Word(chan[l], m)
        BY <1>2, <3>1
      <4>2. LeaseOf(ev) = lastWord[m]
        BY <1>2, <3>2, <4>1 DEF ListenInv, WordInv
      <4> QED
        BY <1>5, <3>2, <4>2
    <3>3. CASE ~Word(ev, m)
      <4>1. \A k \in DOMAIN chan : ~Word(chan[k], m)
        BY <1>2, <3>1, <3>3
      <4> QED
        BY <1>5, <3>3, <4>1 DEF ListenInv, WordInv
    <3> QED
      BY <3>2, <3>3
  <2>2. ASSUME NEW k \in DOMAIN chan', Word(chan'[k], m),
               \A l \in DOMAIN chan' : l > k => ~Word(chan'[l], m)
        PROVE  LeaseOf(chan'[k]) = lastWord[m]
    <3>1. k + 1 \in DOMAIN chan /\ chan'[k] = chan[k + 1]
      BY <1>3
    <3>2. ASSUME NEW l \in DOMAIN chan, l > k + 1 PROVE ~Word(chan[l], m)
      <4>1. l # 1 /\ l - 1 > k
        BY <1>2, <3>2
      <4>2. l - 1 \in DOMAIN chan' /\ chan'[l - 1] = chan[l]
        BY <1>3, <4>1
      <4> QED
        BY <2>2, <4>1, <4>2
    <3> QED
      BY <2>2, <3>1, <3>2 DEF ListenInv, WordInv
  <2> QED
    BY <2>1, <2>2
<1>9. TypeOK'
  BY <1>1, <1>2, <1>5 DEF ListenInv, TypeOK
<1>10. StartInv' /\ FileInv'
  BY <1>1, <1>5 DEF ListenInv, StartInv, FileInv
<1> QED
  BY <1>5, <1>6, <1>7, <1>8, <1>9, <1>10 DEF ListenInv

(* Every step keeps the invariant.                                         *)
THEOREM ListenStep == ListenInv /\ [Next]_vars => ListenInv'
<1> SUFFICES ASSUME ListenInv, [Next]_vars PROVE ListenInv'
  OBVIOUS
<1>1. CASE UNCHANGED vars
  BY <1>1 DEF vars, ListenInv, TypeOK, ClaimsInv, UsedInv, WordInv, StartInv, FileInv
<1> QED
  BY <1>1, StartStep, ReceiveStep, CollectStep DEF Next

(* So it holds whatever the network sends and however late the collector is. *)
THEOREM ListenInvariant == Spec => []ListenInv
  BY ListenInit, ListenStep, PTL DEF Spec

-----------------------------------------------------------------------------
(* The variables keep their types for all frames and lease files.          *)
THEOREM ListenTypeCorrect == Spec => []TypeOK
<1>1. ListenInv => TypeOK
  BY DEF ListenInv
<1> QED
  BY <1>1, ListenInvariant, PTL

(* What a host owns, once the collector has caught up, is what it claimed: *)
(* no claim is lost on the way and none invented.                          *)
LEMMA Caught ==
    ASSUME ListenInv, CaughtUp
    PROVE  /\ \A m \in Macs \ NotHosts : inventory.hosts[m].owned = {ip \in Ips : <<m, ip>> \in claims}
           /\ \A m \in Macs \ NotHosts : inventory.hosts[m].routed = {ip \in Ips : <<m, ip>> \in used}
           /\ \A m \in Macs \ NotHosts : inventory.hosts[m].lease = lastWord[m]
<1>1. DOMAIN chan = {}
  BY DEF CaughtUp
<1>2. \A m \in Macs : inventory.hosts[m].owned \subseteq Ips /\ inventory.hosts[m].routed \subseteq Ips
  BY DEF ListenInv, TypeOK, InventoryType, HostType
<1> QED
  BY <1>1, <1>2 DEF ListenInv, ClaimsInv, UsedInv, WordInv

(* A host owns what it claimed, no more and no less.                       *)
THEOREM OwnedIsClaimedHolds == Spec => []OwnedIsClaimed
<1>1. ListenInv => OwnedIsClaimed
  BY Caught DEF OwnedIsClaimed
<1> QED
  BY <1>1, ListenInvariant, PTL

(* The lease of a host is the last word of the server, in whatever order   *)
(* grants and releases arrive.                                             *)
THEOREM LeaseIsLastWordHolds == Spec => []LeaseIsLastWord
<1>1. ListenInv => LeaseIsLastWord
  BY Caught DEF LeaseIsLastWord
<1> QED
  BY <1>1, ListenInvariant, PTL

(* A lease is of an address the host owns.                                 *)
THEOREM LeaseIsOwnedHolds == Spec => []LeaseIsOwned
<1>1. ListenInv => LeaseIsOwned
  BY DEF ListenInv, LeaseBacked, LeaseIsOwned
<1> QED
  BY <1>1, ListenInvariant, PTL

(* Without a lease file nobody is reported for having no lease.            *)
THEOREM NoLeaseNeedsFileHolds == Spec => []NoLeaseNeedsFile
<1>1. ListenInv => NoLeaseNeedsFile
  <2> SUFFICES ASSUME ListenInv, file = NoFile, NEW m \in Hosts
               PROVE  "NO_LEASE" \notin Codes(Flags(m))
    BY DEF NoLeaseNeedsFile
  <2> DEFINE h == inventory.hosts[m]
  <2>1. inventory.lease_file_loaded = FALSE
    BY DEF ListenInv, FileInv, TypeOK, InventoryType
  <2>2. \A fl \in LeaseFlags(h, inventory.lease_file_loaded) : fl.code = "LEASE_MISMATCH"
    BY <2>1 DEF LeaseFlags
  <2>3. /\ \A fl \in OutsideSubnet(h, Expected) : fl.code = "OUTSIDE_SUBNET"
        /\ \A fl \in L2Only(h) : fl.code = "L2_ONLY"
        /\ \A fl \in FellBack(h) : fl.code = "APIPA"
        /\ \A fl \in DuplicateFlags(inventory, m) : fl.code = "DUPLICATE_IP"
    BY DEF OutsideSubnet, L2Only, FellBack, DuplicateFlags
  <2>4. \A fl \in Flags(m) : fl.code # "NO_LEASE"
    BY <2>2, <2>3 DEF Flags, FlagsFor
  <2> QED
    BY <2>4 DEF Codes
<1> QED
  BY <1>1, ListenInvariant, PTL

(* L2_ONLY is for the hosts that never revealed an address, and for all of *)
(* them.                                                                   *)
THEOREM L2OnlyIsSilentHolds == Spec => []L2OnlyIsSilent
<1>1. ListenInv => L2OnlyIsSilent
  <2> SUFFICES ASSUME ListenInv, CaughtUp, NEW m \in Hosts
               PROVE  "L2_ONLY" \in Codes(Flags(m))
                         <=> ~\E ip \in Ips : <<m, ip>> \in claims \cup used
    BY DEF L2OnlyIsSilent
  <2> DEFINE h == inventory.hosts[m]
  <2>1. m \in Macs \ NotHosts
    BY DEF ListenInv, TypeOK, InventoryType, Hosts
  <2>2. h.owned = {ip \in Ips : <<m, ip>> \in claims} /\ h.routed = {ip \in Ips : <<m, ip>> \in used}
    BY <2>1, Caught
  <2>3. /\ \A fl \in LeaseFlags(h, inventory.lease_file_loaded) : fl.code # "L2_ONLY"
        /\ \A fl \in OutsideSubnet(h, Expected) : fl.code # "L2_ONLY"
        /\ \A fl \in FellBack(h) : fl.code # "L2_ONLY"
        /\ \A fl \in DuplicateFlags(inventory, m) : fl.code # "L2_ONLY"
    BY DEF LeaseFlags, OutsideSubnet, FellBack, DuplicateFlags
  <2>4. "L2_ONLY" \in Codes(Flags(m)) <=> \E fl \in L2Only(h) : fl.code = "L2_ONLY"
    BY <2>3 DEF Codes, Flags, FlagsFor
  <2>5. (\E fl \in L2Only(h) : fl.code = "L2_ONLY") <=> h.owned \cup h.routed = {}
    BY DEF L2Only, Ipv4All
  <2> HIDE DEF h
  <2> QED
    BY <2>2, <2>4, <2>5
<1> QED
  BY <1>1, ListenInvariant, PTL

(* A host that claimed some address is accused only with what it claimed:  *)
(* what it forwards is not held against it.                                *)
THEOREM RouterNotAccusedHolds == Spec => []RouterNotAccused
<1>1. ListenInv => RouterNotAccused
  <2> SUFFICES ASSUME ListenInv, CaughtUp, NEW m \in Hosts,
                      {ip \in Ips : <<m, ip>> \in claims} # {}, NEW fl \in Flags(m)
               PROVE  AccusedOf(fl) \subseteq {ip \in Ips : <<m, ip>> \in claims}
    BY DEF RouterNotAccused
  <2> DEFINE h == inventory.hosts[m]
  <2>1. m \in Macs \ NotHosts
    BY DEF ListenInv, TypeOK, InventoryType, Hosts
  <2>2. h.owned = {ip \in Ips : <<m, ip>> \in claims} /\ h.owned # {}
    BY <2>1, Caught
  <2>3. Routable(h) \subseteq h.owned
    BY <2>2 DEF Routable, IdentityIpv4
  <2> HIDE DEF h
  <2>4. CASE fl \in OutsideSubnet(h, Expected)
    <3>1. fl.code = "OUTSIDE_SUBNET" /\ fl.ips = Foreign(h, Expected)
      BY <2>4 DEF OutsideSubnet
    <3> QED
      BY <2>2, <2>3, <3>1 DEF AccusedOf, Foreign
  <2>5. CASE fl \in L2Only(h) \cup FellBack(h)
    <3>1. fl.code \in {"L2_ONLY", "APIPA"}
      BY <2>5 DEF L2Only, FellBack
    <3> QED
      BY <3>1 DEF AccusedOf
  <2>6. CASE fl \in LeaseFlags(h, inventory.lease_file_loaded)
    <3>1. \/ fl.code = "LEASE_MISMATCH" /\ fl.in_use = Routable(h) \ {h.lease}
          \/ fl.code = "NO_LEASE"
      BY <2>6 DEF LeaseFlags
    <3> QED
      BY <2>2, <2>3, <3>1 DEF AccusedOf
  <2>7. CASE fl \in DuplicateFlags(inventory, m)
    <3>1. fl.code = "DUPLICATE_IP" /\ fl.ip \in Routable(h)
      BY <2>7 DEF DuplicateFlags, h
    <3> QED
      BY <2>2, <2>3, <3>1 DEF AccusedOf
  <2> QED
    BY <2>4, <2>5, <2>6, <2>7 DEF Flags, FlagsFor, h
<1> QED
  BY <1>1, ListenInvariant, PTL

(* Owners of one address are accused mutually.                             *)
THEOREM DuplicatesMutualHolds == Spec => []DuplicatesMutual
<1>1. ListenInv => DuplicatesMutual
  <2> SUFFICES ASSUME ListenInv, NEW m \in Hosts, NEW fl \in Flags(m),
                      fl.code = "DUPLICATE_IP", fl.ip \in inventory.hosts[m].owned,
                      NEW o \in fl.others
               PROVE  /\ o \in Hosts
                      /\ \E g \in Flags(o) : /\ g.code = "DUPLICATE_IP"
                                             /\ g.ip = fl.ip
                                             /\ m \in g.others
    BY DEF DuplicatesMutual
  <2> DEFINE h == inventory.hosts[m]
             ip == fl.ip
             g == [code |-> "DUPLICATE_IP", ip |-> ip, others |-> Owners4(inventory, ip) \ {o}]
  <2>1. fl \in DuplicateFlags(inventory, m)
    <3>1. /\ \A x \in LeaseFlags(h, inventory.lease_file_loaded) : x.code # "DUPLICATE_IP"
          /\ \A x \in OutsideSubnet(h, Expected) : x.code # "DUPLICATE_IP"
          /\ \A x \in FellBack(h) \cup L2Only(h) : x.code # "DUPLICATE_IP"
      BY DEF LeaseFlags, OutsideSubnet, FellBack, L2Only
    <3> QED
      BY <3>1 DEF Flags, FlagsFor
  <2>2. ip \in Routable(h) \cap DuplicateIps(inventory) /\ fl.others = Owners4(inventory, ip) \ {m}
    BY <2>1 DEF DuplicateFlags
  <2>3. o \in Hosts /\ ip \in inventory.hosts[o].owned /\ o # m
    BY <2>2 DEF Owners4, Hosts
  <2>4. ip \in Routable(inventory.hosts[o])
    BY <2>2, <2>3 DEF Routable, IdentityIpv4
  <2>5. m \in Owners4(inventory, ip) \ {o}
    BY <2>3 DEF Owners4, Hosts
  <2>6. g \in DuplicateFlags(inventory, o)
    BY <2>2, <2>4, <2>5 DEF DuplicateFlags
  <2>7. g \in Flags(o) /\ g.code = "DUPLICATE_IP" /\ g.ip = fl.ip /\ m \in g.others
    BY <2>5, <2>6 DEF Flags, FlagsFor
  <2> QED
    BY <2>3, <2>7
<1> QED
  BY <1>1, ListenInvariant, PTL
=============================================================================
