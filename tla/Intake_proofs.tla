---------------------------- MODULE Intake_proofs ---------------------------
(***************************************************************************)
(* The four readers of module Intake, for every input: the parser of a     *)
(* DHCP payload stays inside the buffer whatever the bytes are; the leases *)
(* read from a file are the ones it says; the interface, the sender and    *)
(* the subnets of a scan are what the user asked for, however the machine  *)
(* changes under the program.                                              *)
(***************************************************************************)
EXTENDS Intake, Lists_proofs

-----------------------------------------------------------------------------
(* DhcpOptions: the parser of a DHCP payload.                              *)

(* While an option is being looked at, the code it has is the byte two     *)
(* before its data, so that byte is in the buffer too.                     *)
BoundsInv ==
    /\ DhcpTypeOK
    /\ InBounds
    /\ stage = "item" => first \in 2 .. Len(buf) /\ pos = past

(* A piece of the buffer is a sequence of bytes.                           *)
LEMMA DataIsBytes ==
    ASSUME DhcpTypeOK, InBounds, stage = "item"
    PROVE  /\ Data \in Seq(Bytes)
           /\ Data = <<>> <=> first = past
<1>1. buf \in Seq(Bytes)
  BY DEF DhcpTypeOK, buf, Header
<1>2. first \in Nat /\ past \in Nat /\ first <= past /\ past <= Len(buf)
  BY DEF DhcpTypeOK, InBounds
<1>3. Data \in [1 .. past - first -> Bytes]
  <2> SUFFICES ASSUME NEW i \in 1 .. past - first PROVE buf[first + i] \in Bytes
    BY DEF Data
  <2>1. first + i \in 1 .. Len(buf)
    BY <1>1, <1>2
  <2> QED
    BY <1>1, <2>1
<1>4. past - first \in Nat
  BY <1>2
<1>5. Data \in Seq(Bytes) /\ Len(Data) = past - first
  BY <1>3, <1>4
<1> QED
  BY <1>2, <1>5

(* Initially nothing is read.                                              *)
THEOREM BoundsInit == DhcpInit => BoundsInv
<1> SUFFICES ASSUME DhcpInit PROVE BoundsInv
  OBVIOUS
<1>1. payload \in [header : Header, buf : Seq(Bytes)]
  BY DhcpAssumption DEF DhcpInit
<1>2. Len(buf) \in Nat
  BY <1>1 DEF buf
<1> QED
  BY <1>1, <1>2 DEF DhcpInit, BoundsInv, DhcpTypeOK, InBounds

(* Every step keeps the positions inside the buffer.                       *)
THEOREM BoundsStep == BoundsInv /\ [DhcpNext]_dhcpVars => BoundsInv'
<1> SUFFICES ASSUME BoundsInv, [DhcpNext]_dhcpVars PROVE BoundsInv'
  OBVIOUS
<1> USE DEF BoundsInv
<1>0. /\ payload \in [header : Header, buf : Seq(Bytes)]
      /\ buf \in Seq(Bytes)
      /\ Len(buf) \in Nat
      /\ \A k \in Nat : HasByte(k) => ByteAt(k) \in Nat
  <2>1. buf \in Seq(Bytes)
    BY DEF DhcpTypeOK, buf
  <2>2. ASSUME NEW k \in Nat, HasByte(k) PROVE ByteAt(k) \in Nat
    BY <2>1, <2>2, DhcpAssumption DEF HasByte, ByteAt
  <2> QED
    BY <2>1, <2>2 DEF DhcpTypeOK
<1>1. CASE ReadHeader
  BY <1>0, <1>1 DEF ReadHeader, DhcpTypeOK, InBounds, buf
<1>2. CASE SkipPad
  <2>1. pos' \in Nat /\ pos' <= Len(buf)
    BY <1>0, <1>2 DEF SkipPad, DhcpTypeOK, HasByte
  <2> QED
    BY <1>0, <1>2, <2>1 DEF SkipPad, DhcpTypeOK, InBounds, buf
<1>3. CASE NextOption
  <2>1. /\ first' \in Nat /\ first' >= 2
        /\ past' \in Nat /\ first' <= past' /\ past' <= Len(buf)
        /\ pos' = past'
    BY <1>0, <1>3 DEF NextOption, DhcpTypeOK
  <2> QED
    BY <1>0, <1>3, <2>1 DEF NextOption, DhcpTypeOK, InBounds, buf
<1>4. CASE NoMoreOptions
  BY <1>0, <1>4 DEF NoMoreOptions, DhcpTypeOK, InBounds, buf
<1>5. CASE Keep
  <2>1. Data \in Seq(Bytes) /\ (Data = <<>> <=> first = past)
    BY <1>5, DataIsBytes DEF Keep
  <2>2. obs' \in [Kept -> (Seq(Bytes) \ {<<>>}) \cup {Unset}]
    <3> SUFFICES ASSUME NEW c \in Kept
                 PROVE  obs'[c] \in (Seq(Bytes) \ {<<>>}) \cup {Unset}
      BY <1>5 DEF Keep
    <3>1. CASE c = Code /\ c \in DOMAIN Sized /\ past - first = Sized[c]
      <4>1. first # past
        BY <3>1, DhcpAssumption DEF DhcpTypeOK
      <4> QED
        BY <1>5, <2>1, <3>1, <4>1 DEF Keep
    <3>2. CASE c = Code /\ c = Hostname
      <4>1. Hostname \notin DOMAIN Sized
        BY DhcpAssumption
      <4> QED
        BY <1>5, <2>1, <3>2, <4>1 DEF Keep
    <3>3. CASE /\ ~(c = Code /\ c \in DOMAIN Sized /\ past - first = Sized[c])
               /\ ~(c = Code /\ c = Hostname)
      BY <1>5, <3>3 DEF Keep, DhcpTypeOK
    <3> QED
      BY <3>1, <3>2, <3>3
  <2> QED
    BY <1>0, <1>5, <2>2 DEF Keep, DhcpTypeOK, InBounds, buf
<1>6. CASE UNCHANGED dhcpVars
  BY <1>0, <1>6 DEF dhcpVars, DhcpTypeOK, InBounds, buf
<1> QED
  BY <1>1, <1>2, <1>3, <1>4, <1>5, <1>6 DEF DhcpNext, DhcpStep, DhcpDone

(* So they are inside it at every step on every packet.                    *)
THEOREM BoundsInvariant == DhcpSpec => []BoundsInv
  BY BoundsInit, BoundsStep, PTL DEF DhcpSpec

(* The variables keep their types for every set of packets.                *)
THEOREM DhcpTypeCorrect == DhcpSpec => []DhcpTypeOK
<1>1. BoundsInv => DhcpTypeOK
  BY DEF BoundsInv
<1> QED
  BY <1>1, BoundsInvariant, PTL

(* dhcp.rs:282: for every packet, of any length and with any bytes, no     *)
(* option that the iterator returns reaches beyond the buffer.             *)
THEOREM DhcpStaysInBounds == DhcpSpec => []InBounds
<1>1. BoundsInv => InBounds
  BY DEF BoundsInv
<1> QED
  BY <1>1, BoundsInvariant, PTL

(* The options of a payload: what a byte is followed by lies beyond it, in *)
(* the buffer, and is one place at most.                                   *)
LEMMA FollowedIs ==
    ASSUME payload \in [header : Header, buf : Seq(Bytes)], NEW k \in Nat
    PROVE  /\ \A n \in FollowedBy(k) : n \in k + 1 .. Len(buf)
           /\ \A n \in FollowedBy(k) : FollowedBy(k) = {n}
           /\ FollowedBy(k) # {} => HasByte(k)
           /\ HasByte(k) => k \in 0 .. Len(buf)
<1>1. buf \in Seq(Bytes) /\ Len(buf) \in Nat
  BY DEF buf
<1>2. HasByte(k) <=> k < Len(buf)
  BY DEF HasByte
<1>3. HasByte(k + 1) => HasByte(k) /\ k + 2 <= Len(buf) /\ ByteAt(k + 1) \in Nat
  <2>1. HasByte(k + 1) => k + 2 <= Len(buf) /\ k + 2 \in 1 .. Len(buf)
    BY <1>1 DEF HasByte
  <2>2. HasByte(k + 1) => buf[k + 2] \in Nat
    BY <1>1, <2>1, DhcpAssumption
  <2>3. (k + 1) + 1 = k + 2
    OBVIOUS
  <2> QED
    BY <1>1, <1>2, <2>1, <2>2, <2>3 DEF ByteAt
<1>4. CASE ~HasByte(k)
  <2>1. FollowedBy(k) = {}
    BY <1>3, <1>4 DEF FollowedBy
  <2> QED
    BY <1>4, <2>1
<1>5. CASE HasByte(k) /\ ByteAt(k) = Pad
  <2>1. FollowedBy(k) = {k + 1} /\ k + 1 \in k + 1 .. Len(buf)
    BY <1>1, <1>2, <1>5 DEF FollowedBy
  <2>2. k \in 0 .. Len(buf)
    BY <1>1, <1>2, <1>5
  <2> DEFINE n == k + 1
  <2>3. FollowedBy(k) = {n} /\ n \in n .. Len(buf)
    BY <2>1
  <2> HIDE DEF n
  <2>4. /\ \A m \in FollowedBy(k) : m \in n .. Len(buf)
        /\ \A m \in FollowedBy(k) : FollowedBy(k) = {m}
    BY <2>3
  <2> QED
    BY <1>5, <2>2, <2>4 DEF n
<1>6. CASE HasByte(k) /\ ByteAt(k) # Pad /\ HasByte(k + 1) /\ ByteAt(k) \notin {Pad, End}
  <2>1. FollowedBy(k) = {n \in {k + 2 + ByteAt(k + 1)} : n <= Len(buf)}
    BY <1>6 DEF FollowedBy
  <2>2. k + 2 + ByteAt(k + 1) \in Nat /\ k + 2 + ByteAt(k + 1) >= k + 1
    BY <1>3, <1>6
  <2> QED
    BY <1>1, <1>2, <1>6, <2>1, <2>2
<1>7. CASE HasByte(k) /\ ByteAt(k) # Pad /\ ~(HasByte(k + 1) /\ ByteAt(k) \notin {Pad, End})
  <2>1. FollowedBy(k) = {}
    BY <1>7 DEF FollowedBy
  <2> QED
    BY <1>1, <1>2, <2>1
<1> QED
  BY <1>4, <1>5, <1>6, <1>7

(* The boundaries are the least set with the first byte and with what      *)
(* follows each of them.                                                   *)
LEMMA BoundariesAre ==
    ASSUME payload \in [header : Header, buf : Seq(Bytes)]
    PROVE  /\ 0 \in Boundaries
           /\ Boundaries \subseteq 0 .. Len(buf)
           /\ \A k \in Boundaries : FollowedBy(k) \subseteq Boundaries
           /\ \A S \in SUBSET Boundaries :
                 (0 \in S /\ \A k \in S : FollowedBy(k) \subseteq S) => S = Boundaries
<1> DEFINE B == Boundaries
           N == 0 .. Len(buf)
           Closed(S) == 0 \in S /\ Follows(S) \subseteq S
<1>1. Len(buf) \in Nat
  BY DEF buf
<1>2. \A k : k \in B <=> k \in N /\ \A S \in SUBSET N : Closed(S) => k \in S
  BY DEF Boundaries
<1>3. \A S : Closed(S) <=> 0 \in S /\ \A k \in S : FollowedBy(k) \subseteq S
  BY DEF Follows
<1>4. 0 \in N
  BY <1>1
<1>5. B \subseteq N
  BY <1>2
<1> HIDE DEF B, Closed
<1>6. \A S : Closed(S) => 0 \in S
  BY <1>3
<1>7. 0 \in B
  BY <1>2, <1>4, <1>6
<1>8. ASSUME NEW k \in B, NEW n \in FollowedBy(k) PROVE n \in B
  <2>1. k \in Nat
    BY <1>1, <1>5
  <2>2. n \in N
    BY <1>1, <2>1, <1>8, FollowedIs
  <2>3. ASSUME NEW S \in SUBSET N, Closed(S) PROVE n \in S
    BY <1>2, <1>3, <1>8, <2>3
  <2> QED
    BY <1>2, <2>2, <2>3
<1>9. ASSUME NEW S \in SUBSET B, 0 \in S, \A k \in S : FollowedBy(k) \subseteq S
      PROVE  S = B
  <2>1. Closed(S)
    BY <1>3, <1>9
  <2>2. S \in SUBSET N
    BY <1>5
  <2>3. B \subseteq S
    BY <1>2, <2>1, <2>2
  <2> QED
    BY <2>3
<1> QED
  BY <1>5, <1>7, <1>8, <1>9 DEF B

(* p is where the iterator is: an option begins there, and the ones before *)
(* it are all over by then.                                                *)
Passed(p) ==
    /\ p \in Boundaries
    /\ \A j \in Boundaries : j < p => FollowedBy(j) \subseteq 0 .. p

LEMMA NextPassed ==
    ASSUME payload \in [header : Header, buf : Seq(Bytes)],
           NEW p, Passed(p), NEW n, FollowedBy(p) = {n}
    PROVE  /\ p \in Nat /\ n \in Nat /\ p < n
           /\ Passed(n)
           /\ \A j \in Boundaries : j < n => j <= p
<1> DEFINE B == Boundaries
           T == {k \in B : k <= p \/ k >= n}
<1>1. Len(buf) \in Nat
  BY DEF buf
<1>2. /\ 0 \in B /\ B \subseteq 0 .. Len(buf)
      /\ \A k \in B : FollowedBy(k) \subseteq B
      /\ \A S \in SUBSET B : (0 \in S /\ \A k \in S : FollowedBy(k) \subseteq S) => S = B
  BY BoundariesAre
<1>3. /\ p \in B /\ p \in Nat
      /\ \A j \in B : j < p => FollowedBy(j) \subseteq 0 .. p
  BY <1>1, <1>2 DEF Passed
<1>4. n \in p + 1 .. Len(buf)
  BY <1>3, FollowedIs
<1>5. n \in B /\ n \in Nat /\ p < n
  BY <1>1, <1>2, <1>3, <1>4
<1> HIDE DEF B
<1>6. \A k \in B : k \in Nat /\ \A m \in FollowedBy(k) : m \in Nat /\ m > k /\ m \in B
  <2>1. \A k \in B : k \in Nat
    BY <1>1, <1>2
  <2>2. \A k \in B : \A m \in FollowedBy(k) : m \in k + 1 .. Len(buf)
    BY <2>1, FollowedIs
  <2> QED
    BY <1>1, <1>2, <2>1, <2>2
<1>7. 0 \in T
  BY <1>2, <1>3
<1>8. ASSUME NEW k \in T, NEW m \in FollowedBy(k) PROVE m \in T
  <2>1. k \in B /\ k \in Nat /\ m \in B /\ m \in Nat /\ m > k
    BY <1>6, <1>8
  <2>2. CASE k < p
    <3>1. m \in 0 .. p
      BY <1>3, <1>8, <2>1, <2>2
    <3> QED
      BY <1>3, <2>1, <3>1
  <2>3. CASE k = p
    BY <1>5, <1>8, <2>1, <2>3
  <2>4. CASE k >= n
    BY <1>5, <2>1, <2>4
  <2> QED
    BY <1>3, <1>5, <1>8, <2>1, <2>2, <2>3, <2>4
<1>9. T = B
  <2>1. T \in SUBSET B
    OBVIOUS
  <2>2. \A k \in T : FollowedBy(k) \subseteq T
    BY <1>8
  <2> HIDE DEF T
  <2> QED
    BY <1>2, <1>7, <2>1, <2>2
<1>10. \A j \in B : j < n => j <= p
  BY <1>3, <1>5, <1>6, <1>9
<1>11. ASSUME NEW j \in B, j < n PROVE FollowedBy(j) \subseteq 0 .. n
  <2>1. j \in Nat /\ (j < p \/ j = p)
    BY <1>3, <1>5, <1>6, <1>10, <1>11
  <2>2. CASE j < p
    BY <1>3, <1>5, <2>2
  <2>3. CASE j = p
    BY <1>5, <2>3
  <2> QED
    BY <2>1, <2>2, <2>3
<1> QED
  BY <1>3, <1>5, <1>10, <1>11 DEF Passed, B

LEMMA LastPassed ==
    ASSUME payload \in [header : Header, buf : Seq(Bytes)],
           NEW p, Passed(p), FollowedBy(p) = {}
    PROVE  \A j \in Boundaries : j <= p
<1> DEFINE B == Boundaries
           T == {k \in B : k <= p}
<1>1. Len(buf) \in Nat
  BY DEF buf
<1>2. /\ 0 \in B /\ B \subseteq 0 .. Len(buf)
      /\ \A k \in B : FollowedBy(k) \subseteq B
      /\ \A S \in SUBSET B : (0 \in S /\ \A k \in S : FollowedBy(k) \subseteq S) => S = B
  BY BoundariesAre
<1>3. /\ p \in B /\ p \in Nat /\ \A k \in B : k \in Nat
      /\ \A j \in B : j < p => FollowedBy(j) \subseteq 0 .. p
  BY <1>1, <1>2 DEF Passed
<1> HIDE DEF B
<1>4. ASSUME NEW k \in T PROVE FollowedBy(k) \subseteq T
  <2>1. k \in B /\ (k < p \/ k = p)
    BY <1>3
  <2>2. CASE k < p
    <3>1. FollowedBy(k) \subseteq 0 .. p /\ FollowedBy(k) \subseteq B
      BY <1>2, <1>3, <2>1, <2>2
    <3> QED
      BY <1>3, <3>1
  <2>3. CASE k = p
    BY <2>3
  <2> QED
    BY <2>1, <2>2, <2>3
<1>5. 0 \in T /\ T \in SUBSET B
  BY <1>2, <1>3
<1> HIDE DEF T
<1>6. T = B
  BY <1>2, <1>4, <1>5
<1> QED
  BY <1>6 DEF T, B

(* The options of a code before p that fit, and what they mean.            *)
FitsBelow(c, p) ==
    {k \in OptionsOf(c) : k < p /\ (c = Hostname \/ ByteAt(k + 1) = Sized[c])}

Below(c, p) ==
    IF FitsBelow(c, p) = {} \/ DataOf(LastOf(FitsBelow(c, p))) = <<>> THEN Unset
    ELSE DataOf(LastOf(FitsBelow(c, p)))

(* The iterator is at a boundary, and what is kept is what the options     *)
(* before it say; while an option is looked at, what those before it say.  *)
OptionAt(q) ==
    /\ Passed(q) /\ FollowedBy(q) = {past}
    /\ ByteAt(q) \notin {Pad, End}
    /\ past = first + ByteAt(q + 1)

MeantInv ==
    /\ BoundsInv
    /\ stage = "header" => /\ pos = 0 /\ client = "frame"
                           /\ \A c \in Kept : obs[c] = Unset
    /\ stage \in {"next", "item", "some"} => (client = "chaddr" <=> payload.header.hlen = 6)
    /\ stage \in {"next", "some"} => Passed(pos) /\ \A c \in Kept : obs[c] = Below(c, pos)
    /\ stage = "item" => /\ OptionAt(first - 2)
                         /\ \A c \in Kept : obs[c] = Below(c, first - 2)
    /\ stage = "some" => FollowedBy(pos) = {}

(* All of this depends on the payload alone.                               *)
LEMMA SamePayload ==
    ASSUME payload' = payload
    PROVE  /\ buf' = buf /\ Boundaries' = Boundaries
           /\ \A k : FollowedBy(k)' = FollowedBy(k)
           /\ \A k : ByteAt(k)' = ByteAt(k)
           /\ \A k : HasByte(k)' = HasByte(k)
           /\ \A p : Passed(p)' = Passed(p)
           /\ \A c, p : Below(c, p)' = Below(c, p)
<1>1. buf' = buf
  BY DEF buf
<1>2. /\ \A k : ByteAt(k)' = ByteAt(k)
      /\ \A k : HasByte(k)' = HasByte(k)
  BY <1>1 DEF ByteAt, HasByte
<1>3. \A k : FollowedBy(k)' = FollowedBy(k)
  BY <1>1 DEF FollowedBy, ByteAt, HasByte
<1>4. \A S : Follows(S)' = Follows(S)
  BY <1>3 DEF Follows
<1>5. Boundaries' = Boundaries
  BY <1>1, <1>4 DEF Boundaries
<1>6. \A p : Passed(p)' = Passed(p)
  BY <1>3, <1>5 DEF Passed
<1>7. \A c : OptionsOf(c)' = OptionsOf(c)
  BY <1>2, <1>3, <1>5 DEF OptionsOf
<1>8. \A c, p : FitsBelow(c, p)' = FitsBelow(c, p)
  BY <1>2, <1>7 DEF FitsBelow
<1>9. \A k : DataOf(k)' = DataOf(k)
  BY <1>1 DEF DataOf, ByteAt
<1>10. \A c, p : Below(c, p)' = Below(c, p)
  BY <1>8, <1>9 DEF Below
<1> QED
  BY <1>1, <1>2, <1>3, <1>5, <1>6, <1>10

(* What an option adds: itself, if it has the code and fits.               *)
LEMMA OneOption ==
    ASSUME payload \in [header : Header, buf : Seq(Bytes)],
           NEW q, Passed(q), NEW n, FollowedBy(q) = {n}, NEW c
    PROVE  FitsBelow(c, n) =
              IF HasByte(q) /\ ByteAt(q) = c /\ (c = Hostname \/ ByteAt(q + 1) = Sized[c])
              THEN FitsBelow(c, q) \cup {q} ELSE FitsBelow(c, q)
<1>1. /\ q \in Nat /\ n \in Nat /\ q < n
      /\ \A j \in Boundaries : j < n => j <= q
  BY NextPassed
<1>2. q \in Boundaries /\ \A j \in Boundaries : j \in Nat
  BY BoundariesAre DEF Passed
<1>3. \A j \in Boundaries : j < n <=> (j < q \/ j = q)
  BY <1>1, <1>2
<1>4. q \in OptionsOf(c) <=> HasByte(q) /\ ByteAt(q) = c
  BY <1>2 DEF OptionsOf
<1>5. OptionsOf(c) \subseteq Boundaries
  BY DEF OptionsOf
<1>6. \A k : k \in FitsBelow(c, n) <=>
               k \in FitsBelow(c, q) \/ (k = q /\ q \in OptionsOf(c)
                                            /\ (c = Hostname \/ ByteAt(q + 1) = Sized[c]))
  BY <1>3, <1>5 DEF FitsBelow
<1>7. CASE HasByte(q) /\ ByteAt(q) = c /\ (c = Hostname \/ ByteAt(q + 1) = Sized[c])
  <2>1. FitsBelow(c, n) = FitsBelow(c, q) \cup {q}
    BY <1>4, <1>6, <1>7
  <2> QED
    BY <1>7, <2>1
<1>8. CASE ~(HasByte(q) /\ ByteAt(q) = c /\ (c = Hostname \/ ByteAt(q + 1) = Sized[c]))
  <2>1. FitsBelow(c, n) = FitsBelow(c, q)
    BY <1>4, <1>6, <1>8
  <2> QED
    BY <1>8, <2>1
<1> QED
  BY <1>7, <1>8

LEMMA LastAdded ==
    ASSUME payload \in [header : Header, buf : Seq(Bytes)],
           NEW q \in Nat, NEW c
    PROVE  LastOf(FitsBelow(c, q) \cup {q}) = q
<1> DEFINE S == FitsBelow(c, q) \cup {q}
<1>1. \A k \in S : k \in Nat /\ k <= q
  <2>1. \A k \in FitsBelow(c, q) : k \in Boundaries /\ k < q
    BY DEF FitsBelow, OptionsOf
  <2>2. \A k \in Boundaries : k \in Nat
    BY BoundariesAre
  <2> QED
    BY <2>1, <2>2
<1>2. q \in S
  OBVIOUS
<1> HIDE DEF S
<1>3. ASSUME NEW k \in S, \A j \in S : j <= k PROVE k = q
  BY <1>1, <1>2, <1>3
<1>4. LastOf(S) \in S /\ \A j \in S : j <= LastOf(S)
  <2>1. \E k \in S : \A j \in S : j <= k
    BY <1>1, <1>2
  <2> QED
    BY <2>1 DEF LastOf
<1>5. LastOf(S) = q
  BY <1>3, <1>4
<1> QED
  BY <1>5 DEF S

(* The bytes of the option, as the parser and as the property take them.   *)
LEMMA DataIsThere ==
    ASSUME MeantInv, stage = "item"
    PROVE  /\ DataOf(first - 2) = Data
           /\ Code = ByteAt(first - 2)
           /\ past - first = ByteAt((first - 2) + 1)
           /\ Data = <<>> <=> first = past
<1>1. /\ DhcpTypeOK /\ InBounds /\ first \in 2 .. Len(buf) /\ past \in Nat /\ first \in Nat
      /\ first <= past /\ past <= Len(buf) /\ past = first + ByteAt((first - 2) + 1)
  BY DEF MeantInv, BoundsInv, DhcpTypeOK, InBounds, OptionAt
<1>2. buf \in Seq(Bytes) /\ Len(buf) \in Nat
  BY <1>1 DEF DhcpTypeOK, buf
<1>3. (first - 2) + 1 = first - 1 /\ (first - 2) + 3 = first + 1 /\ (first - 2) + 2 = first
  BY <1>1
<1>4. ByteAt(first - 1) \in Nat
  <2>1. (first - 1) + 1 = first /\ first \in 1 .. Len(buf)
    BY <1>1
  <2>2. buf[first] \in Nat
    BY <1>2, <2>1, DhcpAssumption
  <2> QED
    BY <2>1, <2>2 DEF ByteAt
<1>5. past - first = ByteAt((first - 2) + 1)
  BY <1>1, <1>3, <1>4
<1>6. DataOf(first - 2) = SubSeq(buf, first + 1, past)
  BY <1>1, <1>3 DEF DataOf
<1>7. SubSeq(buf, first + 1, past) = [i \in 1 .. past - first |-> buf[first + i]]
  <2> DEFINE m == first + 1
             d == past - first
  <2>1. m \in Nat /\ m >= 1 /\ d \in Nat /\ past = m + d - 1 /\ past <= Len(buf)
    BY <1>1
  <2>2. \A i \in 1 .. d : m + i - 1 = first + i
    BY <1>1
  <2>3. SubSeq(buf, m, past) = [i \in 1 .. (1 + past - m) |-> buf[i + m - 1]]
    BY <1>2, <2>1
  <2>4. 1 + past - m = d
    BY <1>1
  <2>5. \A i \in 1 .. d : i + m - 1 = first + i
    BY <1>1
  <2>6. SubSeq(buf, m, past) = [i \in 1 .. d |-> buf[first + i]]
    BY <2>3, <2>4, <2>5
  <2> QED
    BY <2>6
<1>8. Data = <<>> <=> first = past
  BY <1>1, DataIsBytes
<1> QED
  BY <1>5, <1>6, <1>7, <1>8 DEF Data, Code

LEMMA MeantInit == DhcpInit => MeantInv
<1> SUFFICES ASSUME DhcpInit PROVE MeantInv
  OBVIOUS
<1>1. BoundsInv
  BY BoundsInit
<1> QED
  BY <1>1 DEF DhcpInit, MeantInv

LEMMA HeaderMeant ==
    ASSUME MeantInv, ReadHeader
    PROVE  MeantInv'
<1>1. BoundsInv' /\ payload' = payload /\ payload \in [header : Header, buf : Seq(Bytes)]
  BY BoundsStep DEF MeantInv, BoundsInv, DhcpTypeOK, ReadHeader, DhcpNext, DhcpStep
<1>2. /\ stage' \in {"next", "none"} /\ pos' = 0
      /\ \A c \in Kept : obs'[c] = Unset
      /\ stage' = "next" => (client' = "chaddr" <=> payload.header.hlen = 6)
  BY DEF MeantInv, ReadHeader
<1>3. Passed(0)
  <2>1. 0 \in Boundaries /\ \A j \in Boundaries : j \in Nat
    BY <1>1, BoundariesAre
  <2> QED
    BY <2>1 DEF Passed
<1>4. \A c : Below(c, 0) = Unset
  <2>1. \A k \in Boundaries : k \in Nat
    BY <1>1, BoundariesAre
  <2>2. \A c : FitsBelow(c, 0) = {}
    BY <2>1 DEF FitsBelow, OptionsOf
  <2> QED
    BY <2>2 DEF Below
<1>5. Passed(pos)' /\ \A c \in Kept : obs'[c] = Below(c, pos)'
  <2>1. Passed(pos)' = Passed(0) /\ \A c : Below(c, pos)' = Below(c, 0)
    BY <1>1, <1>2, SamePayload
  <2> QED
    BY <1>2, <1>3, <1>4, <2>1
<1> QED
  BY <1>1, <1>2, <1>5 DEF MeantInv

LEMMA PadMeant ==
    ASSUME MeantInv, SkipPad
    PROVE  MeantInv'
<1>1. BoundsInv' /\ payload' = payload /\ payload \in [header : Header, buf : Seq(Bytes)]
  BY BoundsStep DEF MeantInv, BoundsInv, DhcpTypeOK, SkipPad, DhcpNext, DhcpStep
<1>2. /\ stage = "next" /\ stage' = "next" /\ pos' = pos + 1 /\ obs' = obs /\ client' = client
      /\ HasByte(pos) /\ ByteAt(pos) = Pad
      /\ Passed(pos) /\ \A c \in Kept : obs[c] = Below(c, pos)
      /\ (client = "chaddr" <=> payload.header.hlen = 6)
  BY DEF MeantInv, SkipPad
<1>3. FollowedBy(pos) = {pos'}
  BY <1>2 DEF FollowedBy
<1>4. Passed(pos')
  BY <1>1, <1>2, <1>3, NextPassed
<1>5. \A c \in Kept : c # Pad
  BY DhcpAssumption DEF Kept
<1>6. \A c \in Kept : FitsBelow(c, pos') = FitsBelow(c, pos)
  BY <1>1, <1>2, <1>3, <1>5, OneOption
<1>7. \A c \in Kept : Below(c, pos') = Below(c, pos)
  BY <1>6 DEF Below
<1>8. Passed(pos)' /\ \A c \in Kept : obs'[c] = Below(c, pos)'
  BY <1>1, <1>2, <1>4, <1>7, SamePayload
<1> QED
  BY <1>1, <1>2, <1>8 DEF MeantInv

LEMMA OptionMeant ==
    ASSUME MeantInv, NextOption
    PROVE  MeantInv'
<1>1. BoundsInv' /\ payload' = payload /\ payload \in [header : Header, buf : Seq(Bytes)]
      /\ pos \in Nat
  BY BoundsStep DEF MeantInv, BoundsInv, DhcpTypeOK, NextOption, DhcpNext, DhcpStep
<1>2. /\ stage = "next" /\ stage' = "item" /\ obs' = obs /\ client' = client
      /\ HasByte(pos) /\ ByteAt(pos) \notin {Pad, End} /\ HasByte(pos + 1)
      /\ first' = pos + 2 /\ past' = first' + ByteAt(pos + 1) /\ past' <= Len(buf)
      /\ Passed(pos) /\ \A c \in Kept : obs[c] = Below(c, pos)
      /\ (client = "chaddr" <=> payload.header.hlen = 6)
  BY DEF MeantInv, NextOption
<1>3. first' - 2 = pos
  BY <1>1, <1>2
<1>4. FollowedBy(pos) = {past'}
  BY <1>2 DEF FollowedBy
<1>5. /\ Passed(first' - 2) /\ FollowedBy(first' - 2) = {past'}
      /\ ByteAt(first' - 2) \notin {Pad, End} /\ past' = first' + ByteAt((first' - 2) + 1)
      /\ \A c \in Kept : obs'[c] = Below(c, first' - 2)
  BY <1>2, <1>3, <1>4
<1>6. /\ Passed(first - 2)' = Passed(first' - 2)
      /\ FollowedBy(first - 2)' = FollowedBy(first' - 2)
      /\ ByteAt(first - 2)' = ByteAt(first' - 2)
      /\ ByteAt((first - 2) + 1)' = ByteAt((first' - 2) + 1)
      /\ \A c : Below(c, first - 2)' = Below(c, first' - 2)
  BY <1>1, SamePayload
<1>7. OptionAt(first - 2)'
  BY <1>5, <1>6 DEF OptionAt
<1>8. \A c \in Kept : obs'[c] = Below(c, first - 2)'
  BY <1>5, <1>6
<1> QED
  BY <1>1, <1>2, <1>7, <1>8 DEF MeantInv

LEMMA EndMeant ==
    ASSUME MeantInv, NoMoreOptions
    PROVE  MeantInv'
<1>1. BoundsInv' /\ payload' = payload /\ payload \in [header : Header, buf : Seq(Bytes)]
      /\ pos \in Nat
  BY BoundsStep DEF MeantInv, BoundsInv, DhcpTypeOK, NoMoreOptions, DhcpNext, DhcpStep
<1>2. /\ stage = "next" /\ stage' = "some" /\ UNCHANGED <<pos, obs, client>>
      /\ Passed(pos) /\ \A c \in Kept : obs[c] = Below(c, pos)
      /\ (client = "chaddr" <=> payload.header.hlen = 6)
  BY DEF MeantInv, NoMoreOptions
<1>3. FollowedBy(pos) = {}
  <2>1. Pad # End
    BY DEF Pad, End
  <2>2. CASE ~HasByte(pos)
    BY <1>1, <2>2, FollowedIs
  <2>3. CASE HasByte(pos) /\ ByteAt(pos) = End
    BY <2>1, <2>3 DEF FollowedBy
  <2>4. CASE HasByte(pos) /\ ByteAt(pos) \notin {Pad, End} /\ ~HasByte(pos + 1)
    BY <2>4 DEF FollowedBy
  <2>5. CASE /\ HasByte(pos) /\ ByteAt(pos) \notin {Pad, End} /\ HasByte(pos + 1)
             /\ pos + 2 + ByteAt(pos + 1) > Len(buf)
    <3>1. FollowedBy(pos) = {n \in {pos + 2 + ByteAt(pos + 1)} : n <= Len(buf)}
      BY <2>5 DEF FollowedBy
    <3>2. ASSUME NEW n \in FollowedBy(pos) PROVE FALSE
      <4>1. n = pos + 2 + ByteAt(pos + 1) /\ n <= Len(buf)
        BY <3>1, <3>2
      <4>2. n \in Nat /\ Len(buf) \in Nat
        BY <1>1, <3>2, FollowedIs DEF buf
      <4> QED
        BY <2>5, <4>1, <4>2
    <3> QED
      BY <3>2
  <2> QED
    BY <2>2, <2>3, <2>4, <2>5 DEF NoMoreOptions
<1>4. Passed(pos)' /\ FollowedBy(pos)' = {} /\ \A c \in Kept : obs'[c] = Below(c, pos)'
  BY <1>1, <1>2, <1>3, SamePayload
<1> QED
  BY <1>1, <1>2, <1>4 DEF MeantInv

(* The heart of it: what Keep makes of the option is what the property     *)
(* says of the options up to this one.                                     *)
LEMMA KeepMeant ==
    ASSUME MeantInv, Keep
    PROVE  MeantInv'
<1> DEFINE q == first - 2
<1>1. BoundsInv' /\ payload' = payload /\ payload \in [header : Header, buf : Seq(Bytes)]
      /\ first \in Nat /\ past \in Nat /\ q \in Nat /\ pos = past
  BY BoundsStep DEF MeantInv, BoundsInv, DhcpTypeOK, Keep, DhcpNext, DhcpStep
<1>2. /\ stage = "item" /\ stage' = "next" /\ client' = client /\ pos' = pos
      /\ Passed(q) /\ FollowedBy(q) = {past}
      /\ ByteAt(q) \notin {Pad, End}
      /\ \A c \in Kept : obs[c] = Below(c, q)
      /\ (client = "chaddr" <=> payload.header.hlen = 6)
  BY DEF MeantInv, Keep, OptionAt
<1>3. /\ DataOf(q) = Data /\ Code = ByteAt(q) /\ past - first = ByteAt(q + 1)
      /\ Data = <<>> <=> first = past
  BY <1>2, DataIsThere
<1>4. HasByte(q)
  BY <1>1, <1>2, FollowedIs
<1>5. Hostname \notin DOMAIN Sized /\ \A c \in DOMAIN Sized : Sized[c] \in Nat \ {0}
  BY DhcpAssumption
<1>6. /\ past - first = 0 <=> past = first
      /\ \A c \in DOMAIN Sized : past - first = Sized[c] => past # first
  BY <1>1, <1>5
<1>7. Passed(past)
  BY <1>1, <1>2, NextPassed
<1> HIDE DEF q
<1>8. ASSUME NEW c \in Kept PROVE obs'[c] = Below(c, past)
  <2>1. obs'[c] = CASE c = Code /\ c \in DOMAIN Sized /\ past - first = Sized[c] -> Data
                    [] c = Code /\ c = Hostname -> IF past = first THEN Unset ELSE Data
                    [] OTHER -> obs[c]
    BY DEF Keep
  <2>2. CASE ByteAt(q) = c /\ (c = Hostname \/ ByteAt(q + 1) = Sized[c])
    <3>1. FitsBelow(c, past) = FitsBelow(c, q) \cup {q}
      BY <1>1, <1>2, <1>4, <2>2, OneOption
    <3>2. LastOf(FitsBelow(c, past)) = q
      BY <1>1, <3>1, LastAdded
    <3>3. Below(c, past) = IF Data = <<>> THEN Unset ELSE Data
      <4>1. FitsBelow(c, past) # {}
        BY <3>1
      <4> QED
        BY <1>3, <3>2, <4>1 DEF Below
    <3>4. CASE c = Hostname
      BY <1>3, <1>5, <2>1, <2>2, <3>3, <3>4
    <3>5. CASE c # Hostname
      <4>1. c \in DOMAIN Sized /\ past - first = Sized[c]
        BY <1>3, <2>2, <3>5 DEF Kept
      <4>2. obs'[c] = Data /\ Data # <<>>
        BY <1>3, <1>6, <2>1, <2>2, <4>1
      <4> QED
        BY <3>3, <4>2
    <3> QED
      BY <3>4, <3>5
  <2>3. CASE ~(ByteAt(q) = c /\ (c = Hostname \/ ByteAt(q + 1) = Sized[c]))
    <3>1. FitsBelow(c, past) = FitsBelow(c, q)
      BY <1>1, <1>2, <2>3, OneOption
    <3>2. Below(c, past) = Below(c, q)
      BY <3>1 DEF Below
    <3>3. obs'[c] = obs[c]
      BY <1>3, <2>1, <2>3
    <3> QED
      BY <1>2, <3>2, <3>3
  <2> QED
    BY <2>2, <2>3
<1>9. Passed(pos)' /\ \A c \in Kept : obs'[c] = Below(c, pos)'
  <2>1. Passed(pos)' = Passed(past) /\ \A c : Below(c, pos)' = Below(c, past)
    BY <1>1, <1>2, SamePayload
  <2> QED
    BY <1>7, <1>8, <2>1
<1> QED
  BY <1>1, <1>2, <1>9 DEF MeantInv

LEMMA IdleMeant ==
    ASSUME MeantInv, UNCHANGED dhcpVars
    PROVE  MeantInv'
<1>1. BoundsInv' /\ UNCHANGED <<payload, stage, client, pos, first, past, obs>>
  BY BoundsStep DEF MeantInv, dhcpVars
<1>2. OptionAt(first - 2)' <=> OptionAt(first - 2)
  BY <1>1, SamePayload DEF OptionAt
<1> QED
  BY <1>1, <1>2, SamePayload DEF MeantInv

LEMMA MeantStep == MeantInv /\ [DhcpNext]_dhcpVars => MeantInv'
  BY HeaderMeant, PadMeant, OptionMeant, EndMeant, KeepMeant, IdleMeant
     DEF DhcpNext, DhcpStep, DhcpDone

(* At the end there are no options but those before the place the iterator *)
(* stopped at, so what is kept is what all of them say.                    *)
LEMMA MeantAtEnd == MeantInv => ResultIsMeant
<1>1. ASSUME MeantInv, stage = "some", NEW c \in Kept PROVE obs[c] = Meant(c)
  <2>1. payload \in [header : Header, buf : Seq(Bytes)] /\ Len(buf) \in Nat
    BY <1>1 DEF MeantInv, BoundsInv, DhcpTypeOK, buf
  <2>2. Passed(pos) /\ FollowedBy(pos) = {} /\ obs[c] = Below(c, pos)
    BY <1>1 DEF MeantInv
  <2>3. /\ \A j \in Boundaries : j <= pos /\ j \in Nat
        /\ pos \in Nat
    BY <2>1, <2>2, LastPassed, BoundariesAre DEF Passed
  <2>4. \A k \in OptionsOf(c) : k < pos
    <3>1. \A k \in OptionsOf(c) : k \in Boundaries /\ k # pos
      BY <2>2 DEF OptionsOf
    <3> QED
      BY <2>3, <3>1
  <2>5. FitsBelow(c, pos) = {k \in OptionsOf(c) : c = Hostname \/ ByteAt(k + 1) = Sized[c]}
    BY <2>4 DEF FitsBelow
  <2> QED
    BY <2>2, <2>5 DEF Below, Meant
<1> QED
  BY <1>1 DEF ResultIsMeant, MeantInv

(* dhcp.rs:246-288: for every packet, what is kept of every option is the  *)
(* last complete one of the proper length.                                 *)
THEOREM ResultIsMeantHolds == DhcpSpec => []ResultIsMeant
  BY MeantInit, MeantStep, MeantAtEnd, PTL DEF DhcpSpec

-----------------------------------------------------------------------------
(* LeaseFile: the lines of a lease file, and the inventory they go into.   *)

(* The block that begins at line i is still open.                          *)
Opened(i) ==
    /\ i \in 1 .. at - 1
    /\ file[i].type = "lease"
    /\ \A j \in i + 1 .. at - 1 : file[j].type \notin {"lease", "close"}

(* The variables of parse_isc are what the open block has said, if any.    *)
BlockInv ==
    phase = "isc" =>
        /\ ip # NoIp => \E i \in DOMAIN file : Opened(i)
        /\ \A i \in DOMAIN file : Opened(i) => ip = file[i].ip /\ mac = MacIn(i, at - 1)

(* What has been read is in the list already.                              *)
ReadInv ==
    /\ phase # "detect" /\ ~LooksDnsmasq =>
          \A i, k \in DOMAIN file :
             k < at /\ IsBlock(i, k) /\ <<MacIn(i, k), file[i].ip>> \in Macs \X Ips
                => <<MacIn(i, k), file[i].ip>> \in Pairs
    /\ phase # "detect" /\ LooksDnsmasq =>
          \A k \in DOMAIN file :
             k < at /\ file[k].type = "entry" /\ <<file[k].mac, file[k].ip>> \in Macs \X Ips
                => <<file[k].mac, file[k].ip>> \in Pairs

(* Where the reading is.                                                   *)
PlaceInv ==
    /\ phase = "detect" => at = 1 /\ ip = NoIp
    /\ phase = "dnsmasq" => LooksDnsmasq
    /\ phase = "isc" => ~LooksDnsmasq
    /\ phase \in {"merge", "over"} => at = Len(file) + 1
    /\ phase # "over" => inv = NewInventory

LeaseInv == LeaseTypeOK /\ BlockInv /\ ReadInv /\ PlaceInv /\ NothingMadeUp /\ FileIsBaseline

-----------------------------------------------------------------------------
(* Lemmas about lines, the last of a set of lines, and lists.              *)
(* Which fields a line of each type has.                                   *)
LEMMA LineFields ==
    ASSUME NEW l \in LeaseLine
    PROVE  /\ l.type = "lease" => l.ip \in Ips \cup {NoIp}
           /\ l.type = "hardware" => l.mac \in Macs \cup {NoMac}
           /\ l.type = "entry" => l.ip \in Ips \cup {NoIp}
  BY DEF LeaseLine

(* A set of positions that is not empty has a last one.                    *)
LEMMA LastExists ==
    ASSUME NEW n \in Nat, NEW S \in SUBSET (1 .. n), S # {}
    PROVE  \E k \in S : \A j \in S : j <= k
<1> DEFINE Rel == OpToRel(<, Nat)
           T == {m \in Nat : n - m \in S}
<1>1. IsWellFoundedOn(Rel, Nat)
  BY NatLessThanWellFounded
<1>2. T \subseteq Nat /\ T # {}
  <2>1. PICK s \in S : s \in 1 .. n
    OBVIOUS
  <2>2. n - s \in Nat /\ n - (n - s) = s
    BY <2>1
  <2> QED
    BY <2>1, <2>2
<1>3. PICK x \in T : \A y \in T : ~(<<y, x>> \in Rel)
  <2> HIDE DEF Rel, T
  <2> QED
    BY <1>1, <1>2, WFMin, Zenon
<1>4. \A y \in T : x <= y
  <2> SUFFICES ASSUME NEW y \in T, y < x PROVE FALSE
    OBVIOUS
  <2>1. <<y, x>> \in Rel
    BY DEF OpToRel
  <2> QED
    BY <1>3, <2>1
<1> QED
  <2>1. n - x \in S
    OBVIOUS
  <2> SUFFICES ASSUME NEW j \in S PROVE j <= n - x
    BY <2>1
  <2>2. j \in 1 .. n /\ x \in Nat
    OBVIOUS
  <2>3. n - j \in Nat /\ n - (n - j) = j
    BY <2>2
  <2>4. n - j \in T
    BY <2>3
  <2>5. x <= n - j
    BY <1>4, <2>4
  <2> QED
    BY <2>2, <2>3, <2>5

(* One line more: a hardware line is the last one, any other says nothing. *)
LEMMA MacStep ==
    ASSUME NEW i \in Nat, NEW k \in Nat, i <= k
    PROVE  MacIn(i, k + 1) = IF file[k + 1].type = "hardware" THEN file[k + 1].mac
                             ELSE MacIn(i, k)
<1> DEFINE Said(n) == {j \in i .. n : file[j].type = "hardware"}
<1>1. CASE file[k + 1].type = "hardware"
  <2>1. k + 1 \in Said(k + 1) /\ \A l \in Said(k + 1) : l <= k + 1
    BY <1>1
  <2>2. \A m \in Said(k + 1) : (\A l \in Said(k + 1) : l <= m) => m = k + 1
    BY <2>1
  <2>3. (CHOOSE m \in Said(k + 1) : \A l \in Said(k + 1) : l <= m) = k + 1
    <3> HIDE DEF Said
    <3> QED
      BY <2>1, <2>2
  <2> QED
    BY <1>1, <2>1, <2>3 DEF MacIn
<1>2. CASE file[k + 1].type # "hardware"
  <2>1. Said(k + 1) = Said(k)
    <3>1. \A j : j \in i .. k + 1 <=> j \in i .. k \/ j = k + 1
      OBVIOUS
    <3> QED
      BY <1>2, <3>1
  <2> DEFINE Tell(S) == IF S = {} THEN NoMac
                        ELSE file[CHOOSE j \in S : \A l \in S : l <= j].mac
  <2>2. MacIn(i, k + 1) = Tell(Said(k + 1)) /\ MacIn(i, k) = Tell(Said(k))
    BY DEF MacIn
  <2> HIDE DEF Tell, Said
  <2> QED
    BY <1>2, <2>1, <2>2
<1> QED
  BY <1>1, <1>2

(* A block that has only just begun has no MAC.                            *)
LEMMA MacAtStart ==
    ASSUME NEW i \in Nat, file[i].type = "lease"
    PROVE  MacIn(i, i) = NoMac
<1>1. {j \in i .. i : file[j].type = "hardware"} = {}
  <2> SUFFICES ASSUME NEW j \in i .. i PROVE file[j].type # "hardware"
    OBVIOUS
  <2>1. j = i
    OBVIOUS
  <2> QED
    BY <2>1
<1> QED
  BY <1>1 DEF MacIn

(* The last lease of a MAC is one of its leases.                           *)
LEMMA LastIsListed ==
    ASSUME out \in Seq(Macs \X Ips), NEW m \in Macs
    PROVE  /\ Listed(m) = {} => LastListed(m) = NoIp
           /\ Listed(m) # {} => LastListed(m) \in Ips /\ <<m, LastListed(m)>> \in Pairs
<1>1. CASE Listed(m) # {}
  <2> DEFINE k == CHOOSE k \in Listed(m) : \A j \in Listed(m) : j <= k
  <2>1. Len(out) \in Nat /\ DOMAIN out = 1 .. Len(out)
    OBVIOUS
  <2>2. Listed(m) \in SUBSET (1 .. Len(out))
    BY <2>1 DEF Listed
  <2>3. \E l \in Listed(m) : \A j \in Listed(m) : j <= l
    BY <1>1, <2>1, <2>2, LastExists
  <2>4. k \in Listed(m)
    BY <2>3
  <2>5. k \in DOMAIN out /\ out[k][1] = m
    BY <2>4 DEF Listed
  <2>6. LastListed(m) = out[k][2]
    BY <1>1 DEF LastListed
  <2>7. out[k] \in Macs \X Ips
    BY <2>5
  <2>8. out[k] = <<m, out[k][2]>> /\ out[k][2] \in Ips
    BY <2>5, <2>7
  <2> QED
    BY <1>1, <2>5, <2>6, <2>8 DEF Pairs
<1> QED
  BY <1>1 DEF LastListed

(* A pair more at the end of the list.                                     *)
LEMMA OneMore ==
    ASSUME out \in Seq(Macs \X Ips), NEW p \in Macs \X Ips, out' = Append(out, p)
    PROVE  out' \in Seq(Macs \X Ips) /\ Pairs' = Pairs \cup {p}
<1>1. /\ out' \in Seq(Macs \X Ips) /\ Len(out') = Len(out) + 1 /\ Len(out) \in Nat
      /\ DOMAIN out = 1 .. Len(out) /\ DOMAIN out' = 1 .. Len(out) + 1
      /\ out'[Len(out) + 1] = p
      /\ \A k \in 1 .. Len(out) : out'[k] = out[k]
  OBVIOUS
<1>2. \A k : k \in DOMAIN out' <=> k \in DOMAIN out \/ k = Len(out) + 1
  BY <1>1
<1> QED
  BY <1>1, <1>2 DEF Pairs

-----------------------------------------------------------------------------
(* Initially nothing is read.                                              *)
THEOREM LeaseBegins == LeaseInit => LeaseInv
<1> SUFFICES ASSUME LeaseInit PROVE LeaseInv
  OBVIOUS
<1>1. file \in Seq(LeaseLine) /\ Len(file) \in Nat
  BY LeaseFileAssumption DEF LeaseInit
<1>2. NewInventory \in InventoryType
  BY DEF NewInventory, InventoryType, NewHost, HostType
<1>3. Pairs = {}
  BY DEF Pairs, LeaseInit
<1> QED
  BY <1>1, <1>2, <1>3 DEF LeaseInit, LeaseInv, LeaseTypeOK, BlockInv, ReadInv, PlaceInv,
                          NothingMadeUp, FileIsBaseline

(* The facts every step starts from.                                       *)
LEMMA Reads ==
    ASSUME LeaseInv, NEW parser, Reading(parser)
    PROVE  /\ at \in 1 .. Len(file) /\ Len(file) \in Nat /\ DOMAIN file = 1 .. Len(file)
           /\ line \in LeaseLine
           /\ at' \in 1 .. Len(file)' + 1
           /\ file' = file
           /\ phase' = phase /\ phase = parser
           /\ inv' = inv
           /\ (phase \in {"dnsmasq", "isc"} => PlaceInv' /\ FileIsBaseline')
<1>1. at \in 1 .. Len(file) /\ Len(file) \in Nat /\ DOMAIN file = 1 .. Len(file)
  BY DEF LeaseInv, LeaseTypeOK, Reading
<1>2. file' = file /\ phase' = phase /\ phase = parser /\ inv' = inv /\ at' = at + 1
  BY DEF Reading
<1>3. line \in LeaseLine /\ at' \in 1 .. Len(file)' + 1
  BY <1>1, <1>2 DEF LeaseInv, LeaseTypeOK, line
<1>4. ASSUME phase \in {"dnsmasq", "isc"} PROVE PlaceInv' /\ FileIsBaseline'
  <2>1. phase' \notin {"detect", "merge", "over"}
    BY <1>2, <1>4
  <2>2. LooksDnsmasq' = LooksDnsmasq
    BY <1>2 DEF LooksDnsmasq
  <2> QED
    BY <1>2, <1>4, <2>1, <2>2 DEF LeaseInv, PlaceInv, FileIsBaseline
<1> QED
  BY <1>1, <1>2, <1>3, <1>4

(* What the file says does not change while it is read.                    *)
LEMMA FileStays ==
    ASSUME file' = file
    PROVE  /\ LooksDnsmasq' = LooksDnsmasq
           /\ \A i, k : IsBlock(i, k)' = IsBlock(i, k) /\ MacIn(i, k)' = MacIn(i, k)
           /\ \A p : IscSays(p)' = IscSays(p) /\ DnsmasqSays(p)' = DnsmasqSays(p)
<1>1. LooksDnsmasq' = LooksDnsmasq
  BY DEF LooksDnsmasq
<1>2. \A i, k : IsBlock(i, k)' = IsBlock(i, k)
  BY DEF IsBlock
<1>3. \A i, k : MacIn(i, k)' = MacIn(i, k)
  BY DEF MacIn
<1>4. \A p : IscSays(p)' = IscSays(p)
  BY <1>2, <1>3 DEF IscSays
<1>5. \A p : DnsmasqSays(p)' = DnsmasqSays(p)
  BY DEF DnsmasqSays
<1> QED
  BY <1>1, <1>2, <1>3, <1>4, <1>5

(* The format is chosen before anything is read.                           *)
LEMMA DetectStep == LeaseInv /\ Detect => LeaseInv'
<1> SUFFICES ASSUME LeaseInv, Detect PROVE LeaseInv'
  OBVIOUS
<1>1. file' = file /\ at' = 1 /\ out' = out /\ ip' = NoIp /\ inv' = inv
  BY DEF Detect, LeaseInv, PlaceInv
<1>2. Pairs' = Pairs
  BY <1>1 DEF Pairs
<1>3. LeaseTypeOK'
  BY DEF Detect, LeaseInv, LeaseTypeOK
<1>4. BlockInv'
  BY <1>1 DEF BlockInv, Opened
<1>5. ReadInv'
  <2>1. \A k \in DOMAIN file : ~(k < at')
    BY <1>1 DEF LeaseInv, LeaseTypeOK
  <2> QED
    BY <1>1, <2>1 DEF ReadInv
<1>6. PlaceInv'
  BY <1>1, FileStays DEF Detect, LeaseInv, PlaceInv
<1>7. NothingMadeUp' /\ FileIsBaseline'
  BY <1>1, <1>2, FileStays DEF Detect, LeaseInv, NothingMadeUp, FileIsBaseline
<1> QED
  BY <1>3, <1>4, <1>5, <1>6, <1>7 DEF LeaseInv

(* A line of a dnsmasq file adds the lease it says, if it says one.        *)
LEMMA DnsmasqStep == LeaseInv /\ DnsmasqLine => LeaseInv'
<1> SUFFICES ASSUME LeaseInv, DnsmasqLine PROVE LeaseInv'
  OBVIOUS
<1> USE DEF LeaseInv
<1>1. /\ Reading("dnsmasq") /\ phase = "dnsmasq" /\ phase' = "dnsmasq" /\ file' = file
      /\ at' = at + 1 /\ at \in DOMAIN file /\ ip' = ip /\ mac' = mac
      /\ PlaceInv' /\ FileIsBaseline' /\ LooksDnsmasq /\ at \in Nat /\ line \in LeaseLine
      /\ at' \in 1 .. Len(file)' + 1 /\ inv' = inv /\ DOMAIN file \subseteq Nat
  BY Reads DEF DnsmasqLine, Reading, PlaceInv
<1> DEFINE p == <<line.mac, line.ip>>
<1>2. CASE line.type = "entry" /\ p \in Macs \X Ips
  <2>1. out' = Append(out, p)
    BY <1>2, DissectAssumption DEF DnsmasqLine
  <2>2. out' \in Seq(Macs \X Ips) /\ Pairs' = Pairs \cup {p}
    <3> HIDE DEF p
    <3> QED
      BY <1>2, <2>1, OneMore DEF LeaseTypeOK
  <2>3. DnsmasqSays(p)
    BY <1>1, <1>2 DEF DnsmasqSays, line
  <2>4. NothingMadeUp'
    BY <1>1, <2>2, <2>3, FileStays DEF NothingMadeUp
  <2>5. ReadInv'
    <3>1. SUFFICES ASSUME NEW k \in DOMAIN file, k < at', file[k].type = "entry",
                          <<file[k].mac, file[k].ip>> \in Macs \X Ips
                   PROVE  <<file[k].mac, file[k].ip>> \in Pairs'
      BY <1>1, FileStays DEF ReadInv
    <3>2. k < at \/ k = at
      BY <1>1, <3>1
    <3> QED
      BY <1>1, <2>2, <3>1, <3>2 DEF ReadInv, line
  <2> QED
    BY <1>1, <2>2, <2>4, <2>5 DEF LeaseTypeOK, BlockInv
<1>3. CASE ~(line.type = "entry" /\ p \in Macs \X Ips)
  <2>1. out' = out
    BY <1>1, <1>3, LineFields DEF DnsmasqLine
  <2>2. Pairs' = Pairs
    BY <2>1 DEF Pairs
  <2>3. ReadInv'
    <3>1. SUFFICES ASSUME NEW k \in DOMAIN file, k < at', file[k].type = "entry",
                          <<file[k].mac, file[k].ip>> \in Macs \X Ips
                   PROVE  <<file[k].mac, file[k].ip>> \in Pairs'
      BY <1>1, FileStays DEF ReadInv
    <3>2. k < at
      BY <1>1, <1>3, <3>1 DEF line
    <3> QED
      BY <1>1, <2>2, <3>1, <3>2 DEF ReadInv
  <2>4. NothingMadeUp'
    BY <1>1, <2>2, FileStays DEF NothingMadeUp
  <2> QED
    BY <1>1, <2>1, <2>3, <2>4 DEF LeaseTypeOK, BlockInv
<1> QED
  BY <1>2, <1>3

(* The open blocks after a line that neither opens nor closes one.         *)
LEMMA StillOpen ==
    ASSUME LeaseInv, Reading("isc"), line.type \notin {"lease", "close"}
    PROVE  \A i \in DOMAIN file : Opened(i)' <=> Opened(i)
<1>1. at' = at + 1 /\ file' = file /\ at \in Nat /\ DOMAIN file \subseteq Nat
  BY Reads DEF LeaseInv, Reading
<1> SUFFICES ASSUME NEW i \in DOMAIN file PROVE Opened(i)' <=> Opened(i)
  OBVIOUS
<1>2. \A j : j \in i + 1 .. at <=> j \in i + 1 .. at - 1 \/ (j = at /\ i < at)
  BY <1>1
<1>3. file[i].type = "lease" => i # at
  BY DEF line
<1> QED
  BY <1>1, <1>2, <1>3 DEF Opened, line

(* After a line that closes no block, what was read is still in the list.  *)
LEMMA NoneClosed ==
    ASSUME LeaseInv, Reading("isc"), line.type # "close", out' = out
    PROVE  ReadInv' /\ NothingMadeUp'
<1>1. /\ at' = at + 1 /\ file' = file /\ at \in Nat /\ DOMAIN file \subseteq Nat
      /\ phase' = "isc" /\ ~LooksDnsmasq /\ phase = "isc"
  BY Reads DEF LeaseInv, Reading, PlaceInv
<1>2. Pairs' = Pairs
  BY DEF Pairs
<1>3. ReadInv'
  <2>1. SUFFICES ASSUME NEW i \in DOMAIN file, NEW k \in DOMAIN file, k < at', IsBlock(i, k),
                        <<MacIn(i, k), file[i].ip>> \in Macs \X Ips
                 PROVE  <<MacIn(i, k), file[i].ip>> \in Pairs'
    BY <1>1, FileStays DEF ReadInv
  <2>2. k < at
    BY <1>1, <2>1 DEF IsBlock, line
  <2> QED
    BY <1>1, <1>2, <2>1, <2>2 DEF LeaseInv, ReadInv
<1> QED
  BY <1>1, <1>2, <1>3, FileStays DEF LeaseInv, NothingMadeUp

(* The facts every step of parse_isc starts from.                          *)
LEMMA IscReads ==
    ASSUME LeaseInv, Reading("isc")
    PROVE  /\ at \in DOMAIN file /\ at \in Nat \ {0} /\ DOMAIN file \subseteq Nat \ {0}
           /\ at' = at + 1 /\ file' = file /\ inv' = inv /\ phase = "isc" /\ phase' = "isc"
           /\ line \in LeaseLine /\ ~LooksDnsmasq
           /\ at' \in 1 .. Len(file)' + 1 /\ PlaceInv' /\ FileIsBaseline'
  BY Reads DEF LeaseInv, Reading, PlaceInv

(* The MAC of a block up to the line before the next is the MAC up to the  *)
(* line just read.                                                         *)
LEMMA MacRead ==
    ASSUME LeaseInv, Reading("isc")
    PROVE  \A i : MacIn(i, at - 1)' = MacIn(i, at)
<1> SUFFICES ASSUME NEW i PROVE MacIn(i, at - 1)' = MacIn(i, at)
  OBVIOUS
<1> DEFINE Said(f, n) == {j \in i .. n : f[j].type = "hardware"}
           Tell(f, S) == IF S = {} THEN NoMac
                         ELSE f[CHOOSE j \in S : \A l \in S : l <= j].mac
<1>1. MacIn(i, at - 1)' = Tell(file', Said(file', at' - 1))
  BY DEF MacIn
<1>2. MacIn(i, at) = Tell(file, Said(file, at))
  BY DEF MacIn
<1>3. at' - 1 = at /\ file' = file
  BY IscReads
<1> HIDE DEF Said, Tell
<1> QED
  BY <1>1, <1>2, <1>3

(* A new block: its address is known, its MAC is not, whatever came before.*)
LEMMA OpenStep == LeaseInv /\ OpenBlock => LeaseInv'
<1> SUFFICES ASSUME LeaseInv, OpenBlock PROVE LeaseInv'
  OBVIOUS
<1>1. Reading("isc") /\ line.type = "lease" /\ ip' = line.ip /\ mac' = NoMac /\ out' = out
  BY DEF OpenBlock
<1>2. LeaseTypeOK'
  BY <1>1, IscReads, LineFields DEF LeaseInv, LeaseTypeOK
<1>3. \A i \in DOMAIN file : Opened(i)' <=> i = at
  <2> SUFFICES ASSUME NEW i \in DOMAIN file PROVE Opened(i)' <=> i = at
    OBVIOUS
  <2>1. ASSUME i < at PROVE ~Opened(i)'
    BY <1>1, <2>1, IscReads DEF Opened, line
  <2> QED
    BY <1>1, <2>1, IscReads DEF Opened, line
<1>4. BlockInv'
  <2>1. MacIn(at, at) = NoMac
    BY <1>1, IscReads, MacAtStart DEF line
  <2>2. \A i : MacIn(i, at - 1)' = MacIn(i, at)
    BY <1>1, MacRead
  <2> QED
    BY <1>1, <1>3, <2>1, <2>2, IscReads DEF BlockInv, line
<1>5. ReadInv' /\ NothingMadeUp'
  BY <1>1, NoneClosed
<1> QED
  BY <1>1, <1>2, <1>4, <1>5, IscReads DEF LeaseInv

(* A hardware line: the block has the MAC it says.                         *)
LEMMA HardwareStep == LeaseInv /\ HardwareLine => LeaseInv'
<1> SUFFICES ASSUME LeaseInv, HardwareLine PROVE LeaseInv'
  OBVIOUS
<1>1. Reading("isc") /\ line.type = "hardware" /\ mac' = line.mac /\ ip' = ip /\ out' = out
  BY DEF HardwareLine
<1>2. LeaseTypeOK'
  BY <1>1, IscReads, LineFields DEF LeaseInv, LeaseTypeOK
<1>3. BlockInv'
  <2>1. ASSUME NEW i \in DOMAIN file, Opened(i) PROVE MacIn(i, at) = line.mac
    <3>1. i \in Nat /\ at - 1 \in Nat /\ i <= at - 1 /\ (at - 1) + 1 = at
      BY <1>1, <2>1, IscReads DEF Opened
    <3> QED
      BY <1>1, <3>1, MacStep DEF line
  <2>2. \A i : MacIn(i, at - 1)' = MacIn(i, at)
    BY <1>1, MacRead
  <2>3. \A i \in DOMAIN file : Opened(i)' <=> Opened(i)
    BY <1>1, StillOpen
  <2> QED
    BY <1>1, <2>1, <2>2, <2>3, IscReads DEF LeaseInv, BlockInv
<1>4. ReadInv' /\ NothingMadeUp'
  BY <1>1, NoneClosed
<1> QED
  BY <1>1, <1>2, <1>3, <1>4, IscReads DEF LeaseInv

(* Any other line that closes no block changes nothing.                    *)
LEMMA OtherStep == LeaseInv /\ OtherLine => LeaseInv'
<1> SUFFICES ASSUME LeaseInv, OtherLine PROVE LeaseInv'
  OBVIOUS
<1>1. /\ Reading("isc") /\ line.type \notin {"lease", "hardware", "close"}
      /\ mac' = mac /\ ip' = ip /\ out' = out
  BY DEF OtherLine
<1>2. LeaseTypeOK'
  BY <1>1, IscReads DEF LeaseInv, LeaseTypeOK
<1>3. BlockInv'
  <2>1. ASSUME NEW i \in DOMAIN file, Opened(i) PROVE MacIn(i, at) = MacIn(i, at - 1)
    <3>1. i \in Nat /\ at - 1 \in Nat /\ i <= at - 1 /\ (at - 1) + 1 = at
      BY <1>1, <2>1, IscReads DEF Opened
    <3> QED
      BY <1>1, <3>1, MacStep DEF line
  <2>2. \A i : MacIn(i, at - 1)' = MacIn(i, at)
    BY <1>1, MacRead
  <2>3. \A i \in DOMAIN file : Opened(i)' <=> Opened(i)
    BY <1>1, StillOpen
  <2> QED
    BY <1>1, <2>1, <2>2, <2>3, IscReads DEF LeaseInv, BlockInv
<1>4. ReadInv' /\ NothingMadeUp'
  BY <1>1, NoneClosed
<1> QED
  BY <1>1, <1>2, <1>3, <1>4, IscReads DEF LeaseInv

(* A brace: the lease of the block that was open goes to the list, and no  *)
(* other.                                                                  *)
LEMMA CloseStep == LeaseInv /\ CloseBlock => LeaseInv'
<1> SUFFICES ASSUME LeaseInv, CloseBlock PROVE LeaseInv'
  OBVIOUS
<1>1. Reading("isc") /\ line.type = "close" /\ ip' = NoIp /\ mac' = NoMac
  BY DEF CloseBlock
<1>2. \A i \in DOMAIN file : ~Opened(i)'
  <2> SUFFICES ASSUME NEW i \in DOMAIN file, Opened(i)' PROVE FALSE
    OBVIOUS
  <2>1. i \in 1 .. at /\ file[i].type = "lease"
        /\ \A j \in i + 1 .. at : file[j].type \notin {"lease", "close"}
    BY <1>1, IscReads DEF Opened
  <2>2. i # at
    BY <1>1, <2>1 DEF line
  <2>3. at \in i + 1 .. at
    BY <1>1, <2>1, <2>2, IscReads
  <2> QED
    BY <1>1, <2>1, <2>3 DEF line
<1>3. BlockInv'
  BY <1>1, <1>2, IscReads DEF BlockInv
<1>4. \A i \in DOMAIN file : IsBlock(i, at) <=> Opened(i)
  BY <1>1, IscReads DEF IsBlock, Opened, line
<1>5. \A i \in DOMAIN file : Opened(i) => ip = file[i].ip /\ mac = MacIn(i, at)
  <2> SUFFICES ASSUME NEW i \in DOMAIN file, Opened(i)
               PROVE  ip = file[i].ip /\ mac = MacIn(i, at)
    OBVIOUS
  <2>1. i \in Nat /\ at - 1 \in Nat /\ i <= at - 1 /\ (at - 1) + 1 = at
    BY <1>1, IscReads DEF Opened
  <2>2. MacIn(i, at) = MacIn(i, at - 1)
    BY <1>1, <2>1, MacStep DEF line
  <2> QED
    BY <1>1, <2>2, IscReads DEF LeaseInv, BlockInv
<1>6. /\ out' \in Seq(Macs \X Ips)
      /\ Pairs' = Pairs \cup (IF ip # NoIp /\ mac # NoMac THEN {<<mac, ip>>} ELSE {})
      /\ (ip # NoIp /\ mac # NoMac => <<mac, ip>> \in Macs \X Ips)
  <2>1. CASE ip # NoIp /\ mac # NoMac
    <3>1. <<mac, ip>> \in Macs \X Ips /\ out \in Seq(Macs \X Ips)
      BY <2>1 DEF LeaseInv, LeaseTypeOK
    <3>2. out' = Append(out, <<mac, ip>>)
      BY <2>1 DEF CloseBlock
    <3> QED
      BY <2>1, <3>1, <3>2, OneMore
  <2>2. CASE ~(ip # NoIp /\ mac # NoMac)
    <3>1. out' = out
      BY <2>2 DEF CloseBlock
    <3> QED
      BY <2>2, <3>1 DEF LeaseInv, LeaseTypeOK, Pairs
  <2> QED
    BY <2>1, <2>2
<1>7. LeaseTypeOK'
  BY <1>1, <1>6, IscReads DEF LeaseInv, LeaseTypeOK
<1>8. ReadInv'
  <2>1. SUFFICES ASSUME NEW i \in DOMAIN file, NEW k \in DOMAIN file, k < at', IsBlock(i, k),
                        <<MacIn(i, k), file[i].ip>> \in Macs \X Ips
                 PROVE  <<MacIn(i, k), file[i].ip>> \in Pairs'
    BY <1>1, IscReads, FileStays DEF ReadInv
  <2>2. CASE k < at
    BY <1>1, <1>6, <2>1, <2>2, IscReads DEF LeaseInv, ReadInv
  <2>3. CASE k = at
    <3>1. mac = MacIn(i, k) /\ ip = file[i].ip
      BY <1>4, <1>5, <2>1, <2>3
    <3>2. mac # NoMac /\ ip # NoIp
      BY <2>1, <3>1, LeaseFileAssumption, DissectAssumption
    <3> QED
      BY <1>6, <3>1, <3>2
  <2> QED
    BY <1>1, <2>1, <2>2, <2>3, IscReads
<1>9. NothingMadeUp'
  <2>1. ASSUME ip # NoIp, mac # NoMac PROVE IscSays(<<mac, ip>>)
    <3>1. PICK i \in DOMAIN file : Opened(i)
      BY <1>1, <2>1, IscReads DEF LeaseInv, BlockInv
    <3>2. IsBlock(i, at) /\ <<mac, ip>> = <<MacIn(i, at), file[i].ip>> /\ at \in DOMAIN file
      BY <1>1, <1>4, <1>5, <3>1, IscReads
    <3> QED
      BY <3>2 DEF IscSays
  <2> QED
    BY <1>1, <1>6, <2>1, IscReads, FileStays DEF LeaseInv, NothingMadeUp
<1> QED
  BY <1>1, <1>3, <1>7, <1>8, <1>9, IscReads DEF LeaseInv

(* At the end of the file nothing is open that counts any more.            *)
LEMMA EndStep == LeaseInv /\ EndOfFile => LeaseInv'
<1> SUFFICES ASSUME LeaseInv, EndOfFile PROVE LeaseInv'
  OBVIOUS
<1>1. /\ phase \in {"dnsmasq", "isc"} /\ phase' = "merge" /\ at \notin DOMAIN file
      /\ file' = file /\ at' = at /\ ip' = ip /\ mac' = mac /\ out' = out /\ inv' = inv
  BY DEF EndOfFile
<1>2. at' = Len(file)' + 1
  BY <1>1 DEF LeaseInv, LeaseTypeOK
<1>3. Pairs' = Pairs
  BY <1>1 DEF Pairs
<1>4. LeaseTypeOK' /\ PlaceInv'
  BY <1>1, <1>2 DEF LeaseInv, LeaseTypeOK, PlaceInv
<1>5. BlockInv' /\ FileIsBaseline'
  BY <1>1 DEF BlockInv, FileIsBaseline
<1>6. ReadInv' /\ NothingMadeUp'
  BY <1>1, <1>3, FileStays DEF LeaseInv, ReadInv, NothingMadeUp
<1> QED
  BY <1>4, <1>5, <1>6 DEF LeaseInv

(* The list becomes the orphans of a new inventory.                        *)
LEMMA MergeStep == LeaseInv /\ Merge => LeaseInv'
<1> SUFFICES ASSUME LeaseInv, Merge PROVE LeaseInv'
  OBVIOUS
<1> DEFINE leases == [m \in Macs |-> LastListed(m)]
<1>1. /\ phase = "merge" /\ phase' = "over"
      /\ file' = file /\ at' = at /\ ip' = ip /\ mac' = mac /\ out' = out
      /\ inv' = MergeLeaseFile(NewInventory, leases)
  BY DEF Merge, LeaseInv, PlaceInv
<1>2. Pairs' = Pairs
  BY <1>1 DEF Pairs
<1>3. leases \in [Macs -> Ips \cup {NoIp}]
  <2> SUFFICES ASSUME NEW m \in Macs PROVE LastListed(m) \in Ips \cup {NoIp}
    OBVIOUS
  <2> QED
    BY LastIsListed DEF LeaseInv, LeaseTypeOK
<1>4. /\ inv'.known = {} /\ inv'.lease_file_loaded = TRUE
      /\ inv'.hosts = [m \in Macs |-> NewHost]
      /\ inv'.orphan_leases = leases
      /\ inv' \in InventoryType
  <2> HIDE DEF leases
  <2>1. NewHost \in HostType
    BY DEF NewHost, HostType
  <2>2. inv' = [known |-> {}, hosts |-> [m \in Macs |-> NewHost],
                orphan_leases |-> [m \in Macs |-> IF leases[m] # NoIp THEN leases[m] ELSE NoIp],
                lease_file_loaded |-> TRUE]
    BY <1>1, <1>3 DEF MergeLeaseFile, NewInventory
  <2>3. [m \in Macs |-> IF leases[m] # NoIp THEN leases[m] ELSE NoIp] = leases
    BY <1>3
  <2> QED
    BY <1>3, <2>1, <2>2, <2>3 DEF InventoryType
<1>5. FileIsBaseline'
  <2>1. \A m \in Macs : leases[m] # NoIp => <<m, leases[m]>> \in Pairs
    BY LastIsListed DEF LeaseInv, LeaseTypeOK
  <2>2. \A m \in Macs : leases[m] # NoIp <=> m \in {p[1] : p \in Pairs}
    <3> SUFFICES ASSUME NEW m \in Macs PROVE leases[m] # NoIp <=> m \in {p[1] : p \in Pairs}
      OBVIOUS
    <3>1. Listed(m) # {} <=> m \in {p[1] : p \in Pairs}
      BY DEF Listed, Pairs
    <3> QED
      BY <3>1, LastIsListed, DissectAssumption DEF LeaseInv, LeaseTypeOK
  <2>3. \A p \in Pairs : p[1] \in Macs
    BY DEF Pairs, LeaseInv, LeaseTypeOK
  <2>4. {m \in Macs : leases[m] # NoIp} = {p[1] : p \in Pairs}
    <3> HIDE DEF leases
    <3> QED
      BY <2>2, <2>3
  <2> HIDE DEF leases
  <2> QED
    BY <1>1, <1>2, <1>4, <2>1, <2>4 DEF FileIsBaseline
<1>6. LeaseTypeOK' /\ PlaceInv'
  BY <1>1, <1>4 DEF LeaseInv, LeaseTypeOK, PlaceInv
<1>7. BlockInv'
  BY <1>1 DEF BlockInv
<1>8. ReadInv' /\ NothingMadeUp'
  BY <1>1, <1>2, FileStays DEF LeaseInv, ReadInv, NothingMadeUp
<1> QED
  BY <1>5, <1>6, <1>7, <1>8 DEF LeaseInv

(* Steps that change nothing.                                              *)
LEMMA IdleStep == LeaseInv /\ UNCHANGED leaseVars => LeaseInv'
<1> SUFFICES ASSUME LeaseInv, UNCHANGED leaseVars PROVE LeaseInv'
  OBVIOUS
<1>1. /\ file' = file /\ phase' = phase /\ at' = at /\ ip' = ip /\ mac' = mac
      /\ out' = out /\ inv' = inv
  BY DEF leaseVars, parserVars
<1>2. Pairs' = Pairs
  BY <1>1 DEF Pairs
<1>3. LeaseTypeOK' /\ PlaceInv' /\ FileIsBaseline'
  BY <1>1, <1>2, FileStays DEF LeaseInv, LeaseTypeOK, PlaceInv, FileIsBaseline
<1>4. BlockInv'
  BY <1>1 DEF LeaseInv, BlockInv, Opened, MacIn
<1>5. ReadInv' /\ NothingMadeUp'
  BY <1>1, <1>2, FileStays DEF LeaseInv, ReadInv, NothingMadeUp
<1> QED
  BY <1>3, <1>4, <1>5 DEF LeaseInv

(* Every step keeps the invariant.                                         *)
THEOREM LeaseStep == LeaseInv /\ [LeaseNext]_leaseVars => LeaseInv'
  BY DetectStep, DnsmasqStep, OpenStep, HardwareStep, OtherStep, CloseStep, EndStep,
     MergeStep, IdleStep DEF LeaseNext, LeaseFileStep, LeaseOver

(* So it holds at every line of every file.                                *)
THEOREM LeaseInvariant == LeaseSpec => []LeaseInv
  BY LeaseBegins, LeaseStep, PTL DEF LeaseSpec

(* The variables keep their types for every file.                          *)
THEOREM LeaseTypeCorrect == LeaseSpec => []LeaseTypeOK
<1>1. LeaseInv => LeaseTypeOK
  BY DEF LeaseInv
<1> QED
  BY <1>1, LeaseInvariant, PTL

(* dhcp.rs:211: no file, however long and however broken, makes the parser *)
(* put a lease together from two.                                          *)
THEOREM NothingMadeUpHolds == LeaseSpec => []NothingMadeUp
<1>1. LeaseInv => NothingMadeUp
  BY DEF LeaseInv
<1> QED
  BY <1>1, LeaseInvariant, PTL

(* dhcp.rs:168: no lease is lost of a file that is all of the format its   *)
(* first line is taken for, whatever other lines stand between.            *)
THEOREM NothingLostHolds == LeaseSpec => []NothingLost
<1>1. LeaseInv => NothingLost
  <2> SUFFICES ASSUME LeaseInv, phase = "over", NEW p \in Macs \X Ips,
                      \/ IsIsc /\ ~LooksDnsmasq /\ IscSays(p)
                      \/ IsDnsmasq /\ LooksDnsmasq /\ DnsmasqSays(p)
               PROVE  p \in Pairs
    BY DEF NothingLost
  <2>1. at = Len(file) + 1 /\ Len(file) \in Nat /\ DOMAIN file = 1 .. Len(file)
    BY DEF LeaseInv, PlaceInv, LeaseTypeOK
  <2>2. CASE IsIsc /\ ~LooksDnsmasq /\ IscSays(p)
    <3>1. PICK i, k \in DOMAIN file : IsBlock(i, k) /\ p = <<MacIn(i, k), file[i].ip>>
      BY <2>2 DEF IscSays
    <3> QED
      BY <2>1, <2>2, <3>1 DEF LeaseInv, ReadInv
  <2>3. CASE IsDnsmasq /\ LooksDnsmasq /\ DnsmasqSays(p)
    BY <2>1, <2>3 DEF LeaseInv, ReadInv, DnsmasqSays
  <2> QED
    BY <2>2, <2>3
<1> QED
  BY <1>1, LeaseInvariant, PTL

(* inventory.rs:157: after any file the inventory is one that was told.    *)
THEOREM FileIsBaselineHolds == LeaseSpec => []FileIsBaseline
<1>1. LeaseInv => FileIsBaseline
  BY DEF LeaseInv
<1> QED
  BY <1>1, LeaseInvariant, PTL

(* Any file is understood as it was written, and is a baseline.            *)
THEOREM LeasesAsWrittenHolds == LeaseSpec => []LeasesAsWritten
<1>1. NothingMadeUp /\ NothingLost /\ FileIsBaseline => LeasesAsWritten
  BY DEF LeasesAsWritten
<1> QED
  BY <1>1, NothingMadeUpHolds, NothingLostHolds, FileIsBaselineHolds, PTL

-----------------------------------------------------------------------------
(* Interfaces: the choice of the interface, by the command line and the    *)
(* form.                                                                   *)

(* What the subnets of the list and of the running scan have in common.    *)
CleanList  == \A e \in list : e.net \notin ApipaNets

(* Of a scan that runs: its sender can be formed, and it is on the         *)
(* interface that was named.                                               *)
ScanInv ==
    pc = "scan" => /\ ValidSpa(local)
                   /\ iface # None => local.name = iface

(* What the form's selector names was listed; it names nothing only if     *)
(* there was nothing to list.                                              *)
ChosenInv ==
    /\ pc = "form" => front = "tui"
    /\ front = "tui" /\ pc # "begin" /\ iface # None => \E e \in list : e.name = iface
    /\ front = "tui" /\ pc # "begin" /\ iface = None => Active(asRead) = {}

(* What is listed was there at the reading; the command line lists nothing. *)
ListInv ==
    /\ \A e \in list : \E k \in DOMAIN asRead : e = Entry(asRead[k])
    /\ front = "cli" => list = {}

(* The default is what the reading gave for the interface asked for; and   *)
(* what the scan found, if the machine was the same.                       *)
SaidOf(machine, name, net) ==
    /\ name # None => \E k \in DOMAIN machine : machine[k].name = name /\ net = SubnetOf(machine[k])
    /\ name = None /\ Resolve(machine, None) # None => net = Resolve(machine, None).net

DefaultInv ==
    /\ pc \in {"start", "scan"} /\ ~explicit => SaidOf(asRead, iface, baseline)
    /\ pc = "scan" /\ ~explicit /\ unchanged => baseline = local.net

IfaceInv ==
    /\ IfaceTypeOK
    /\ ChosenInv
    /\ ListInv
    /\ CleanList
    /\ NeverApipa
    /\ ScanInv
    /\ DefaultInv

-----------------------------------------------------------------------------
(* What is said of an interface's subnet.                                  *)
LEMMA SubnetClean ==
    ASSUME NEW i \in Interface
    PROVE  SubnetOf(i) \in Subnets \cup {None} /\ SubnetOf(i) \notin ApipaNets
<1>1. i.v4 \in Seq(Subnets)
  BY DEF Interface
<1>2. None \notin ApipaNets
  BY InterfacesAssumption
<1>3. CASE HasV4(i)
  <2>1. Head(i.v4) \in Subnets
    BY <1>1, <1>3 DEF HasV4
  <2> QED
    BY <1>2, <2>1 DEF SubnetOf
<1> QED
  BY <1>2, <1>3 DEF SubnetOf

LEMMA LocalClean ==
    ASSUME NEW i \in Interface
    PROVE  /\ LocalOf(i) \in LocalType /\ LocalOf(i).name = i.name
           /\ LocalOf(i).net \notin ApipaNets
<1>1. i.v4 \in Seq(Subnets) /\ i.name \in Names
  BY DEF Interface
<1>2. (IF HasV4(i) THEN Head(i.v4) ELSE None) \in Subnets \cup {None}
  BY <1>1 DEF HasV4
<1> QED
  BY <1>1, <1>2, SubnetClean DEF LocalOf, LocalType

(* The machine's interfaces, by their place.                               *)
LEMMA SystemIs ==
    ASSUME NEW machine \in Systems
    PROVE  \A k \in DOMAIN machine : k \in Nat /\ machine[k] \in Interface
<1>1. machine \in Seq(Interface)
  BY InterfacesAssumption
<1> QED
  BY <1>1

(* The first of some interfaces is one of them.                            *)
LEMMA FirstIsOne ==
    ASSUME NEW machine \in Systems, NEW ks \in SUBSET DOMAIN machine,
           FirstOf(machine, ks) # None
    PROVE  \E k \in ks : FirstOf(machine, ks) = LocalOf(machine[k])
<1>1. ks # {} /\ FirstOf(machine, ks) = LocalOf(machine[Foremost(ks)])
  BY DEF FirstOf
<1>2. ks \subseteq Nat
  BY SystemIs
<1>3. \E x \in ks : \A y \in ks : x <= y
  BY <1>1, <1>2, LeastNumber
<1>4. Foremost(ks) \in ks
  BY <1>3 DEF Foremost
<1> QED
  BY <1>1, <1>4

(* What is resolved is an interface of the machine, and the one named.     *)
LEMMA Resolved ==
    ASSUME NEW machine \in Systems, NEW name, Resolve(machine, name) # None
    PROVE  /\ \E k \in DOMAIN machine : /\ Resolve(machine, name) = LocalOf(machine[k])
                                        /\ name # None => machine[k].name = name
           /\ Resolve(machine, name) \in LocalType
           /\ Resolve(machine, name).net \notin ApipaNets
           /\ name # None => Resolve(machine, name).name = name
<1>1. \E k \in DOMAIN machine : /\ Resolve(machine, name) = LocalOf(machine[k])
                                /\ name # None => machine[k].name = name
  <2>1. CASE name # None
    <3>1. /\ Named(machine, name) \subseteq DOMAIN machine
          /\ \A k \in Named(machine, name) : machine[k].name = name
      BY DEF Named
    <3>2. Resolve(machine, name) = FirstOf(machine, Named(machine, name))
      BY <2>1 DEF Resolve
    <3> QED
      BY <3>1, <3>2, FirstIsOne
  <2>2. CASE name = None
    <3> DEFINE ks == IF ActiveWithV4(machine) # {} THEN ActiveWithV4(machine) ELSE Active(machine)
    <3>1. ks \subseteq DOMAIN machine
      BY DEF ActiveWithV4, Active
    <3>2. Resolve(machine, name) = FirstOf(machine, ks)
      BY <2>2 DEF Resolve
    <3> HIDE DEF ks
    <3> QED
      BY <2>2, <3>1, <3>2, FirstIsOne
  <2> QED
    BY <2>1, <2>2
<1>2. PICK k \in DOMAIN machine : /\ Resolve(machine, name) = LocalOf(machine[k])
                                  /\ name # None => machine[k].name = name
  BY <1>1
<1>3. machine[k] \in Interface
  BY SystemIs
<1> QED
  BY <1>1, <1>2, <1>3, LocalClean

(* What is resolved by name or without says of its subnet what the default *)
(* says,                                                                   *)
LEMMA ResolvedSays ==
    ASSUME NEW machine \in Systems, NEW name, Resolve(machine, name) # None
    PROVE  SaidOf(machine, name, Resolve(machine, name).net)
<1>1. PICK k \in DOMAIN machine : /\ Resolve(machine, name) = LocalOf(machine[k])
                                  /\ name # None => machine[k].name = name
  BY Resolved
<1>2. Resolve(machine, name).net = SubnetOf(machine[k])
  BY <1>1 DEF LocalOf
<1> QED
  BY <1>1, <1>2 DEF SaidOf

(* and what the default says of the same machine is its subnet: no two     *)
(* interfaces have one name.                                               *)
LEMMA SaysResolved ==
    ASSUME NEW machine \in Systems, NEW name, NEW net, SaidOf(machine, name, net),
           Resolve(machine, name) # None
    PROVE  net = Resolve(machine, name).net
<1>1. CASE name = None
  BY <1>1 DEF SaidOf
<1>2. CASE name # None
  <2>1. PICK k \in DOMAIN machine : machine[k].name = name /\ net = SubnetOf(machine[k])
    BY <1>2 DEF SaidOf
  <2>2. PICK j \in DOMAIN machine : Resolve(machine, name) = LocalOf(machine[j]) /\ machine[j].name = name
    BY <1>2, Resolved
  <2>3. j = k
    BY <2>1, <2>2, InterfacesAssumption
  <2> QED
    BY <2>1, <2>2, <2>3 DEF LocalOf
<1> QED
  BY <1>1, <1>2

(* The list shows subnets that are clean, each interface once by its name. *)
LEMMA ListIs ==
    ASSUME system \in Systems
    PROVE  /\ ListIfaces \subseteq [name : Names, net : Subnets \cup {None}]
           /\ \A e \in ListIfaces : e.net \notin ApipaNets
           /\ \A e \in ListIfaces : \E k \in DOMAIN system : e = Entry(system[k])
           /\ ListIfaces = {} => Active(system) = {}
<1>0. ListIfaces = {} => Active(system) = {}
  BY DEF ListIfaces, Active
<1> SUFFICES ASSUME NEW e \in ListIfaces
             PROVE  /\ e \in [name : Names, net : Subnets \cup {None}] /\ e.net \notin ApipaNets
                    /\ \E k \in DOMAIN system : e = Entry(system[k])
  BY <1>0
<1>1. PICK k \in DOMAIN system : e = Entry(system[k])
  BY DEF ListIfaces
<1>2. system[k] \in Interface
  BY SystemIs
<1>3. system[k].name \in Names
  BY <1>2 DEF Interface
<1> QED
  BY <1>1, <1>2, <1>3, SubnetClean DEF Entry

(* One entry stands first.                                                 *)
LEMMA TopIsOne ==
    ASSUME NEW entries \in SUBSET [name : Names, net : Subnets \cup {None}], entries # {}
    PROVE  Top(entries) \in entries
<1> DEFINE withNet == {e \in entries : e.net # None}
           best    == IF withNet # {} THEN withNet ELSE entries
           T       == {e.name : e \in best}
<1>1. best \subseteq entries /\ best # {}
  OBVIOUS
<1>2. \A e, f \in best : (e.net = None) = (f.net = None)
  OBVIOUS
<1>3. \A e \in best : \A f \in entries \ best : e.net # None /\ f.net = None
  <2>1. CASE withNet # {}
    BY <2>1, Zenon
  <2>2. CASE withNet = {}
    BY <2>2, Zenon
  <2> QED
    BY <2>1, <2>2
<1>4. T \in SUBSET Nat /\ T # {}
  <2>1. \A e \in entries : e.name \in Nat
    BY InterfacesAssumption
  <2> HIDE DEF best
  <2> QED
    BY <1>1, <2>1
<1>5. PICK x \in T : \A y \in T : x <= y
  <2> HIDE DEF T
  <2> QED
    BY <1>4, LeastNumber
<1>6. PICK e \in best : e.name = x
  BY <1>5
<1>7. \A f \in entries : NotAfter(e, f)
  <2> SUFFICES ASSUME NEW f \in entries PROVE NotAfter(e, f)
    OBVIOUS
  <2>1. CASE f \in best
    <3>1. f.name \in T
      BY <2>1
    <3>2. e.name <= f.name
      BY <1>5, <1>6, <3>1
    <3>3. (e.net = None) = (f.net = None)
      BY <1>2, <2>1
    <3> QED
      BY <3>2, <3>3 DEF NotAfter
  <2>2. CASE f \notin best
    BY <1>3, <2>2 DEF NotAfter
  <2> QED
    BY <2>1, <2>2
<1> QED
  BY <1>1, <1>7 DEF Top

-----------------------------------------------------------------------------
(* At first nothing is known of any interface.                             *)
THEOREM IfaceBegins == IfaceInit => IfaceInv
<1> SUFFICES ASSUME IfaceInit PROVE IfaceInv
  OBVIOUS
<1>1. None \notin ApipaNets
  BY InterfacesAssumption
<1>2. /\ system \in Systems /\ front \in Fronts /\ spa \in Modes /\ explicit \in BOOLEAN
      /\ list = {} /\ pc = "begin" /\ baseline = None /\ local = None
      /\ iface \in Names \cup {None} /\ asRead = <<>> /\ unchanged = FALSE
  BY DEF IfaceInit
<1>3. IfaceTypeOK
  BY <1>2 DEF IfaceTypeOK
<1> QED
  BY <1>1, <1>2, <1>3 DEF IfaceInv, ChosenInv, ListInv, CleanList, NeverApipa, ScanInv, DefaultInv

(* The steps of the machine and of the two front ends, one by one.         *)
LEMMA SystemStep == IfaceInv /\ SystemChanges => IfaceInv'
  BY DEF IfaceInv, SystemChanges, IfaceTypeOK, ChosenInv, ListInv, CleanList, NeverApipa, ScanInv,
         DefaultInv, ValidSpa, historyVars

LEMMA BaselineStep == IfaceInv /\ CliBaseline => IfaceInv'
<1> SUFFICES ASSUME IfaceInv, CliBaseline PROVE IfaceInv'
  OBVIOUS
<1>0. /\ pc = "begin" /\ pc' \in {"start", "failed"} /\ front = "cli" /\ system \in Systems
      /\ UNCHANGED <<system, front, iface, spa, explicit, list, local, unchanged>>
      /\ asRead' \in Systems \cup {<<>>} /\ local = None /\ list = {}
  BY DEF CliBaseline, IfaceInv, IfaceTypeOK, ListInv
<1>1. baseline' = baseline \/ (Resolve(system, iface) # None /\ baseline' = Resolve(system, iface).net)
  BY DEF CliBaseline
<1>2. baseline' \in Subnets \cup {None} /\ baseline' \notin ApipaNets
  BY <1>0, <1>1, Resolved DEF IfaceInv, IfaceTypeOK, NeverApipa, LocalType
<1>3. pc' = "start" /\ ~explicit' => SaidOf(asRead, iface, baseline)'
  <2> SUFFICES ASSUME pc' = "start", ~explicit PROVE SaidOf(asRead', iface, baseline')
    BY <1>0
  <2>1. Resolve(system, iface) # None /\ baseline' = Resolve(system, iface).net /\ asRead' = system
    BY DEF CliBaseline
  <2> QED
    BY <1>0, <2>1, ResolvedSays
<1>4. IfaceTypeOK' /\ DefaultInv'
  BY <1>0, <1>2, <1>3 DEF IfaceInv, IfaceTypeOK, DefaultInv
<1> QED
  BY <1>0, <1>2, <1>4 DEF IfaceInv, ChosenInv, ListInv, CleanList, NeverApipa, ScanInv

LEMMA OpensStep == IfaceInv /\ TuiOpens => IfaceInv'
<1> SUFFICES ASSUME IfaceInv, TuiOpens PROVE IfaceInv'
  OBVIOUS
<1>1. system \in Systems /\ list' = ListIfaces /\ asRead' = system
  BY DEF IfaceInv, IfaceTypeOK, TuiOpens
<1>2. /\ list' \subseteq [name : Names, net : Subnets \cup {None}]
      /\ \A e \in list' : e.net \notin ApipaNets
  BY <1>1, ListIs
<1>3. iface' \in Names \cup {None} /\ (iface' # None => \E e \in list' : e.name = iface')
  <2>1. iface' = IF list' = {} THEN None ELSE Top(list').name
    BY DEF TuiOpens
  <2>2. list' # {} => Top(list') \in list'
    BY <1>2, TopIsOne
  <2> QED
    BY <1>2, <2>1, <2>2
<1>4. iface' = None => list' = {}
  <2>1. list' # {} => iface' = Top(list').name /\ Top(list') \in list'
    BY <1>2, TopIsOne DEF TuiOpens
  <2> QED
    BY <1>2, <2>1, InterfacesAssumption
<1>5. /\ \A e \in list' : \E k \in DOMAIN asRead' : e = Entry(asRead'[k])
      /\ iface' = None => Active(asRead') = {}
  BY <1>1, <1>4, ListIs
<1>6. /\ pc' = "form" /\ front' = "tui" /\ front = "tui" /\ local = None
      /\ UNCHANGED <<system, front, spa, explicit, baseline, local, unchanged>>
  BY DEF TuiOpens, IfaceInv, IfaceTypeOK
<1>7. IfaceTypeOK'
  BY <1>1, <1>2, <1>3, <1>6 DEF IfaceInv, IfaceTypeOK
<1> QED
  BY <1>2, <1>3, <1>5, <1>6, <1>7 DEF IfaceInv, ChosenInv, ListInv, CleanList, NeverApipa, ScanInv,
                                      DefaultInv

LEMMA ChoosesStep == IfaceInv /\ TuiChooses => IfaceInv'
<1> SUFFICES ASSUME IfaceInv, TuiChooses PROVE IfaceInv'
  OBVIOUS
<1>1. /\ pc = "form" /\ pc' = "form"
      /\ UNCHANGED <<system, front, list, baseline, local, asRead, unchanged>>
  BY DEF TuiChooses, historyVars
<1>2. iface' \in Names \cup {None} /\ spa' \in Modes /\ explicit' \in BOOLEAN
  BY DEF IfaceInv, IfaceTypeOK, TuiChooses
<1>3. iface' = iface \/ \E e \in list' : e.name = iface'
  BY DEF TuiChooses
<1>4. \A e \in list : e.name # None
  BY InterfacesAssumption DEF IfaceInv, IfaceTypeOK
<1>5. ChosenInv'
  BY <1>1, <1>3, <1>4 DEF IfaceInv, ChosenInv
<1>6. IfaceTypeOK'
  BY <1>1, <1>2 DEF IfaceInv, IfaceTypeOK
<1> QED
  BY <1>1, <1>5, <1>6 DEF IfaceInv, ListInv, CleanList, NeverApipa, ScanInv, DefaultInv

LEMMA LaunchesStep == IfaceInv /\ TuiLaunches => IfaceInv'
<1> SUFFICES ASSUME IfaceInv, TuiLaunches PROVE IfaceInv'
  OBVIOUS
<1>1. /\ pc = "form" /\ front = "tui" /\ pc' = "start"
      /\ UNCHANGED <<system, front, iface, spa, explicit, list, local, asRead, unchanged>>
  BY DEF IfaceInv, ChosenInv, TuiLaunches, historyVars
<1>2. ~explicit /\ iface # None => /\ ListedAs(iface) \in list /\ ListedAs(iface).name = iface
                                   /\ baseline' = ListedAs(iface).net
  <2> SUFFICES ASSUME ~explicit, iface # None
               PROVE  /\ ListedAs(iface) \in list /\ ListedAs(iface).name = iface
                      /\ baseline' = ListedAs(iface).net
    OBVIOUS
  <2>1. \E e \in list : e.name = iface
    BY <1>1 DEF IfaceInv, ChosenInv
  <2> QED
    BY <2>1 DEF ListedAs, TuiLaunches
<1>3. baseline' \in Subnets \cup {None} /\ baseline' \notin ApipaNets
  <2>1. None \notin ApipaNets
    BY InterfacesAssumption
  <2>2. CASE explicit \/ iface = None
    BY <2>1, <2>2 DEF TuiLaunches
  <2>3. CASE ~explicit /\ iface # None
    BY <1>2, <2>3 DEF IfaceInv, IfaceTypeOK, CleanList
  <2> QED
    BY <2>2, <2>3
<1>4. ~explicit => SaidOf(asRead, iface, baseline')
  <2>1. CASE ~explicit /\ iface # None
    <3>1. PICK k \in DOMAIN asRead : ListedAs(iface) = Entry(asRead[k])
      BY <1>2, <2>1 DEF IfaceInv, ListInv
    <3>2. asRead[k].name = iface /\ baseline' = SubnetOf(asRead[k])
      BY <1>2, <2>1, <3>1 DEF Entry
    <3> QED
      BY <2>1, <3>2 DEF SaidOf
  <2>2. CASE iface = None
    <3>1. Active(asRead) = {}
      BY <1>1, <2>2 DEF IfaceInv, ChosenInv
    <3>2. Resolve(asRead, None) = None
      BY <3>1 DEF Resolve, ActiveWithV4, FirstOf
    <3> QED
      BY <2>2, <3>2 DEF SaidOf
  <2> QED
    BY <2>1, <2>2
<1>5. IfaceTypeOK'
  BY <1>1, <1>3 DEF IfaceInv, IfaceTypeOK
<1> QED
  BY <1>1, <1>3, <1>4, <1>5 DEF IfaceInv, ChosenInv, ListInv, CleanList, NeverApipa, ScanInv,
                                DefaultInv

LEMMA StartStep == IfaceInv /\ Start => IfaceInv'
<1> SUFFICES ASSUME IfaceInv, Start PROVE IfaceInv'
  OBVIOUS
<1>1. /\ pc = "start" /\ system \in Systems /\ local = None
      /\ UNCHANGED <<system, front, iface, spa, explicit, list, baseline, asRead>>
  BY DEF IfaceInv, IfaceTypeOK, Start
<1>2. CASE /\ pc' = (IF front = "cli" THEN "failed" ELSE "form") /\ local' = local
           /\ unchanged' = unchanged
  <2>1. front \in {"cli", "tui"} /\ pc' # "scan" /\ pc' # "start" /\ (pc' = "form" => front = "tui")
    BY <1>2, InterfacesAssumption DEF IfaceInv, IfaceTypeOK
  <2>2. IfaceTypeOK'
    BY <1>1, <1>2, <2>1 DEF IfaceInv, IfaceTypeOK
  <2> QED
    BY <1>1, <1>2, <2>1, <2>2 DEF IfaceInv, ChosenInv, ListInv, CleanList, NeverApipa, ScanInv,
                                  DefaultInv
<1>3. CASE /\ Resolve(system, iface) # None /\ ValidSpa(Resolve(system, iface))
           /\ pc' = "scan" /\ local' = Resolve(system, iface) /\ unchanged' = (system = asRead)
  <2>1. /\ local' \in LocalType /\ local'.net \notin ApipaNets
        /\ iface # None => local'.name = iface
    BY <1>1, <1>3, Resolved
  <2>2. ValidSpa(local)'
    BY <1>1, <1>3 DEF ValidSpa
  <2>3. ~explicit /\ unchanged' => baseline = local'.net
    <3> SUFFICES ASSUME ~explicit, system = asRead PROVE baseline = local'.net
      BY <1>3
    <3>1. SaidOf(system, iface, baseline)
      BY <1>1 DEF IfaceInv, DefaultInv
    <3> QED
      BY <1>1, <1>3, <3>1, SaysResolved
  <2>4. DefaultInv'
    BY <1>1, <1>3, <2>3 DEF IfaceInv, DefaultInv
  <2>5. unchanged' \in BOOLEAN
    BY <1>3
  <2>6. IfaceTypeOK'
    BY <1>1, <1>3, <2>1, <2>5 DEF IfaceInv, IfaceTypeOK
  <2> QED
    BY <1>1, <1>3, <2>1, <2>2, <2>4, <2>6 DEF IfaceInv, ChosenInv, ListInv, CleanList, NeverApipa,
                                              ScanInv
<1> QED
  BY <1>2, <1>3 DEF Start

LEMMA OverStep == IfaceInv /\ ScanOver => IfaceInv'
<1> SUFFICES ASSUME IfaceInv, ScanOver PROVE IfaceInv'
  OBVIOUS
<1>1. front \in {"cli", "tui"} /\ None \notin ApipaNets
  BY InterfacesAssumption DEF IfaceInv, IfaceTypeOK
<1>2. /\ pc = "scan" /\ pc' = (IF front = "cli" THEN "failed" ELSE "form")
      /\ local' = None /\ baseline' = None /\ unchanged' = FALSE
      /\ UNCHANGED <<system, front, iface, spa, explicit, list, asRead>>
  BY DEF ScanOver
<1>3. IfaceTypeOK'
  BY <1>1, <1>2 DEF IfaceInv, IfaceTypeOK
<1> QED
  BY <1>1, <1>2, <1>3 DEF IfaceInv, ChosenInv, ListInv, CleanList, NeverApipa, ScanInv, DefaultInv

(* No step of the machine, the user or the program breaks the invariant.   *)
THEOREM IfaceStep == IfaceInv /\ [IfaceNext]_ifaceVars => IfaceInv'
<1> SUFFICES ASSUME IfaceInv, [IfaceNext]_ifaceVars PROVE IfaceInv'
  OBVIOUS
<1>1. CASE UNCHANGED ifaceVars
  BY <1>1 DEF ifaceVars, historyVars, IfaceInv, IfaceTypeOK, ChosenInv, ListInv, CleanList,
              NeverApipa, ScanInv, DefaultInv, ValidSpa
<1> QED
  BY <1>1, SystemStep, BaselineStep, OpensStep, ChoosesStep, LaunchesStep, StartStep, OverStep
     DEF IfaceNext

(* The invariant, along every run.                                         *)
THEOREM IfaceInvariant == IfaceSpec => []IfaceInv
  BY IfaceBegins, IfaceStep, PTL DEF IfaceSpec

(* Types of what the program knows of the interfaces.                      *)
THEOREM IfaceTypeCorrect == IfaceSpec => []IfaceTypeOK
<1>1. IfaceInv => IfaceTypeOK
  BY DEF IfaceInv
<1> QED
  BY <1>1, IfaceInvariant, PTL

(* A running scan that is to send from our own address has one to send     *)
(* from, whatever the interface lost before (Spa::for_target and           *)
(* validate_spa).                                                          *)
THEOREM LocalSenderIsOursHolds == IfaceSpec => []LocalSenderIsOurs
<1>1. IfaceInv => LocalSenderIsOurs
  <2> SUFFICES ASSUME IfaceInv, pc = "scan", NEW t \in Targets
               PROVE  SenderFor(t) = "unspecified" <=> spa = "Probe"
    BY DEF LocalSenderIsOurs
  <2>1. spa \in Modes /\ (spa = "Local" => local.ipv4 # None) /\ t # "unspecified"
    BY DEF IfaceInv, IfaceTypeOK, ScanInv, ValidSpa, Targets
  <2> QED
    BY <2>1 DEF SenderFor, Modes
<1> QED
  BY <1>1, IfaceInvariant, PTL

(* An address the system gave itself is neither a baseline nor swept, in   *)
(* either front end.                                                       *)
THEOREM NeverApipaHolds == IfaceSpec => []NeverApipa
<1>1. IfaceInv => NeverApipa
  BY DEF IfaceInv
<1> QED
  BY <1>1, IfaceInvariant, PTL

(* A scan runs on the interface that was named, or does not run.           *)
THEOREM RunsOnTheNamedHolds == IfaceSpec => []RunsOnTheNamed
<1>1. IfaceInv => RunsOnTheNamed
  BY DEF IfaceInv, ScanInv, RunsOnTheNamed
<1> QED
  BY <1>1, IfaceInvariant, PTL

(* cli.rs:20: the default of what is legitimate is the subnet of the very  *)
(* interface that was named, as it was read, and that of the scan if the   *)
(* machine has not changed since.                                          *)
THEOREM DefaultIsItsSubnetHolds == IfaceSpec => []DefaultIsItsSubnet
<1>1. IfaceInv => DefaultIsItsSubnet
  BY DEF IfaceInv, ScanInv, DefaultInv, SaidOf, DefaultIsItsSubnet
<1> QED
  BY <1>1, IfaceInvariant, PTL

(* Whatever becomes of the interfaces, a scan runs on the interface and    *)
(* with the sender it was asked to use and judges by the default it was    *)
(* asked for, or it does not run.                                          *)
THEOREM ScanAsAskedHolds == IfaceSpec => []ScanAsAsked
<1>1. RunsOnTheNamed /\ LocalSenderIsOurs /\ NeverApipa /\ DefaultIsItsSubnet => ScanAsAsked
  BY DEF ScanAsAsked
<1> QED
  BY <1>1, RunsOnTheNamedHolds, LocalSenderIsOursHolds, NeverApipaHolds, DefaultIsItsSubnetHolds,
     PTL

-----------------------------------------------------------------------------
(* Vendor: the table of prefixes.                                          *)

(* Line k is the first with its prefix.                                    *)
IsFirst(k) ==
    /\ k \in DOMAIN OuiLines
    /\ \A j \in 1 .. k - 1 : OuiLines[j].prefix # OuiLines[k].prefix

(* A prefix has the vendor of the first line it occurs in, as far as the   *)
(* lines are read; the lengths are those of the whole table.               *)
TableInv ==
    /\ VendorTypeOK
    /\ \A p \in Ouis :
          IF table[p] = NoVendor
          THEN \A j \in 1 .. oui_at - 1 : OuiLines[j].prefix # p
          ELSE \E k \in 1 .. oui_at - 1 :
                  IsFirst(k) /\ OuiLines[k].prefix = p /\ OuiLines[k].vendor = table[p]
    /\ DOMAIN lens \subseteq Nat
    /\ \A i \in DOMAIN lens : lens[i] \in Lengths
    /\ lens # <<>> => oui_at = Len(OuiLines) + 1 /\ \A l \in Lengths : \E i \in DOMAIN lens : lens[i] = l

LEMMA OuiLinesAre ==
    ASSUME oui_file \in OuiFiles
    PROVE  /\ OuiLines \in Seq(OuiLine) /\ Len(OuiLines) \in Nat
           /\ DOMAIN OuiLines = 1 .. Len(OuiLines)
           /\ \A k \in DOMAIN OuiLines :
                 OuiLines[k].prefix \in Ouis /\ OuiLines[k].vendor \in Vendors
           /\ \A k \in DOMAIN OuiLines : k <= Len(Builtin) =>
                 k \in DOMAIN Builtin /\ OuiLines[k] = Builtin[k]
<1>1. Builtin \in Seq(OuiLine) /\ oui_file \in Seq(OuiLine)
  BY VendorAssumption
<1>2. OuiLines \in Seq(OuiLine)
  BY <1>1 DEF OuiLines
<1>3. \A k \in DOMAIN OuiLines : OuiLines[k] \in OuiLine
  BY <1>2
<1>4. \A k \in DOMAIN OuiLines : k <= Len(Builtin) => k \in DOMAIN Builtin /\ OuiLines[k] = Builtin[k]
  BY <1>1 DEF OuiLines
<1> QED
  BY <1>2, <1>3, <1>4 DEF OuiLine

LEMMA FirstIs ==
    ASSUME oui_file \in OuiFiles, NEW k, IsFirst(k)
    PROVE  FirstSays(OuiLines[k].prefix) = OuiLines[k].vendor
<1> DEFINE p == OuiLines[k].prefix
           Is(n) == n \in DOMAIN OuiLines /\ OuiLines[n].prefix = p
                       /\ \A j \in 1 .. n - 1 : OuiLines[j].prefix # p
           c == CHOOSE n \in DOMAIN OuiLines : OuiLines[n].prefix = p
                        /\ \A j \in 1 .. n - 1 : OuiLines[j].prefix # p
<1>1. DOMAIN OuiLines = 1 .. Len(OuiLines) /\ Len(OuiLines) \in Nat
  BY OuiLinesAre
<1>2. Is(k)
  BY DEF IsFirst
<1>3. Is(c)
  BY <1>2, Zenon
<1> HIDE DEF c
<1>4. c = k
  <2>1. c \in Nat /\ k \in Nat /\ c >= 1 /\ k >= 1
    BY <1>1, <1>2, <1>3
  <2>2. CASE c < k
    <3>1. c \in 1 .. k - 1
      BY <2>1, <2>2
    <3> QED
      BY <1>2, <1>3, <3>1
  <2>3. CASE k < c
    <3>1. k \in 1 .. c - 1
      BY <2>1, <2>3
    <3> QED
      BY <1>2, <1>3, <3>1
  <2> QED
    BY <2>1, <2>2, <2>3
<1> QED
  BY <1>4 DEF FirstSays, c

LEMMA TableBegins == VendorInit => TableInv
<1> SUFFICES ASSUME VendorInit PROVE TableInv
  OBVIOUS
<1>1. Len(OuiLines) \in Nat
  BY OuiLinesAre DEF VendorInit
<1>2. VendorTypeOK
  BY <1>1 DEF VendorInit, VendorTypeOK, Falling
<1> QED
  BY <1>2 DEF VendorInit, TableInv

(* What does not change as long as the file does not.                      *)
LEMMA SameFile ==
    ASSUME oui_file' = oui_file
    PROVE  OuiLines' = OuiLines /\ \A k : IsFirst(k)' <=> IsFirst(k)
<1>1. OuiLines' = OuiLines
  BY DEF OuiLines
<1> QED
  BY <1>1 DEF IsFirst

(* A line that is read, if only a new prefix gets its vendor.              *)
LEMMA LineRead ==
    ASSUME TableInv, oui_at \in DOMAIN OuiLines, oui_at' = oui_at + 1,
           UNCHANGED <<oui_file, lens>>,
           NEW p, p = OuiLines[oui_at].prefix,
           table' = [table EXCEPT ![p] = IF table[p] = NoVendor THEN OuiLines[oui_at].vendor
                                         ELSE table[p]]
    PROVE  TableInv'
<1>1. /\ oui_file \in OuiFiles /\ oui_at \in Nat /\ oui_at >= 1 /\ oui_at <= Len(OuiLines)
      /\ table \in [Ouis -> Vendors \cup {NoVendor}]
      /\ Len(OuiLines) \in Nat /\ DOMAIN OuiLines = 1 .. Len(OuiLines)
      /\ p \in Ouis /\ OuiLines[oui_at].vendor \in Vendors
      /\ lens = <<>>
  BY OuiLinesAre DEF TableInv, VendorTypeOK
<1>2. \A q \in Ouis : IF table[q] = NoVendor
          THEN \A j \in 1 .. oui_at - 1 : OuiLines[j].prefix # q
          ELSE \E k \in 1 .. oui_at - 1 :
                  IsFirst(k) /\ OuiLines[k].prefix = q /\ OuiLines[k].vendor = table[q]
  BY DEF TableInv
<1>3. table' \in [Ouis -> Vendors \cup {NoVendor}]
  BY <1>1
<1>4. VendorTypeOK'
  BY <1>1, <1>3, SameFile DEF VendorTypeOK, TableInv
<1>5. /\ \A j : j \in 1 .. oui_at' - 1 <=> j \in 1 .. oui_at - 1 \/ j = oui_at
      /\ oui_at \in 1 .. oui_at' - 1
  BY <1>1
<1>6. NoVendor \notin Vendors
  BY VendorAssumption
<1>7. ASSUME NEW q \in Ouis
      PROVE  IF table'[q] = NoVendor
             THEN \A j \in 1 .. oui_at' - 1 : OuiLines[j].prefix # q
             ELSE \E k \in 1 .. oui_at' - 1 :
                     IsFirst(k) /\ OuiLines[k].prefix = q /\ OuiLines[k].vendor = table'[q]
  <2>1. CASE q # p
    <3>1. table'[q] = table[q]
      BY <1>1, <2>1
    <3> QED
      BY <1>2, <1>5, <2>1, <3>1
  <2>2. CASE q = p /\ table[p] # NoVendor
    <3>1. table'[q] = table[q]
      BY <1>1, <2>2
    <3> QED
      BY <1>2, <1>5, <2>2, <3>1
  <2>3. CASE q = p /\ table[p] = NoVendor
    <3>1. table'[q] = OuiLines[oui_at].vendor /\ table'[q] # NoVendor
      BY <1>1, <1>6, <2>3
    <3>2. IsFirst(oui_at)
      BY <1>2, <2>3 DEF IsFirst
    <3> QED
      BY <1>5, <2>3, <3>1, <3>2
  <2> QED
    BY <2>1, <2>2, <2>3
<1>8. lens' = <<>>
  BY <1>1
<1> QED
  BY <1>4, <1>7, <1>8, SameFile DEF TableInv

(* What is built in replaces what was there, but no prefix is built in     *)
(* twice.                                                                  *)
LEMMA BuiltinStep == TableInv /\ InsertBuiltin => TableInv'
<1> SUFFICES ASSUME TableInv, InsertBuiltin PROVE TableInv'
  OBVIOUS
<1> DEFINE p == OuiLines[oui_at].prefix
<1>1. /\ oui_at \in DOMAIN OuiLines /\ oui_at <= Len(Builtin)
      /\ oui_at' = oui_at + 1 /\ UNCHANGED <<oui_file, lens>>
      /\ table' = [table EXCEPT ![p] = OuiLines[oui_at].vendor]
      /\ oui_file \in OuiFiles /\ oui_at \in Nat
  BY DEF InsertBuiltin, FromFile, TableInv, VendorTypeOK
<1>2. table[p] = NoVendor
  <2> SUFFICES ASSUME table[p] # NoVendor PROVE FALSE
    OBVIOUS
  <2>1. p \in Ouis
    BY <1>1, OuiLinesAre
  <2>2. PICK k \in 1 .. oui_at - 1 : IsFirst(k) /\ OuiLines[k].prefix = p
    BY <2>1 DEF TableInv
  <2>3. k \in DOMAIN OuiLines /\ k <= Len(Builtin) /\ k # oui_at
    BY <1>1, <2>2, VendorAssumption DEF IsFirst
  <2>4. /\ k \in DOMAIN Builtin /\ OuiLines[k] = Builtin[k]
        /\ oui_at \in DOMAIN Builtin /\ OuiLines[oui_at] = Builtin[oui_at]
    BY <1>1, <2>3, OuiLinesAre
  <2> QED
    BY <2>2, <2>3, <2>4, VendorAssumption
<1> HIDE DEF p
<1>3. table' = [table EXCEPT ![p] = IF table[p] = NoVendor THEN OuiLines[oui_at].vendor
                                    ELSE table[p]]
  BY <1>1, <1>2
<1> QED
  BY <1>1, <1>3, LineRead DEF p

LEMMA LineStep == TableInv /\ InsertLine => TableInv'
<1> SUFFICES ASSUME TableInv, InsertLine PROVE TableInv'
  OBVIOUS
<1> DEFINE p == OuiLines[oui_at].prefix
<1>1. /\ oui_at \in DOMAIN OuiLines
      /\ oui_at' = oui_at + 1 /\ UNCHANGED <<oui_file, lens>>
      /\ table' = [table EXCEPT ![p] = IF table[p] = NoVendor THEN OuiLines[oui_at].vendor
                                       ELSE table[p]]
  BY DEF InsertLine
<1> HIDE DEF p
<1> QED
  BY <1>1, LineRead DEF p

LEMMA SortStep == TableInv /\ SortLengths => TableInv'
<1> SUFFICES ASSUME TableInv, SortLengths PROVE TableInv'
  OBVIOUS
<1>1. /\ UNCHANGED <<oui_file, oui_at, table>> /\ oui_at = Len(OuiLines) + 1
      /\ OuiLines' = OuiLines /\ Lengths' = Lengths
  BY SameFile DEF SortLengths, Lengths
<1>2. PICK n \in 0 .. Len(OuiLines) :
         lens' \in [1 .. n -> Lengths] /\ Range(lens') = Lengths /\ Falling(lens')
  BY DEF SortLengths
<1>3. n \in Nat
  BY OuiLinesAre DEF TableInv, VendorTypeOK
<1>4. /\ DOMAIN lens' \subseteq Nat
      /\ \A i \in DOMAIN lens' : lens'[i] \in Lengths
      /\ \A l \in Lengths : \E i \in DOMAIN lens' : lens'[i] = l
  BY <1>2, <1>3 DEF Range
<1>5. VendorTypeOK'
  BY <1>1, <1>2 DEF TableInv, VendorTypeOK, Falling
<1>6. \A k : IsFirst(k)' <=> IsFirst(k)
  BY <1>1, SameFile
<1> QED
  BY <1>1, <1>4, <1>5, <1>6 DEF TableInv

LEMMA VendorIdle == TableInv /\ UNCHANGED vendorVars => TableInv'
<1> SUFFICES ASSUME TableInv, UNCHANGED vendorVars PROVE TableInv'
  OBVIOUS
<1>1. UNCHANGED <<oui_file, oui_at, table, lens>>
  BY DEF vendorVars
<1>2. OuiLines' = OuiLines /\ \A k : IsFirst(k)' <=> IsFirst(k)
  BY <1>1, SameFile
<1>3. Lengths' = Lengths /\ (VendorTypeOK' <=> VendorTypeOK)
  BY <1>1, <1>2 DEF Lengths, VendorTypeOK, Falling
<1> QED
  BY <1>1, <1>2, <1>3 DEF TableInv

(* The table's invariant, along every run.                                 *)
THEOREM TableInvariant == VendorSpec => []TableInv
<1>1. TableInv /\ [VendorNext]_vendorVars => TableInv'
  BY BuiltinStep, LineStep, SortStep, VendorIdle DEF VendorNext, Loaded
<1> QED
  BY <1>1, TableBegins, PTL DEF VendorSpec

(* A line fits a MAC if and only if its prefix is what the MAC opens with. *)
LEMMA FitsIs ==
    ASSUME oui_file \in OuiFiles, NEW adr \in Addresses, NEW j
    PROVE  j \in Fitting(adr) <=>
              /\ j \in DOMAIN OuiLines
              /\ Len(OuiLines[j].prefix) <= MacDigits
              /\ OuiLines[j].prefix = SubSeq(adr, 1, Len(OuiLines[j].prefix))
<1>1. CASE j \notin DOMAIN OuiLines
  BY <1>1 DEF Fitting
<1>2. CASE j \in DOMAIN OuiLines
  <2> DEFINE p == OuiLines[j].prefix
  <2>1. p \in Seq(Digits) /\ adr \in Seq(Digits) /\ Len(adr) = MacDigits
    <3>1. MacDigits \in Nat /\ adr \in [1 .. MacDigits -> Digits]
      BY VendorAssumption
    <3>2. adr \in Seq(Digits) /\ Len(adr) = MacDigits
      BY <3>1
    <3>3. p \in Seq(Digits)
      BY <1>2, OuiLinesAre, VendorAssumption
    <3> QED
      BY <3>2, <3>3
  <2> HIDE DEF p
  <2>2. SubSeq(p, 1, Len(p)) = p
    BY <2>1
  <2>3. IsPrefix(p, adr) <=> Len(p) <= MacDigits /\ p = SubSeq(adr, 1, Len(p))
    BY <2>1, <2>2 DEF IsPrefix
  <2> QED
    BY <1>2, <2>3 DEF Fitting, p
<1> QED
  BY <1>1, <1>2

(* Once everything is read, a prefix has a vendor if and only if a line    *)
(* has it, and it is the vendor of the first of these.                     *)
LEMMA TableIs ==
    ASSUME TableInv, oui_at = Len(OuiLines) + 1, NEW p \in Ouis
    PROVE  /\ table[p] # NoVendor <=> \E j \in DOMAIN OuiLines : OuiLines[j].prefix = p
           /\ table[p] # NoVendor => FirstSays(p) = table[p]
<1>1. /\ oui_file \in OuiFiles
      /\ DOMAIN OuiLines = 1 .. oui_at - 1
  BY OuiLinesAre DEF TableInv, VendorTypeOK
<1>2. CASE table[p] = NoVendor
  BY <1>1, <1>2 DEF TableInv
<1>3. CASE table[p] # NoVendor
  <2>1. PICK k \in 1 .. oui_at - 1 :
           IsFirst(k) /\ OuiLines[k].prefix = p /\ OuiLines[k].vendor = table[p]
    BY <1>3 DEF TableInv
  <2> QED
    BY <1>1, <1>3, <2>1, FirstIs
<1> QED
  BY <1>2, <1>3

(* oui.rs:27, 58: whatever lines the file holds, a MAC has the vendor of   *)
(* the longest prefix that fits it, from the first line with that prefix.  *)
LEMMA NamesLongest ==
    ASSUME TableInv, lens # <<>>, NEW adr \in Addresses
    PROVE  Lookup(adr) = IF Fitting(adr) = {} THEN NoVendor
                         ELSE LET k == CHOOSE k \in Fitting(adr) : \A j \in Fitting(adr) :
                                           Len(OuiLines[j].prefix) <= Len(OuiLines[k].prefix)
                              IN FirstSays(OuiLines[k].prefix)
<1> DEFINE Opening(i) == SubSeq(adr, 1, lens[i])
           hits == {i \in DOMAIN lens : /\ lens[i] <= MacDigits
                                        /\ Opening(i) \in Ouis /\ table[Opening(i)] # NoVendor}
           Longest(k) == \A j \in Fitting(adr) :
                            Len(OuiLines[j].prefix) <= Len(OuiLines[k].prefix)
           least == CHOOSE i \in hits : \A j \in hits : i <= j
           longest == CHOOSE k \in Fitting(adr) : Longest(k)
<1>1. /\ oui_file \in OuiFiles /\ oui_at = Len(OuiLines) + 1
      /\ DOMAIN lens \subseteq Nat
      /\ \A l \in Lengths : \E i \in DOMAIN lens : lens[i] = l
      /\ \A i \in DOMAIN lens : lens[i] \in Lengths
      /\ \A i, j \in DOMAIN lens : i < j => lens[i] > lens[j]
  BY DEF TableInv, VendorTypeOK, Falling
<1>2. /\ \A p \in Ouis : p \in Seq(Digits) /\ Len(p) \in Nat
      /\ MacDigits \in Nat /\ adr \in Seq(Digits) /\ Len(adr) = MacDigits
      /\ \A k \in DOMAIN OuiLines : OuiLines[k].prefix \in Ouis
  <2>1. MacDigits \in Nat /\ adr \in [1 .. MacDigits -> Digits]
    BY VendorAssumption
  <2>2. adr \in Seq(Digits) /\ Len(adr) = MacDigits
    BY <2>1
  <2> QED
    BY <1>1, <2>1, <2>2, OuiLinesAre, VendorAssumption
<1>3. \A i \in DOMAIN lens : lens[i] \in Nat
  BY <1>1, <1>2 DEF Lengths
<1>4. ASSUME NEW i \in hits
      PROVE  Len(Opening(i)) = lens[i]
             /\ \E k \in Fitting(adr) : OuiLines[k].prefix = Opening(i)
  <2>1. lens[i] \in Nat /\ lens[i] <= MacDigits /\ Opening(i) \in Ouis /\ table[Opening(i)] # NoVendor
    BY <1>3
  <2>2. Len(Opening(i)) = lens[i]
    BY <1>2, <2>1
  <2>3. PICK k \in DOMAIN OuiLines : OuiLines[k].prefix = Opening(i)
    BY <1>1, <2>1, TableIs
  <2>4. k \in Fitting(adr)
    BY <1>1, <2>1, <2>2, <2>3, FitsIs
  <2> QED
    BY <2>2, <2>3, <2>4
<1>5. ASSUME NEW k \in Fitting(adr)
      PROVE  \E i \in hits : lens[i] = Len(OuiLines[k].prefix) /\ Opening(i) = OuiLines[k].prefix
  <2> DEFINE p == OuiLines[k].prefix
  <2>1. k \in DOMAIN OuiLines /\ Len(p) <= MacDigits /\ p = SubSeq(adr, 1, Len(p))
    BY <1>1, FitsIs
  <2>2. p \in Ouis /\ table[p] # NoVendor
    BY <1>1, <1>2, <2>1, TableIs
  <2> HIDE DEF p
  <2>3. Len(p) \in Lengths
    BY <2>2 DEF Lengths
  <2>4. PICK i \in DOMAIN lens : lens[i] = Len(p)
    BY <1>1, <2>3
  <2>5. Opening(i) = p
    BY <2>1, <2>4 DEF p
  <2>6. i \in hits
    BY <2>1, <2>2, <2>4, <2>5 DEF p
  <2> QED
    BY <2>4, <2>5, <2>6 DEF p
<1> HIDE DEF Opening, hits
<1>6. Lookup(adr) = IF hits = {} THEN NoVendor ELSE table[Opening(least)]
  BY DEF Lookup, Opening, hits
<1>7. CASE hits = {}
  <2>1. Fitting(adr) = {}
    BY <1>5, <1>7
  <2> QED
    BY <1>6, <1>7, <2>1
<1>8. CASE hits # {}
  <2>1. hits \subseteq DOMAIN lens /\ hits \in SUBSET Nat
    BY <1>1 DEF hits
  <2>2. least \in hits /\ \A j \in hits : least <= j
    <3>1. \E x \in hits : \A y \in hits : x <= y
      BY <1>8, <2>1, LeastNumber
    <3> QED
      BY <3>1, Zenon
  <2> HIDE DEF least
  <2>3. PICK k \in Fitting(adr) : OuiLines[k].prefix = Opening(least)
    BY <1>4, <2>2
  <2>4. \A j \in hits : lens[j] <= lens[least]
    <3> SUFFICES ASSUME NEW j \in hits, j # least PROVE lens[j] <= lens[least]
      BY <1>3, <2>1, <2>2
    <3>1. least < j
      BY <2>1, <2>2
    <3> QED
      BY <1>1, <1>3, <2>1, <2>2, <3>1
  <2>5. Longest(k)
    <3> SUFFICES ASSUME NEW j \in Fitting(adr)
                 PROVE  Len(OuiLines[j].prefix) <= Len(OuiLines[k].prefix)
      OBVIOUS
    <3>1. PICK i \in hits : lens[i] = Len(OuiLines[j].prefix)
      BY <1>5
    <3> QED
      BY <1>4, <2>2, <2>3, <2>4, <3>1
  <2>6. longest \in Fitting(adr) /\ Longest(longest)
    BY <2>3, <2>5, Zenon
  <2> HIDE DEF longest
  <2>7. PICK i \in hits : lens[i] = Len(OuiLines[longest].prefix) /\ Opening(i) = OuiLines[longest].prefix
    BY <1>5, <2>6
  <2>8. lens[i] = lens[least]
    <3>1. lens[i] <= lens[least] /\ Len(OuiLines[k].prefix) <= Len(OuiLines[longest].prefix)
      BY <2>4, <2>6, <2>7
    <3>2. Len(OuiLines[k].prefix) = lens[least] /\ lens[i] \in Nat /\ lens[least] \in Nat
      BY <1>3, <1>4, <2>1, <2>2, <2>3
    <3> QED
      BY <2>7, <3>1, <3>2
  <2>9. OuiLines[longest].prefix = Opening(least)
    BY <2>7, <2>8 DEF Opening
  <2>10. Opening(least) \in Ouis /\ table[Opening(least)] # NoVendor
    BY <2>2 DEF hits
  <2>11. FirstSays(OuiLines[longest].prefix) = table[Opening(least)]
    BY <1>1, <2>9, <2>10, TableIs
  <2>12. Fitting(adr) # {}
    BY <2>3
  <2> QED
    BY <1>6, <1>8, <2>11, <2>12 DEF longest
<1> QED
  BY <1>7, <1>8

(* The vendor that is shown is the longest prefix's, along every run.      *)
THEOREM LongestNamesHolds == VendorSpec => []LongestNames
<1>1. TableInv => LongestNames
  BY NamesLongest DEF LongestNames, TableInv
<1> QED
  BY <1>1, TableInvariant, PTL
=============================================================================
