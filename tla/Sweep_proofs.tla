---------------------------- MODULE Sweep_proofs -----------------------------
(***************************************************************************)
(* Proofs about Sweep for every list of requests, every number of passes   *)
(* and every width of address: no address is probed too often, the counters*)
(* are honest, nothing requested is left out, and the sweep implements     *)
(* Driver.  The facts about networks and lists are in Targets_proofs.      *)
(***************************************************************************)
EXTENDS Sweep, Targets_proofs

P == AtLeastOne(passopt)

Sweeping == {"block", "pass", "send"}
Swept    == {"window", "collect", "finish", "ok"}

(* No address lies in two of the blocks.                                   *)
Separate(blocks) ==
    \A i, j \in DOMAIN blocks :
       i # j => NetAddrs(blocks[i]) \cap NetAddrs(blocks[j]) = {}

Current == IF pc \in {"pass", "send"} THEN addrs ELSE {}

ListsInv ==
    /\ nets = IF pc = "targets" THEN <<>> ELSE BuildTargets(req)
    /\ Separate(rest)
    /\ pc \in {"targets", "sweep"} => rest = <<>>
    /\ pc \in Swept => STOP \/ rest = <<>>

(* The block being swept has had all its passes but `passes`; it meets     *)
(* neither an ignored range nor a block to come.                           *)
CurrentInv ==
    pc \in {"pass", "send"} =>
       /\ addrs # {}
       /\ pc = "send" => passes >= 1
       /\ \A a \in addrs :
             /\ probed[a] + passes = P
             /\ \A x \in req.excluded : a \notin NetAddrs(x)
             /\ \A i \in DOMAIN rest : a \notin NetAddrs(rest[i])

ProbedInv ==
    /\ NoOverProbing
    /\ \A i \in DOMAIN rest : \A a \in NetAddrs(rest[i]) : probed[a] = 0
    /\ pc \in {"targets", "sweep"} => \A a \in Addresses : probed[a] = 0

Owed == IF pc \in {"pass", "send"} THEN passes * Cardinality(addrs) ELSE 0

OnTheWire == Total([i \in 1..2^Width |-> probed[i - 1]])

CountInv ==
    /\ pc \in {"targets", "sweep"} => sent = 0 /\ total = 0
    /\ pc \in Sweeping => total = (sent + Owed) + P * Total(Counts(rest, req.excluded))
    /\ sent <= total
    /\ pc \in Swept => STOP \/ sent = total
    /\ pc # "err" => sent = OnTheWire

(* What is to be probed has been, is being probed or is still to come.     *)
ReachInv ==
    pc \in Sweeping \cup Swept => STOP \/
       \A i \in DOMAIN AllBlocks(nets) : \A a \in BlockAddrs(AllBlocks(nets)[i], req.excluded) :
          \/ probed[a] = P
          \/ a \in Current
          \/ \E j \in DOMAIN rest : a \in BlockAddrs(rest[j], req.excluded)

SweepInv == TypeOK /\ ListsInv /\ CurrentInv /\ ProbedInv /\ CountInv /\ ReachInv

-----------------------------------------------------------------------------
(* The constants and the request.                                          *)
LEMMA InputsAre ==
    ASSUME TypeOK
    PROVE  /\ req \in RequestType
           /\ req.excluded \in SUBSET Nets
           /\ passopt \in Nat
           /\ P \in Nat /\ P >= 1
<1>1. req \in RequestType /\ passopt \in Nat
  BY SweepAssumption DEF TypeOK
<1>2. req.excluded \in SUBSET Nets
  BY <1>1, RequestedIs
<1>3. P \in Nat /\ P >= 1
  BY <1>1 DEF P, AtLeastOne
<1>4. QED
  BY <1>1, <1>2, <1>3

(* The blocks of networks without a common address have none, and each     *)
(* address of a network is in the block PieceOf names.                     *)
LEMMA AllBlocksAre ==
    ASSUME NEW ns \in Seq(Nets), Separate(ns)
    PROVE  /\ AllBlocks(ns) \in Seq(Nets)
           /\ Separate(AllBlocks(ns))
           /\ \A i \in DOMAIN ns : \A a \in NetAddrs(ns[i]) :
                 \E j \in DOMAIN AllBlocks(ns) : AllBlocks(ns)[j] = PieceOf(ns[i], a)
           /\ \A j \in DOMAIN AllBlocks(ns) :
                 \E i \in DOMAIN ns : NetAddrs(AllBlocks(ns)[j]) \subseteq NetAddrs(ns[i])
<1> DEFINE ss == [i \in DOMAIN ns |-> Slash24Blocks(ns[i])]
           t == FlattenSeq(ss)
<1>1. DOMAIN ns = 1 .. Len(ns) /\ Len(ns) \in Nat /\ \A i \in DOMAIN ns : ns[i] \in Nets
  OBVIOUS
<1>2. \A i \in DOMAIN ns :
         /\ Slash24Blocks(ns[i]) \in Seq(Nets)
         /\ \A k \in DOMAIN Slash24Blocks(ns[i]) :
               NetAddrs(Slash24Blocks(ns[i])[k]) \subseteq NetAddrs(ns[i])
         /\ \A k, l \in DOMAIN Slash24Blocks(ns[i]) : k < l =>
               NetAddrs(Slash24Blocks(ns[i])[k]) \cap NetAddrs(Slash24Blocks(ns[i])[l]) = {}
         /\ \A a \in NetAddrs(ns[i]) : \E k \in DOMAIN Slash24Blocks(ns[i]) :
               Slash24Blocks(ns[i])[k] = PieceOf(ns[i], a)
  BY <1>1, BlocksAre DEF PieceOf
<1>3. ss \in Seq(Seq(Nets)) /\ Len(ss) = Len(ns) /\ DOMAIN ss = DOMAIN ns
  <2>1. \A i \in 1 .. Len(ns) : Slash24Blocks(ns[i]) \in Seq(Nets)
    BY <1>1, <1>2
  <2>2. QED
    BY <1>1, <2>1
<1>4. \A i \in DOMAIN ns : ss[i] = Slash24Blocks(ns[i])
  OBVIOUS
<1> HIDE DEF ss
<1>5. Joined(t, ss, Len(ss), Nets)
  BY <1>3, FlattenJoined, Zenon
<1>6. AllBlocks(ns) = t
  BY DEF AllBlocks, ss
<1> HIDE DEF t
<1>7. t \in Seq(Nets)
  BY <1>5 DEF Joined
<1>8. DOMAIN t = 1 .. Len(t)
  BY <1>7
<1>9. ASSUME NEW p \in DOMAIN t, NEW q \in DOMAIN t, p < q
      PROVE  NetAddrs(t[p]) \cap NetAddrs(t[q]) = {}
  <2>1. PICK j \in 1 .. Len(ss), k \in 1 .. Len(ss) :
           \E a \in DOMAIN ss[j] : \E b \in DOMAIN ss[k] :
              t[p] = ss[j][a] /\ t[q] = ss[k][b] /\ (j < k \/ (j = k /\ a < b))
    BY <1>5, <1>9 DEF Joined
  <2>2. PICK a \in DOMAIN ss[j] : \E b \in DOMAIN ss[k] :
              t[p] = ss[j][a] /\ t[q] = ss[k][b] /\ (j < k \/ (j = k /\ a < b))
    BY <2>1
  <2>3. PICK b \in DOMAIN ss[k] :
              t[p] = ss[j][a] /\ t[q] = ss[k][b] /\ (j < k \/ (j = k /\ a < b))
    BY <2>2
  <2>4. j \in DOMAIN ns /\ k \in DOMAIN ns
    BY <1>1, <1>3
  <2>5. CASE j = k /\ a < b
    BY <1>2, <1>4, <2>3, <2>4, <2>5
  <2>6. CASE j < k
    <3>1. j # k
      BY <2>6
    <3>2. NetAddrs(ns[j]) \cap NetAddrs(ns[k]) = {}
      BY <2>4, <3>1 DEF Separate
    <3>3. NetAddrs(t[p]) \subseteq NetAddrs(ns[j]) /\ NetAddrs(t[q]) \subseteq NetAddrs(ns[k])
      BY <1>2, <1>4, <2>3, <2>4
    <3>4. QED
      BY <3>2, <3>3
  <2>7. QED
    BY <2>3, <2>5, <2>6
<1>10. Separate(t)
  <2>1. ASSUME NEW p \in DOMAIN t, NEW q \in DOMAIN t, p # q
        PROVE  NetAddrs(t[p]) \cap NetAddrs(t[q]) = {}
    <3>1. p < q \/ q < p
      BY <1>8, <2>1
    <3>2. QED
      BY <1>9, <3>1
  <2>2. QED
    BY <2>1 DEF Separate
<1>11. ASSUME NEW i \in DOMAIN ns, NEW a \in NetAddrs(ns[i])
       PROVE  \E j \in DOMAIN t : t[j] = PieceOf(ns[i], a)
  <2>1. PICK k \in DOMAIN ss[i] : ss[i][k] = PieceOf(ns[i], a)
    BY <1>2, <1>4
  <2>2. i \in 1 .. Len(ss)
    BY <1>1, <1>3
  <2>3. QED
    BY <1>5, <2>1, <2>2 DEF Joined
<1>12. ASSUME NEW p \in DOMAIN t
       PROVE  \E i \in DOMAIN ns : NetAddrs(t[p]) \subseteq NetAddrs(ns[i])
  <2>1. PICK j \in 1 .. Len(ss) : \E a \in DOMAIN ss[j] : t[p] = ss[j][a]
    BY <1>5, <1>12 DEF Joined
  <2>2. j \in DOMAIN ns
    BY <1>1, <1>3
  <2>3. QED
    BY <1>2, <1>4, <2>1, <2>2
<1>13. QED
  BY <1>6, <1>7, <1>10, <1>11, <1>12

(* The counts made beforehand, and what is left of them after a block.     *)
LEMMA CountsAre ==
    ASSUME NEW bs \in Seq(Nets), NEW ex \in SUBSET Nets
    PROVE  /\ Counts(bs, ex) \in Seq(Nat)
           /\ DOMAIN Counts(bs, ex) = DOMAIN bs /\ Len(Counts(bs, ex)) = Len(bs)
           /\ \A i \in DOMAIN bs : Counts(bs, ex)[i] = Cardinality(BlockAddrs(bs[i], ex))
           /\ Total(Counts(bs, ex)) \in Nat
<1>1. \A i \in DOMAIN bs : bs[i] \in Nets
  OBVIOUS
<1>2. \A i \in DOMAIN bs : /\ BlockCount(bs[i], ex) = Cardinality(BlockAddrs(bs[i], ex))
                           /\ BlockCount(bs[i], ex) \in Nat
  BY <1>1, BlockAddrsAre
<1>3. Counts(bs, ex) \in Seq(Nat) /\ Len(Counts(bs, ex)) = Len(bs)
  <2>1. DOMAIN bs = 1 .. Len(bs) /\ Len(bs) \in Nat
    OBVIOUS
  <2>2. QED
    BY <1>2, <2>1 DEF Counts
<1>4. QED
  BY <1>2, <1>3, TotalIs DEF Counts

(* A block taken from the list takes its count from the sum.               *)
LEMMA CountsTail ==
    ASSUME NEW bs \in Seq(Nets), bs # <<>>, NEW ex \in SUBSET Nets
    PROVE  /\ Head(bs) \in Nets /\ Tail(bs) \in Seq(Nets)
           /\ 1 \in DOMAIN bs /\ Head(bs) = bs[1]
           /\ \A i \in DOMAIN Tail(bs) : i + 1 \in DOMAIN bs /\ i + 1 # 1 /\ Tail(bs)[i] = bs[i + 1]
           /\ \A i \in DOMAIN bs : i # 1 => i - 1 \in DOMAIN Tail(bs) /\ bs[i] = Tail(bs)[i - 1]
           /\ Total(Counts(bs, ex)) = Cardinality(BlockAddrs(Head(bs), ex))
                                       + Total(Counts(Tail(bs), ex))
<1>1. /\ Head(bs) \in Nets /\ Tail(bs) \in Seq(Nets)
      /\ 1 \in DOMAIN bs /\ Head(bs) = bs[1]
      /\ Len(Tail(bs)) = Len(bs) - 1 /\ Len(bs) \in Nat /\ Len(bs) >= 1
      /\ DOMAIN bs = 1 .. Len(bs) /\ DOMAIN Tail(bs) = 1 .. Len(bs) - 1
      /\ \A i \in DOMAIN Tail(bs) : Tail(bs)[i] = bs[i + 1]
  OBVIOUS
<1>2. \A i \in DOMAIN Tail(bs) : i + 1 \in DOMAIN bs /\ i + 1 # 1 /\ Tail(bs)[i] = bs[i + 1]
  BY <1>1
<1>3. \A i \in DOMAIN bs : i # 1 => i - 1 \in DOMAIN Tail(bs) /\ bs[i] = Tail(bs)[i - 1]
  BY <1>1
<1> DEFINE c == Counts(bs, ex)
           d == Counts(Tail(bs), ex)
<1>4. /\ c \in Seq(Nat) /\ DOMAIN c = DOMAIN bs
      /\ Len(c) = Len(bs)
      /\ \A i \in DOMAIN bs : c[i] = Cardinality(BlockAddrs(bs[i], ex))
  BY CountsAre
<1>5. /\ d \in Seq(Nat) /\ DOMAIN d = DOMAIN Tail(bs)
      /\ Len(d) = Len(Tail(bs))
      /\ \A i \in DOMAIN Tail(bs) : d[i] = Cardinality(BlockAddrs(Tail(bs)[i], ex))
  BY <1>1, CountsAre
<1> HIDE DEF c, d
<1>6. c # <<>> /\ Len(c) = Len(bs) /\ Len(d) = Len(bs) - 1
  BY <1>1, <1>4, <1>5
<1>7. \A i \in 1 .. Len(d) : d[i] = c[i + 1]
  BY <1>1, <1>2, <1>4, <1>5, <1>6
<1>8. Tail(c) = d
  <2>1. Tail(c) \in Seq(Nat) /\ Len(Tail(c)) = Len(d)
    BY <1>1, <1>4, <1>6
  <2>2. \A i \in 1 .. Len(d) : Tail(c)[i] = c[i + 1]
    BY <1>4, <1>6, <2>1
  <2>3. QED
    <3> DEFINE e == Tail(c)
    <3>1. \A i \in 1 .. Len(d) : e[i] = d[i]
      BY <1>7, <2>2
    <3>2. e \in Seq(Nat) /\ Len(e) = Len(d)
      BY <2>1
    <3> HIDE DEF e
    <3>3. d = [i \in 1 .. Len(d) |-> d[i]]
      BY <1>5
    <3>4. e = [i \in 1 .. Len(d) |-> e[i]]
      BY <3>2
    <3>5. d = e
      BY <3>1, <3>3, <3>4, Zenon
    <3>6. QED
      BY <3>5 DEF e
<1>9. Head(c) = Cardinality(BlockAddrs(Head(bs), ex))
  BY <1>1, <1>4, <1>6
<1>10. Total(c) = Head(c) + Total(d)
  BY <1>4, <1>6, <1>8, TotalTail
<1>11. QED
  BY <1>1, <1>2, <1>3, <1>9, <1>10 DEF c, d

(* A list without blocks, and one whose blocks have no address to probe.   *)
LEMMA CountsZero ==
    ASSUME NEW bs \in Seq(Nets), NEW ex \in SUBSET Nets
    PROVE  Total(Counts(bs, ex)) = 0 <=> \A i \in DOMAIN bs : BlockAddrs(bs[i], ex) = {}
<1> DEFINE c == Counts(bs, ex)
<1>1. /\ c \in Seq(Nat) /\ DOMAIN c = DOMAIN bs
      /\ \A i \in DOMAIN bs : c[i] = Cardinality(BlockAddrs(bs[i], ex))
  BY CountsAre
<1>2. \A i \in DOMAIN bs : IsFiniteSet(BlockAddrs(bs[i], ex))
  BY BlockAddrsAre
<1>3. \A i \in DOMAIN bs : Cardinality(BlockAddrs(bs[i], ex)) = 0 <=> BlockAddrs(bs[i], ex) = {}
  BY <1>2, FS_EmptySet
<1> HIDE DEF c
<1>4. /\ Total(c) \in Nat
      /\ \A j \in DOMAIN c : c[j] <= Total(c)
      /\ (\A j \in DOMAIN c : c[j] = 0) => Total(c) = 0
  BY <1>1, TotalIs, Zenon
<1>5. ASSUME Total(c) = 0 PROVE \A j \in DOMAIN c : c[j] = 0
  <2>1. \A j \in DOMAIN c : c[j] \in Nat
    BY <1>1
  <2>2. QED
    BY <1>4, <1>5, <2>1
<1>6. (Total(c) = 0) <=> \A j \in DOMAIN c : c[j] = 0
  BY <1>4, <1>5
<1>7. (\A j \in DOMAIN c : c[j] = 0) <=> \A i \in DOMAIN bs : BlockAddrs(bs[i], ex) = {}
  BY <1>1, <1>3
<1>8. QED
  BY <1>6, <1>7 DEF c

(* The empty list.                                                         *)
LEMMA NoBlocks ==
    /\ <<>> \in Seq(Nets) /\ DOMAIN <<>> = {} /\ Separate(<<>>)
    /\ DOMAIN AllBlocks(<<>>) = {}
    /\ \A ex \in SUBSET Nets : Total(Counts(<<>>, ex)) = 0
<1>1. <<>> \in Seq(Nets) /\ DOMAIN <<>> = {}
  OBVIOUS
<1>2. Separate(<<>>)
  BY <1>1 DEF Separate
<1>3. DOMAIN AllBlocks(<<>>) = {}
  BY <1>1, <1>2, AllBlocksAre
<1>4. \A ex \in SUBSET Nets : Total(Counts(<<>>, ex)) = 0
  BY <1>1, CountsZero
<1>5. QED
  BY <1>1, <1>2, <1>3, <1>4

(* The targets are separate networks.                                      *)
LEMMA TargetsSeparate ==
    ASSUME TypeOK
    PROVE  BuildTargets(req) \in Seq(Nets) /\ Separate(BuildTargets(req))
<1>1. req \in RequestType
  BY InputsAre
<1>2. QED
  BY <1>1, TargetsAre DEF Separate

-----------------------------------------------------------------------------
(* The wire: the sequence whose total is what was sent.                    *)
LEMMA WireIs ==
    ASSUME NEW f \in [Addresses -> Nat]
    PROVE  LET w == [i \in 1 .. 2^Width |-> f[i - 1]]
           IN  w \in Seq(Nat) /\ Len(w) = 2^Width
<1>1. 2^Width \in Nat /\ 2^Width >= 1
  BY SizeEnds
<1>2. \A i \in 1 .. 2^Width : i - 1 \in Addresses
  BY <1>1 DEF Addresses
<1>3. \A i \in 1 .. 2^Width : f[i - 1] \in Nat
  BY <1>2
<1>4. QED
  BY <1>1, <1>3

(* One more probe of each address of a set adds their number.              *)
LEMMA WireGrows ==
    ASSUME NEW f \in [Addresses -> Nat], NEW A \in SUBSET Addresses
    PROVE  LET g == [a \in Addresses |-> f[a] + (IF a \in A THEN 1 ELSE 0)]
           IN  /\ g \in [Addresses -> Nat]
               /\ Total([i \in 1 .. 2^Width |-> g[i - 1]])
                     = Total([i \in 1 .. 2^Width |-> f[i - 1]]) + Cardinality(A)
<1> DEFINE g == [a \in Addresses |-> f[a] + (IF a \in A THEN 1 ELSE 0)]
           s == [i \in 1 .. 2^Width |-> f[i - 1]]
           t == [i \in 1 .. 2^Width |-> g[i - 1]]
           I == {i \in 1 .. 2^Width : i - 1 \in A}
<1>1. 2^Width \in Nat /\ 2^Width >= 1
  BY SizeEnds
<1>2. \A i \in 1 .. 2^Width : i - 1 \in Addresses
  BY <1>1 DEF Addresses
<1>3. \A a \in Addresses : f[a] \in Nat
  OBVIOUS
<1>4. g \in [Addresses -> Nat]
  BY <1>3
<1>5. \A a \in Addresses : g[a] = f[a] + (IF a \in A THEN 1 ELSE 0)
  OBVIOUS
<1> HIDE DEF g
<1>6. s \in Seq(Nat) /\ Len(s) = 2^Width /\ t \in Seq(Nat) /\ Len(t) = 2^Width
  BY <1>4, WireIs
<1>7. \A j \in 1 .. 2^Width : s[j] = f[j - 1] /\ t[j] = g[j - 1]
  OBVIOUS
<1>8. \A j \in 1 .. 2^Width : j \in I <=> j - 1 \in A
  OBVIOUS
<1> HIDE DEF s, t
<1>9. \A j \in 1 .. 2^Width : t[j] = s[j] + (IF j \in I THEN 1 ELSE 0)
  BY <1>2, <1>5, <1>7, <1>8
<1>10. I \subseteq 1 .. 2^Width
  OBVIOUS
<1>11. Cardinality(I) = Cardinality(A)
  <2> DEFINE h == [i \in I |-> i - 1]
  <2>1. IsFiniteSet(I)
    <3>1. IsFiniteSet(1 .. 2^Width)
      <4> DEFINE N == 2^Width
      <4>1. N \in Nat
        BY <1>1
      <4> HIDE DEF N
      <4>2. IsFiniteSet(1 .. N)
        BY <4>1, FS_Interval
      <4>3. QED
        BY <4>2 DEF N
    <3> HIDE DEF I
    <3>2. QED
      BY <1>10, <3>1, FS_Subset
  <2>2. \A i \in I : i \in Nat /\ i - 1 \in A
    BY <1>1
  <2>3. h \in [I -> A]
    BY <2>2
  <2>4. \A i, j \in I : h[i] = h[j] => i = j
    BY <2>2
  <2>5. \A a \in A : a + 1 \in I /\ h[a + 1] = a
    <3>1. \A a \in A : a \in Nat /\ a <= 2^Width - 1
      BY <1>1 DEF Addresses
    <3>2. \A a \in A : a + 1 \in 1 .. 2^Width /\ (a + 1) - 1 = a
      BY <1>1, <3>1
    <3>3. QED
      BY <3>2
  <2> HIDE DEF h, I
  <2>6. h \in Bijection(I, A)
    <3>1. \A a \in A : \E i \in I : h[i] = a
      BY <2>5
    <3>2. QED
      BY <2>3, <2>4, <3>1 DEF Bijection, Injection, Surjection, IsInjective
  <2>7. QED
    BY <2>1, <2>6, FS_Bijection DEF ExistsBijection
<1> HIDE DEF I
<1>12. Total(t) = Total(s) + Cardinality(I)
  <2>1. /\ s \in Seq(Nat) /\ t \in Seq(Nat) /\ Len(s) = Len(t) /\ I \subseteq 1 .. Len(s)
        /\ Grows(s, t, I)
    BY <1>6, <1>9, <1>10 DEF Grows
  <2>2. QED
    BY <2>1, TotalGrows
<1>13. QED
  BY <1>4, <1>11, <1>12 DEF g, s, t

-----------------------------------------------------------------------------
(* The invariant holds at first, and each action keeps it.                 *)
LEMMA InitInv == Init => SweepInv
<1> SUFFICES ASSUME Init PROVE SweepInv
  OBVIOUS
<1>1. TypeOK
  BY DEF Init, TypeOK, PcStates
<1>2. P \in Nat /\ P >= 1
  BY <1>1, InputsAre
<1>3. ListsInv
  BY NoBlocks DEF Init, ListsInv, Swept
<1>4. CurrentInv
  BY DEF Init, CurrentInv
<1>5. ProbedInv
  <2>1. \A a \in Addresses : probed[a] = 0 /\ (Allowed(a) = 0 \/ Allowed(a) = P)
    BY DEF Init, Allowed, P
  <2>2. NoOverProbing
    BY <1>2, <2>1 DEF NoOverProbing
  <2>3. QED
    BY <2>1, <2>2, NoBlocks DEF Init, ProbedInv
<1>6. CountInv
  <2>1. OnTheWire = 0
    <3> DEFINE w == [i \in 1 .. 2^Width |-> probed[i - 1]]
    <3>1. probed \in [Addresses -> Nat] /\ \A a \in Addresses : probed[a] = 0
      BY DEF Init
    <3>2. w \in Seq(Nat) /\ Len(w) = 2^Width
      BY <3>1, WireIs
    <3>3. \A j \in DOMAIN w : w[j] = 0
      <4>1. 2^Width \in Nat
        BY SizeEnds
      <4>2. \A j \in 1 .. 2^Width : j - 1 \in Addresses
        BY <4>1 DEF Addresses
      <4>3. QED
        BY <3>1, <4>2
    <3> HIDE DEF w
    <3>4. Total(w) = 0
      BY <3>2, <3>3, TotalIs
    <3>5. QED
      BY <3>4 DEF w, OnTheWire
  <2>2. QED
    BY <2>1 DEF Init, CountInv, Sweeping, Swept
<1>7. ReachInv
  BY DEF Init, ReachInv, Sweeping, Swept
<1>8. QED
  BY <1>1, <1>3, <1>4, <1>5, <1>6, <1>7 DEF SweepInv

(* What does not change as long as neither the inputs nor the history of   *)
(* the probes do.                                                          *)
LEMMA SameProbes ==
    ASSUME UNCHANGED <<req, passopt, probed>>
    PROVE  /\ P' = P /\ OnTheWire' = OnTheWire
           /\ \A a \in Addresses : Allowed(a)' = Allowed(a)
           /\ NoOverProbing => NoOverProbing'
<1>1. P' = P
  BY DEF P
<1>2. OnTheWire' = OnTheWire
  BY DEF OnTheWire
<1>3. \A a \in Addresses : Allowed(a)' = Allowed(a)
  BY DEF Allowed
<1>4. NoOverProbing => NoOverProbing'
  BY <1>3 DEF NoOverProbing
<1>5. QED
  BY <1>1, <1>2, <1>3, <1>4

(* The targets are chosen.                                                 *)
LEMMA BuildInv ==
    ASSUME SweepInv, Build
    PROVE  SweepInv'
<1>1. /\ TypeOK /\ ListsInv /\ ProbedInv /\ CountInv
      /\ pc = "targets" /\ rest = <<>> /\ rest' = <<>>
      /\ nets' = BuildTargets(req) /\ pc' \in {"sweep", "finish"}
      /\ UNCHANGED <<req, passopt, addrs, passes, STOP, sent, total, probed, units, late>>
  BY DEF SweepInv, Build, ListsInv, inputs, counts, history
<1>2. BuildTargets(req) \in Seq(Nets)
  BY <1>1, TargetsSeparate
<1>3. TypeOK'
  BY <1>1, <1>2 DEF Build, TypeOK, PcStates
<1>4. ListsInv'
  BY <1>1, NoBlocks DEF ListsInv
<1>5. CurrentInv'
  BY <1>1 DEF CurrentInv
<1>6. ProbedInv'
  BY <1>1, SameProbes DEF ProbedInv
<1>7. CountInv'
  BY <1>1, SameProbes DEF CountInv, Sweeping, Swept
<1>8. ReachInv'
  <2>1. pc' \in Sweeping \cup Swept => STOP' \/ nets' = <<>>
    BY <1>1 DEF Build, Sweeping, Swept
  <2>2. QED
    BY <2>1, NoBlocks DEF ReachInv
<1>9. QED
  BY <1>3, <1>4, <1>5, <1>6, <1>7, <1>8 DEF SweepInv

(* The sweep begins: blocks and total come from the same list.             *)
LEMMA EnterInv ==
    ASSUME SweepInv, Enter
    PROVE  SweepInv'
<1> DEFINE bs == AllBlocks(nets)
           ex == req.excluded
<1>1. /\ TypeOK /\ ListsInv /\ ProbedInv /\ CountInv
      /\ pc = "sweep" /\ rest = <<>> /\ sent = 0 /\ total = 0
      /\ nets = BuildTargets(req)
      /\ UNCHANGED <<req, passopt, nets, addrs, passes, phase, STOP, probed, units, late>>
  BY DEF SweepInv, Enter, ListsInv, CountInv, inputs, history
<1>2. bs \in Seq(Nets) /\ Separate(bs)
  BY <1>1, TargetsSeparate, AllBlocksAre
<1>3. ex \in SUBSET Nets /\ passopt \in Nat /\ P \in Nat /\ P >= 1 /\ P' = P
  BY <1>1, InputsAre, SameProbes
<1>4. Total(Counts(bs, ex)) \in Nat /\ HostsTotal(nets, ex) = Total(Counts(bs, ex))
  BY <1>2, <1>3, CountsAre DEF HostsTotal
<1>5. \A a \in Addresses : probed[a] = 0
  BY <1>1 DEF ProbedInv
<1>6. \A i \in DOMAIN bs : NetAddrs(bs[i]) \subseteq Addresses
  BY <1>2, NetIs
<1> HIDE DEF bs
<1>7. CASE HostsTotal(nets, ex) = 0
  <2>1. pc' = "window" /\ UNCHANGED <<rest, sent, total>>
    BY <1>7 DEF Enter, counts
  <2>2. TypeOK'
    BY <1>1, <2>1 DEF TypeOK, PcStates
  <2>3. ListsInv'
    BY <1>1, <2>1 DEF ListsInv
  <2>4. CurrentInv'
    BY <2>1 DEF CurrentInv
  <2>5. ProbedInv'
    BY <1>1, <2>1, SameProbes DEF ProbedInv
  <2>6. CountInv'
    BY <1>1, <2>1, SameProbes DEF CountInv, Sweeping, Swept
  <2>7. ReachInv'
    <3>1. \A i \in DOMAIN bs : BlockAddrs(bs[i], ex) = {}
      BY <1>2, <1>3, <1>4, <1>7, CountsZero
    <3>2. QED
      BY <1>1, <3>1 DEF ReachInv, bs
  <2>8. QED
    BY <2>2, <2>3, <2>4, <2>5, <2>6, <2>7 DEF SweepInv
<1>8. CASE HostsTotal(nets, ex) # 0
  <2>1. /\ pc' = "block" /\ rest' = bs /\ sent' = 0
        /\ total' = HostsTotal(nets, ex) * AtLeastOne(passopt)
    BY <1>8 DEF Enter, bs
  <2>2. total' = P * Total(Counts(bs, ex)) /\ total' \in Nat
    <3>1. \A x, y \in Nat : x * y = y * x /\ x * y \in Nat
      OBVIOUS
    <3>2. total' = Total(Counts(bs, ex)) * P
      BY <1>4, <2>1 DEF P
    <3>3. QED
      BY <1>3, <1>4, <3>1, <3>2
  <2>3. TypeOK'
    BY <1>1, <1>2, <2>1, <2>2 DEF TypeOK, PcStates
  <2>4. ListsInv'
    BY <1>1, <1>2, <2>1 DEF ListsInv, Swept
  <2>5. CurrentInv'
    BY <2>1 DEF CurrentInv
  <2>6. ProbedInv'
    BY <1>1, <1>5, <1>6, <2>1, SameProbes DEF ProbedInv
  <2>7. CountInv'
    <3>1. Owed' = 0
      BY <2>1 DEF Owed
    <3>2. OnTheWire' = 0
      BY <1>1, SameProbes DEF CountInv
    <3>3. total' = (sent' + Owed') + P' * Total(Counts(rest', req'.excluded))
      BY <1>1, <1>3, <2>1, <2>2, <3>1
    <3>4. QED
      BY <2>1, <2>2, <3>2, <3>3 DEF CountInv, Sweeping, Swept
  <2>8. ReachInv'
    BY <1>1, <2>1 DEF ReachInv, bs
  <2>9. QED
    BY <2>3, <2>4, <2>5, <2>6, <2>7, <2>8 DEF SweepInv
<1>9. QED
  BY <1>7, <1>8

(* A block is begun: its addresses have had no probe yet.                  *)
LEMMA BlockInv ==
    ASSUME SweepInv, Block
    PROVE  SweepInv'
<1> DEFINE ex == req.excluded
<1>1. /\ TypeOK /\ ListsInv /\ ProbedInv /\ CountInv /\ ReachInv
      /\ pc = "block" /\ rest \in Seq(Nets)
      /\ UNCHANGED <<req, passopt, nets, phase, STOP, sent, total, probed, units, late>>
  BY DEF SweepInv, Block, TypeOK, inputs, counts, history
<1>2. ex \in SUBSET Nets /\ passopt \in Nat /\ P \in Nat /\ P >= 1 /\ P' = P
  BY <1>1, InputsAre, SameProbes
<1>3. total = sent + P * Total(Counts(rest, ex)) /\ sent \in Nat /\ total \in Nat
  <2>1. total = (sent + Owed) + P * Total(Counts(rest, ex)) /\ Owed = 0
    BY <1>1 DEF CountInv, Sweeping, Owed
  <2>2. sent \in Nat /\ total \in Nat
    BY <1>1 DEF TypeOK
  <2>3. sent + Owed = sent
    BY <2>1, <2>2
  <2>4. QED
    BY <2>1, <2>2, <2>3
<1>4. sent <= total /\ sent = OnTheWire /\ OnTheWire' = OnTheWire
  BY <1>1, SameProbes DEF CountInv
<1>5. STOP \/ \A i \in DOMAIN AllBlocks(nets) : \A a \in BlockAddrs(AllBlocks(nets)[i], ex) :
                 \/ probed[a] = P
                 \/ \E j \in DOMAIN rest : a \in BlockAddrs(rest[j], ex)
  BY <1>1 DEF ReachInv, Sweeping, Current
<1>6. CASE STOP \/ rest = <<>>
  <2>1. pc' = "window" /\ UNCHANGED <<rest, addrs, passes>>
    BY <1>6 DEF Block
  <2>2. TypeOK'
    BY <1>1, <2>1 DEF TypeOK, PcStates
  <2>3. ListsInv'
    BY <1>1, <1>6, <2>1 DEF ListsInv, Swept
  <2>4. CurrentInv'
    BY <2>1 DEF CurrentInv
  <2>5. ProbedInv'
    BY <1>1, <2>1, SameProbes DEF ProbedInv
  <2>6. STOP \/ sent = total
    <3>1. rest = <<>> => Total(Counts(rest, ex)) = 0
      BY <1>2, NoBlocks
    <3>2. P * 0 = 0
      BY <1>2
    <3>3. QED
      BY <1>3, <1>6, <3>1, <3>2
  <2>7. CountInv'
    BY <1>1, <1>4, <2>1, <2>6 DEF CountInv, Sweeping, Swept
  <2>8. ReachInv'
    BY <1>1, <1>2, <1>5, <2>1 DEF ReachInv
  <2>9. QED
    BY <2>2, <2>3, <2>4, <2>5, <2>7, <2>8 DEF SweepInv
<1>7. CASE ~STOP /\ rest # <<>>
  <2> DEFINE h == Head(rest)
             t == Tail(rest)
             A == BlockAddrs(h, ex)
  <2>1. /\ rest' = t /\ addrs' = A
        /\ IF A = {} THEN pc' = "block" /\ passes' = passes
           ELSE pc' = "pass" /\ passes' = P
    BY <1>7 DEF Block, P
  <2>2. /\ h \in Nets /\ t \in Seq(Nets)
        /\ 1 \in DOMAIN rest /\ h = rest[1]
        /\ \A i \in DOMAIN t : i + 1 \in DOMAIN rest /\ i + 1 # 1 /\ t[i] = rest[i + 1]
        /\ \A i \in DOMAIN rest : i # 1 => i - 1 \in DOMAIN t /\ rest[i] = t[i - 1]
        /\ Total(Counts(rest, ex)) = Cardinality(A) + Total(Counts(t, ex))
    BY <1>1, <1>2, <1>7, CountsTail
  <2>3. /\ IsFiniteSet(A) /\ Cardinality(A) \in Nat
        /\ A \subseteq NetAddrs(h) /\ NetAddrs(h) \subseteq Addresses
        /\ \A a \in A : \A x \in ex : a \notin NetAddrs(x)
    <3>1. A = Survivors(h, ex) /\ IsFiniteSet(A) /\ A \subseteq ProbeAddrs(h)
      BY <1>2, <2>2, BlockAddrsAre
    <3>2. ProbeAddrs(h) \subseteq NetAddrs(h) /\ NetAddrs(h) \subseteq Addresses
      BY <2>2, ProbesAre, NetIs
    <3>3. \A a \in A : \A x \in ex : a \notin NetAddrs(x)
      BY <3>1 DEF Survivors
    <3>4. QED
      BY <3>1, <3>2, <3>3, FS_CardinalityType
  <2>4. Total(Counts(t, ex)) \in Nat
    BY <1>2, <2>2, CountsAre
  <2> HIDE DEF h, t, A
  <2>5. TypeOK'
    <3>1. pc' \in PcStates /\ passes' \in Nat
      BY <1>1, <1>2, <2>1 DEF TypeOK, PcStates
    <3>2. QED
      BY <1>1, <2>1, <2>2, <2>3, <3>1 DEF TypeOK
  <2>6. \A i \in DOMAIN t : NetAddrs(h) \cap NetAddrs(t[i]) = {}
    <3>1. Separate(rest)
      BY <1>1 DEF ListsInv
    <3>2. QED
      BY <2>2, <3>1 DEF Separate
  <2>7. ListsInv'
    <3>1. Separate(rest)
      BY <1>1 DEF ListsInv
    <3>2. \A i, j \in DOMAIN t : i # j => i + 1 # j + 1
      BY <2>2
    <3>3. Separate(t)
      BY <2>2, <3>1, <3>2 DEF Separate
    <3>4. QED
      BY <1>1, <2>1, <3>3 DEF ListsInv, Swept
  <2>8. /\ \A a \in A : probed[a] = 0
        /\ \A i \in DOMAIN t : \A a \in NetAddrs(t[i]) : probed[a] = 0
    BY <1>1, <2>2, <2>3 DEF ProbedInv
  <2>9. CurrentInv'
    <3>1. A # {} /\ passes' = P => \A a \in addrs' : probed'[a] + passes' = P'
      <4>1. 0 + P = P
        BY <1>2
      <4>2. QED
        BY <1>1, <1>2, <2>1, <2>8, <4>1
    <3>2. \A a \in addrs' : /\ \A x \in req'.excluded : a \notin NetAddrs(x)
                            /\ \A i \in DOMAIN rest' : a \notin NetAddrs(rest'[i])
      BY <1>1, <2>1, <2>3, <2>6
    <3>3. pc' \in {"pass", "send"} => A # {} /\ passes' = P /\ pc' # "send"
      BY <2>1
    <3>4. QED
      BY <2>1, <3>1, <3>2, <3>3 DEF CurrentInv
  <2>10. ProbedInv'
    BY <1>1, <2>1, <2>8, SameProbes DEF ProbedInv
  <2>11. total = (sent + P * Cardinality(A)) + P * Total(Counts(t, ex))
    <3> DEFINE m == Cardinality(A)
               n == Total(Counts(t, ex))
    <3>1. m \in Nat /\ n \in Nat /\ total = sent + P * (m + n)
      BY <1>3, <2>2, <2>3, <2>4
    <3> HIDE DEF m, n
    <3>2. P * (m + n) = P * m + P * n /\ P * m \in Nat /\ P * n \in Nat
      BY <1>2, <3>1
    <3>3. sent + (P * m + P * n) = (sent + P * m) + P * n
      BY <1>3, <3>2
    <3>4. QED
      BY <3>1, <3>2, <3>3 DEF m, n
  <2>12. Owed' = P * Cardinality(A)
    <3>1. CASE A = {}
      <4>1. Cardinality(A) = 0 /\ P * 0 = 0
        BY <1>2, <3>1, FS_EmptySet
      <4>2. QED
        BY <2>1, <3>1, <4>1 DEF Owed
    <3>2. CASE A # {}
      BY <2>1, <3>2 DEF Owed
    <3>3. QED
      BY <3>1, <3>2
  <2>13. CountInv'
    <3>1. pc' \in {"block", "pass"}
      BY <2>1
    <3>2. total' = (sent' + Owed') + P' * Total(Counts(rest', req'.excluded))
      BY <1>1, <1>2, <2>1, <2>11, <2>12
    <3>3. QED
      BY <1>1, <1>4, <3>1, <3>2 DEF CountInv, Swept
  <2>14. ReachInv'
    <3>1. ASSUME NEW i \in DOMAIN AllBlocks(nets), NEW a \in BlockAddrs(AllBlocks(nets)[i], ex)
          PROVE  \/ probed[a] = P
                 \/ a \in Current'
                 \/ \E j \in DOMAIN t : a \in BlockAddrs(t[j], ex)
      <4>1. CASE probed[a] = P
        BY <4>1
      <4>2. ASSUME NEW j \in DOMAIN rest, a \in BlockAddrs(rest[j], ex)
            PROVE  a \in Current' \/ \E k \in DOMAIN t : a \in BlockAddrs(t[k], ex)
        <5>1. CASE j = 1
          <6>1. a \in A
            BY <2>2, <4>2, <5>1 DEF A
          <6>2. QED
            BY <2>1, <6>1 DEF Current
        <5>2. CASE j # 1
          BY <2>2, <4>2, <5>2
        <5>3. QED
          BY <5>1, <5>2
      <4>3. QED
        BY <1>5, <1>7, <4>1, <4>2
    <3>2. QED
      BY <1>1, <1>2, <2>1, <3>1 DEF ReachInv
  <2>15. QED
    BY <2>5, <2>7, <2>9, <2>10, <2>13, <2>14 DEF SweepInv
<1>8. QED
  BY <1>6, <1>7

(* A pass is begun, or the block is done, or STOP was seen.                *)
LEMMA PassInv ==
    ASSUME SweepInv, Pass
    PROVE  SweepInv'
<1> DEFINE ex == req.excluded
<1>1. /\ TypeOK /\ ListsInv /\ CurrentInv /\ ProbedInv /\ CountInv /\ ReachInv
      /\ pc = "pass" /\ passes \in Nat /\ sent \in Nat /\ total \in Nat
      /\ UNCHANGED <<req, passopt, nets, rest, addrs, passes, phase, STOP, sent, total,
                     probed, units, late>>
  BY DEF SweepInv, Pass, TypeOK, inputs, counts, history
<1>2. pc' = IF passes = 0 THEN "block" ELSE IF STOP THEN "window" ELSE "send"
  BY DEF Pass
<1>3. P \in Nat /\ P' = P
  BY <1>1, InputsAre, SameProbes
<1>4. TypeOK'
  BY <1>1, <1>2 DEF TypeOK, PcStates
<1>5. ListsInv'
  BY <1>1, <1>2 DEF ListsInv, Swept
<1>6. CurrentInv'
  <2>1. pc' = "send" => passes >= 1
    BY <1>1, <1>2
  <2>2. QED
    BY <1>1, <1>2, <1>3, <2>1 DEF CurrentInv
<1>7. ProbedInv'
  BY <1>1, <1>2, SameProbes DEF ProbedInv
<1>8. CountInv'
  <2>1. total = (sent + Owed) + P * Total(Counts(rest, ex)) /\ sent <= total /\ sent = OnTheWire
    BY <1>1 DEF CountInv, Sweeping
  <2>2. pc' # "window" => Owed' = Owed
    <3>1. CASE passes = 0
      <4>1. IsFiniteSet(Addresses) /\ addrs \in SUBSET Addresses
        <5>1. 2^Width - 1 \in Int
          BY SizeEnds
        <5> DEFINE N == 2^Width - 1
        <5> HIDE DEF N
        <5>2. N \in Int => IsFiniteSet(0 .. N)
          BY FS_Interval
        <5>3. QED
          BY <1>1, <5>1, <5>2 DEF N, Addresses, TypeOK
      <4>2. Cardinality(addrs) \in Nat
        BY <4>1, FS_Subset, FS_CardinalityType
      <4>3. 0 * Cardinality(addrs) = 0
        BY <4>2
      <4>4. QED
        BY <1>1, <1>2, <3>1, <4>3 DEF Owed
    <3>2. CASE passes # 0
      BY <1>1, <1>2, <3>2 DEF Owed
    <3>3. QED
      BY <3>1, <3>2
  <2>3. pc' = "window" => STOP'
    BY <1>1, <1>2
  <2>4. pc' # "window" => total' = (sent' + Owed') + P' * Total(Counts(rest', req'.excluded))
    BY <1>1, <1>3, <2>1, <2>2
  <2>5. sent' <= total' /\ sent' = OnTheWire'
    BY <1>1, <2>1, SameProbes
  <2>6. pc' \in {"block", "window", "send"}
    BY <1>2
  <2>7. QED
    BY <2>3, <2>4, <2>5, <2>6 DEF CountInv, Sweeping, Swept
<1>9. ReachInv'
  <2>1. \A a \in Current : probed[a] = P \/ a \in Current' \/ STOP
    <3>1. passes = 0 => \A a \in addrs : probed[a] = P
      <4>1. \A a \in addrs : probed[a] + passes = P /\ probed[a] \in Nat
        BY <1>1 DEF CurrentInv, TypeOK
      <4>2. QED
        BY <4>1
    <3>2. Current = addrs
      BY <1>1 DEF Current
    <3>3. passes # 0 => STOP \/ Current' = addrs
      BY <1>1, <1>2 DEF Current
    <3>4. QED
      BY <3>1, <3>2, <3>3
  <2>2. QED
    BY <1>1, <1>2, <1>3, <2>1 DEF ReachInv, Sweeping, Swept
<1>10. QED
  BY <1>4, <1>5, <1>6, <1>7, <1>8, <1>9 DEF SweepInv

(* The window and the end.                                                 *)
LEMMA FinishInv ==
    ASSUME SweepInv, Finish
    PROVE  SweepInv'
<1>1. /\ TypeOK /\ ListsInv /\ CurrentInv /\ ProbedInv /\ CountInv /\ ReachInv
      /\ UNCHANGED <<req, passopt, nets, rest, addrs, passes, STOP, sent, total, probed,
                     units, late>>
      /\ pc \in Swept /\ pc' \in Swept
  BY DEF SweepInv, Finish, Swept, inputs, counts, history
<1>2. TypeOK'
  BY <1>1 DEF Finish, TypeOK, PcStates
<1>3. ListsInv'
  BY <1>1 DEF ListsInv, Swept
<1>4. CurrentInv'
  BY <1>1 DEF CurrentInv, Swept
<1>5. ProbedInv'
  BY <1>1, SameProbes DEF ProbedInv, Swept
<1>6. CountInv'
  BY <1>1, SameProbes DEF CountInv, Sweeping, Swept
<1>7. ReachInv'
  BY <1>1, SameProbes DEF ReachInv, Current, Swept
<1>8. QED
  BY <1>2, <1>3, <1>4, <1>5, <1>6, <1>7 DEF SweepInv

(* STOP, or nothing.                                                       *)
LEMMA StopInv ==
    ASSUME SweepInv, Stop \/ UNCHANGED vars
    PROVE  SweepInv'
<1>1. /\ TypeOK /\ ListsInv /\ CurrentInv /\ ProbedInv /\ CountInv /\ ReachInv
      /\ UNCHANGED <<req, passopt, pc, nets, rest, addrs, passes, phase, sent, total, probed,
                     units, late>>
      /\ STOP => STOP'
      /\ STOP' \in BOOLEAN
  BY DEF SweepInv, TypeOK, Stop, vars, inputs, counts, history
<1>2. TypeOK'
  BY <1>1 DEF TypeOK
<1>3. ListsInv'
  BY <1>1 DEF ListsInv
<1>4. CurrentInv'
  BY <1>1, SameProbes DEF CurrentInv
<1>5. ProbedInv'
  BY <1>1, SameProbes DEF ProbedInv
<1>6. CountInv'
  <2>1. Owed' = Owed
    BY <1>1 DEF Owed
  <2>2. QED
    BY <1>1, <2>1, SameProbes DEF CountInv
<1>7. ReachInv'
  <2>1. Current' = Current
    BY <1>1 DEF Current
  <2>2. QED
    BY <1>1, <2>1, SameProbes DEF ReachInv
<1>8. QED
  BY <1>2, <1>3, <1>4, <1>5, <1>6, <1>7 DEF SweepInv

(* A pass is sent: one more for each address of the block, or, if a send   *)
(* fails, for those before the failure.                                    *)
LEMMA SendInv ==
    ASSUME SweepInv, Send
    PROVE  SweepInv'
<1> DEFINE ex == req.excluded
           c == Cardinality(addrs)
           n == Total(Counts(rest, ex))
<1>1. /\ TypeOK /\ ListsInv /\ CurrentInv /\ ProbedInv /\ CountInv /\ ReachInv
      /\ pc = "send" /\ passes \in Nat /\ sent \in Nat /\ total \in Nat /\ rest \in Seq(Nets)
      /\ addrs \subseteq Addresses /\ probed \in [Addresses -> Nat]
      /\ units \in Nat /\ late \in Nat
      /\ UNCHANGED <<req, passopt, nets, rest, addrs, phase, STOP, total>>
  BY DEF SweepInv, Send, TypeOK, inputs
<1>2. ex \in SUBSET Nets /\ P \in Nat /\ P >= 1 /\ P' = P
  BY <1>1, InputsAre DEF P
<1>3. /\ addrs # {} /\ passes >= 1
      /\ \A a \in addrs : /\ probed[a] + passes = P
                          /\ \A x \in ex : a \notin NetAddrs(x)
                          /\ \A i \in DOMAIN rest : a \notin NetAddrs(rest[i])
  BY <1>1 DEF CurrentInv
<1>4. \A a \in Addresses : Allowed(a)' = Allowed(a) /\ Allowed(a) \in Nat
  BY <1>1, <1>2 DEF Allowed, P
<1>5. \A a \in addrs : Allowed(a) = P
  BY <1>3 DEF Allowed, P
<1>6. /\ \A a \in Addresses : probed[a] \in Nat /\ probed[a] <= Allowed(a)
      /\ \A i \in DOMAIN rest : \A a \in NetAddrs(rest[i]) : probed[a] = 0 /\ a \in Addresses
  <2>1. \A i \in DOMAIN rest : NetAddrs(rest[i]) \subseteq Addresses
    BY <1>1, NetIs
  <2>2. QED
    BY <1>1, <2>1 DEF ProbedInv, NoOverProbing
\* A probe of some of the addresses of the block.
<1>7. ASSUME NEW A \in SUBSET addrs,
             probed' = [a \in Addresses |-> probed[a] + (IF a \in A THEN 1 ELSE 0)],
             pc' \notin {"targets", "sweep"}
      PROVE  probed' \in [Addresses -> Nat] /\ ProbedInv'
  <2>1. \A a \in Addresses : probed'[a] = probed[a] + (IF a \in A THEN 1 ELSE 0)
    BY <1>7
  <2>2. \A a \in Addresses : a \notin A => probed'[a] = probed[a]
    BY <1>6, <2>1
  <2>3. \A a \in A : probed'[a] = probed[a] + 1
    BY <1>1, <2>1
  <2>4. \A a \in Addresses : probed'[a] \in Nat
    BY <1>1, <1>6, <2>2, <2>3
  <2>5. probed' \in [Addresses -> Nat]
    BY <1>7, <2>1, <2>4
  <2>6. \A a \in A : probed'[a] <= P
    <3>1. \A a \in A : probed[a] + passes = P /\ probed[a] \in Nat
      BY <1>1, <1>3
    <3>2. QED
      BY <1>1, <1>2, <1>3, <2>3, <3>1
  <2>7. \A a \in Addresses : probed'[a] <= Allowed(a)'
    BY <1>4, <1>5, <1>6, <2>2, <2>6
  <2>8. \A i \in DOMAIN rest' : \A a \in NetAddrs(rest'[i]) : probed'[a] = 0
    BY <1>1, <1>3, <1>6, <2>2
  <2>9. QED
    BY <1>7, <2>5, <2>7, <2>8 DEF ProbedInv, NoOverProbing
<1>8. units' \in Nat /\ late' \in Nat
  BY <1>1 DEF Send, Probe
<1>9. ListsInv' <=> (pc' \in {"targets", "sweep"} \cup Swept => ListsInv')
  <2>1. pc' \notin {"targets", "sweep"} \cup Swept => ListsInv'
    BY <1>1 DEF ListsInv
  <2>2. QED
    BY <2>1
<1>10. /\ IsFiniteSet(addrs) /\ c \in Nat /\ n \in Nat
  <2>1. 2^Width - 1 \in Int
    BY SizeEnds
  <2> DEFINE N == 2^Width - 1
  <2> HIDE DEF N
  <2>2. N \in Int => IsFiniteSet(0 .. N)
    BY FS_Interval
  <2>3. IsFiniteSet(Addresses)
    BY <2>1, <2>2 DEF N, Addresses
  <2>4. IsFiniteSet(addrs)
    BY <1>1, <2>3, FS_Subset
  <2>5. QED
    BY <1>1, <1>2, <2>4, FS_CardinalityType, CountsAre
<1>11. total = (sent + passes * c) + P * n /\ sent = OnTheWire /\ sent <= total
  BY <1>1 DEF CountInv, Sweeping, Owed
<1> HIDE DEF c, n
<1>12. CASE /\ Probe(addrs)
            /\ sent' = sent + c
            /\ passes' = passes - 1
            /\ pc' = "pass"
  <2>1. probed' = [a \in Addresses |-> probed[a] + (IF a \in addrs THEN 1 ELSE 0)]
    BY <1>12 DEF Probe
  <2>2. probed' \in [Addresses -> Nat] /\ ProbedInv'
    BY <1>7, <1>12, <2>1
  <2>3. passes' \in Nat /\ passes' + 1 = passes /\ sent' \in Nat
    BY <1>1, <1>3, <1>10, <1>12
  <2>4. TypeOK'
    BY <1>1, <1>8, <1>12, <2>2, <2>3 DEF TypeOK, PcStates
  <2>5. ListsInv'
    BY <1>9, <1>12 DEF Swept
  <2>6. \A a \in addrs : probed'[a] = probed[a] + 1 /\ probed[a] \in Nat
    BY <1>1, <2>1
  <2>7. CurrentInv'
    <3>1. \A a \in addrs : probed'[a] + passes' = P
      <4>1. TAKE a \in addrs
      <4>2. probed'[a] = probed[a] + 1 /\ probed[a] \in Nat /\ probed[a] + passes = P
        BY <1>3, <2>6
      <4>3. \A x, y \in Nat : (x + 1) + y = x + (y + 1)
        OBVIOUS
      <4>4. (probed[a] + 1) + passes' = probed[a] + (passes' + 1)
        BY <2>3, <4>2, <4>3
      <4>5. QED
        BY <2>3, <4>2, <4>4
    <3>2. QED
      BY <1>1, <1>2, <1>3, <1>12, <3>1 DEF CurrentInv
  <2>8. CountInv'
    <3>1. passes * c = passes' * c + c /\ passes' * c \in Nat /\ P * n \in Nat
      <4>1. \A x, y \in Nat : (x + 1) * y = x * y + y /\ x * y \in Nat
        OBVIOUS
      <4>2. (passes' + 1) * c = passes' * c + c /\ passes' * c \in Nat /\ P * n \in Nat
        BY <1>2, <1>10, <2>3, <4>1
      <4>3. QED
        BY <2>3, <4>2
    <3>2. Owed' = passes' * c
      BY <1>1, <1>12 DEF Owed, c
    <3>3. total = (sent' + Owed') + P * n
      <4>1. \A x \in Nat : sent + (x + c) = (sent + c) + x
        BY <1>1, <1>10
      <4>2. sent + (passes' * c + c) = (sent + c) + passes' * c
        BY <3>1, <4>1
      <4>3. QED
        BY <1>11, <1>12, <3>1, <3>2, <4>2
    <3>4. total' = (sent' + Owed') + P' * Total(Counts(rest', req'.excluded))
      BY <1>1, <1>2, <3>3 DEF n
    <3>5. sent' <= total'
      <4>1. Owed' \in Nat /\ P * n \in Nat
        BY <3>1, <3>2
      <4> DEFINE x == Owed'
                 y == P * n
      <4> HIDE DEF x, y
      <4>2. x \in Nat /\ y \in Nat /\ total = (sent' + x) + y
        BY <3>3, <4>1 DEF x, y
      <4>3. \A u \in Nat : u <= (u + x) + y
        BY <4>2
      <4>4. QED
        BY <1>1, <2>3, <4>2, <4>3
    <3>6. sent' = OnTheWire'
      <4>1. Total([i \in 1 .. 2^Width |-> probed'[i - 1]])
               = Total([i \in 1 .. 2^Width |-> probed[i - 1]]) + Cardinality(addrs)
        <5> DEFINE f == probed
                   g == [a \in Addresses |-> f[a] + (IF a \in addrs THEN 1 ELSE 0)]
        <5>1. probed' = g
          BY <2>1
        <5>2. Total([i \in 1 .. 2^Width |-> g[i - 1]])
                 = Total([i \in 1 .. 2^Width |-> f[i - 1]]) + Cardinality(addrs)
          BY <1>1, WireGrows, Zenon
        <5> HIDE DEF g
        <5>3. QED
          BY <5>1, <5>2
      <4>2. QED
        BY <1>11, <1>12, <4>1 DEF OnTheWire, c
    <3>7. QED
      BY <1>12, <3>4, <3>5, <3>6 DEF CountInv, Swept
  <2>9. ReachInv'
    <3>1. Current = addrs /\ Current' = addrs
      BY <1>1, <1>12 DEF Current
    <3>2. ASSUME NEW i \in DOMAIN AllBlocks(nets), NEW a \in BlockAddrs(AllBlocks(nets)[i], ex),
                 probed[a] = P, a \notin addrs
          PROVE  probed'[a] = P
      <4>1. nets \in Seq(Nets) /\ Separate(nets)
        BY <1>1, TargetsSeparate DEF ListsInv
      <4>2. AllBlocks(nets)[i] \in Nets
        BY <4>1, AllBlocksAre
      <4>3. a \in Addresses
        BY <1>2, <4>2, BlockAddrsAre, ProbesAre, NetIs
      <4>4. QED
        BY <1>6, <2>1, <3>2, <4>3
    <3>3. QED
      BY <1>1, <1>2, <3>1, <3>2 DEF ReachInv, Sweeping
  <2>10. QED
    BY <2>2, <2>4, <2>5, <2>7, <2>8, <2>9 DEF SweepInv
<1>13. CASE /\ \E limit \in addrs : Probe({a \in addrs : a < limit})
            /\ pc' = "err"
            /\ UNCHANGED <<sent, passes>>
  <2>1. PICK limit \in addrs : Probe({a \in addrs : a < limit})
    BY <1>13
  <2> DEFINE A == {a \in addrs : a < limit}
  <2>2. A \in SUBSET addrs
    OBVIOUS
  <2>3. probed' = [a \in Addresses |-> probed[a] + (IF a \in A THEN 1 ELSE 0)]
    BY <2>1 DEF Probe
  <2> HIDE DEF A
  <2>4. probed' \in [Addresses -> Nat] /\ ProbedInv'
    BY <1>7, <1>13, <2>2, <2>3
  <2>5. TypeOK'
    BY <1>1, <1>8, <1>13, <2>4 DEF TypeOK, PcStates
  <2>6. ListsInv' /\ CurrentInv'
    BY <1>9, <1>13 DEF Swept, CurrentInv
  <2>7. CountInv' /\ ReachInv'
    BY <1>1, <1>11, <1>13 DEF CountInv, ReachInv, Sweeping, Swept
  <2>8. QED
    BY <2>4, <2>5, <2>6, <2>7 DEF SweepInv
<1>14. QED
  BY <1>12, <1>13 DEF Send, c

(* All of them together.                                                   *)
LEMMA NextInv == SweepInv /\ [Next]_vars => SweepInv'
<1> SUFFICES ASSUME SweepInv, [Next]_vars PROVE SweepInv'
  OBVIOUS
<1>1. CASE Build
  BY <1>1, BuildInv
<1>2. CASE Enter
  BY <1>2, EnterInv
<1>3. CASE Block
  BY <1>3, BlockInv
<1>4. CASE Pass
  BY <1>4, PassInv
<1>5. CASE Send
  BY <1>5, SendInv
<1>6. CASE Finish
  BY <1>6, FinishInv
<1>7. CASE Stop \/ UNCHANGED vars
  BY <1>7, StopInv
<1>8. QED
  BY <1>1, <1>2, <1>3, <1>4, <1>5, <1>6, <1>7 DEF Next

(* Along every run of the sweep, what is on the wire, what is left to do and*)
(* what the counters say fit together as SweepInv demands.                 *)
THEOREM SweepInvariant == Spec => []SweepInv
<1>1. Init => SweepInv
  BY InitInv
<1>2. SweepInv /\ [Next]_vars => SweepInv'
  BY NextInv
<1>3. QED
  BY <1>1, <1>2, PTL DEF Spec

-----------------------------------------------------------------------------
(* No address of an ignored range is ever probed, and none more often than *)
(* --passes says, whatever is asked for and whichever order it comes in:   *)
(* the list of targets is disjoint, and so are their blocks.               *)
THEOREM NoOverProbingHolds == Spec => []NoOverProbing
<1>1. SweepInv => NoOverProbing
  BY DEF SweepInv, ProbedInv
<1>2. QED
  BY <1>1, SweepInvariant, PTL

(* The counters of ScanProgress are honest: the total computed before the  *)
(* sweep is never passed, it is reached by a sweep that ends by itself,    *)
(* and what is counted is what went out.                                   *)
THEOREM ProgressHonestHolds == Spec => []ProgressHonest
<1>1. SweepInv => ProgressHonest
  BY DEF SweepInv, CountInv, ProgressHonest, OnTheWire, Done, Swept
<1>2. QED
  BY <1>1, SweepInvariant, PTL

(* A sweep that ends by itself leaves no host out but those the property   *)
(* names: an address of an ignored range, or at the edge of the piece of a *)
(* larger requested network.                                               *)
THEOREM CoverageHolds == Spec => []Coverage
<1>1. ASSUME SweepInv, Done, ~STOP,
             NEW n \in Range(Requested(req)), ~IsApipaNet(n), NEW a \in ProbeAddrs(n)
      PROVE  \/ probed[a] = AtLeastOne(passopt)
             \/ \E x \in req.excluded : a \in NetAddrs(x)
             \/ \E m \in Range(Requested(req)) :
                   NetContains(m, n) /\ a \notin ProbeAddrs(PieceOf(m, a))
  <2> DEFINE bs == AllBlocks(nets)
             ex == req.excluded
  <2>1. /\ TypeOK /\ req \in RequestType /\ ex \in SUBSET Nets
        /\ nets = BuildTargets(req) /\ rest = <<>> /\ Current = {}
        /\ \A i \in DOMAIN bs : \A b \in BlockAddrs(bs[i], ex) :
              probed[b] = P \/ b \in Current \/ \E j \in DOMAIN rest : b \in BlockAddrs(rest[j], ex)
    BY <1>1, InputsAre DEF SweepInv, ListsInv, ReachInv, Done, Current, Sweeping, Swept
  <2>2. \A i \in DOMAIN bs : \A b \in BlockAddrs(bs[i], ex) : probed[b] = P
    BY <2>1
  <2>3. n \in Nets /\ a \in NetAddrs(n)
    <3>1. Requested(req) \in Seq(Nets)
      BY <2>1, RequestedIs
    <3>2. n \in Nets
      BY <3>1 DEF Range
    <3>3. QED
      BY <3>2, ProbesAre
  <2>4. CASE Covered(n, ex)
    <3>1. PICK x \in ex : NetContains(x, n)
      BY <2>4 DEF Covered
    <3>2. NetAddrs(n) \subseteq NetAddrs(x)
      BY <2>1, <2>3, <3>1, ContainsIs
    <3>3. QED
      BY <2>3, <3>2
  <2>5. CASE ~Covered(n, ex)
    <3>1. PICK i \in DOMAIN nets : NetContains(nets[i], n)
      BY <1>1, <2>1, <2>5, TargetsAre
    <3> DEFINE m == nets[i]
    <3>2. nets \in Seq(Nets) /\ Separate(nets) /\ m \in Nets /\ m \in Range(Requested(req))
      BY <2>1, TargetsSeparate, TargetsAre
    <3>3. a \in NetAddrs(m)
      BY <2>3, <3>1, <3>2, ContainsIs
    <3>4. PICK j \in DOMAIN bs : bs[j] = PieceOf(m, a)
      BY <3>2, <3>3, AllBlocksAre
    <3>5. bs[j] \in Nets
      BY <3>2, AllBlocksAre
    <3>6. BlockAddrs(bs[j], ex) = Survivors(bs[j], ex)
      BY <2>1, <3>5, BlockAddrsAre
    <3>7. CASE a \in ProbeAddrs(bs[j])
      <4>1. a \in Survivors(bs[j], ex) \/ \E x \in ex : a \in NetAddrs(x)
        BY <3>7 DEF Survivors
      <4>2. QED
        BY <2>2, <3>6, <4>1 DEF P
    <3>8. CASE a \notin ProbeAddrs(bs[j])
      BY <3>1, <3>2, <3>4, <3>8
    <3>9. QED
      BY <3>7, <3>8
  <2>6. QED
    BY <2>4, <2>5
<1>2. SweepInv => Coverage
  BY <1>1 DEF Coverage
<1>3. QED
  BY <1>2, SweepInvariant, PTL

-----------------------------------------------------------------------------
(* The blocks Driver counts.                                               *)
LEMMA LiveIs ==
    ASSUME NEW bs \in Seq(Nets)
    PROVE  /\ IsFiniteSet(Live(bs)) /\ Cardinality(Live(bs)) \in Nat
           /\ Cardinality(Live(bs)) = 0 <=>
                 \A i \in DOMAIN bs : BlockAddrs(bs[i], req.excluded) = {}
<1>1. IsFiniteSet(DOMAIN bs)
  BY FS_Interval
<1>2. Live(bs) \in SUBSET DOMAIN bs
  BY DEF Live
<1>3. IsFiniteSet(Live(bs))
  BY <1>1, <1>2, FS_Subset
<1>4. Live(bs) = {} <=> \A i \in DOMAIN bs : BlockAddrs(bs[i], req.excluded) = {}
  BY DEF Live
<1>5. QED
  BY <1>3, <1>4, FS_EmptySet, FS_CardinalityType

(* The first block counts for Driver if it has an address to probe.        *)
LEMMA LiveTail ==
    ASSUME NEW bs \in Seq(Nets), bs # <<>>, req.excluded \in SUBSET Nets
    PROVE  Cardinality(Live(bs)) = Cardinality(Live(Tail(bs)))
                + (IF BlockAddrs(Head(bs), req.excluded) = {} THEN 0 ELSE 1)
<1> DEFINE t == Tail(bs)
           ex == req.excluded
           T == {i + 1 : i \in Live(t)}
           f == [i \in Live(t) |-> i + 1]
<1>1. /\ t \in Seq(Nets) /\ 1 \in DOMAIN bs /\ Head(bs) = bs[1]
      /\ \A i \in DOMAIN t : i + 1 \in DOMAIN bs /\ i + 1 # 1 /\ t[i] = bs[i + 1]
      /\ \A i \in DOMAIN bs : i # 1 => i - 1 \in DOMAIN t /\ bs[i] = t[i - 1]
  BY CountsTail
<1>2. /\ \A i \in DOMAIN t : i \in Live(t) <=> BlockAddrs(t[i], ex) # {}
      /\ \A i \in DOMAIN bs : i \in Live(bs) <=> BlockAddrs(bs[i], ex) # {}
      /\ Live(t) \subseteq DOMAIN t /\ Live(bs) \subseteq DOMAIN bs
  BY DEF Live
<1>3. /\ DOMAIN t \subseteq Nat /\ DOMAIN bs \subseteq Nat
  BY <1>1
<1>4. IsFiniteSet(Live(t)) /\ Cardinality(Live(t)) \in Nat
  BY <1>1, LiveIs
<1> HIDE DEF t
<1>5. 1 \notin T
  BY <1>1, <1>2
<1>6. T = Live(bs) \ {1}
  <2>1. ASSUME NEW i \in Live(t) PROVE i + 1 \in Live(bs) \ {1}
    BY <1>1, <1>2
  <2>2. ASSUME NEW i \in Live(bs) \ {1} PROVE i \in T
    <3>1. i - 1 \in DOMAIN t /\ bs[i] = t[i - 1] /\ i \in Nat
      BY <1>1, <1>2, <1>3
    <3>2. i - 1 \in Live(t) /\ (i - 1) + 1 = i
      BY <1>2, <3>1
    <3>3. QED
      BY <3>2
  <2>3. QED
    BY <2>1, <2>2
<1>7. Cardinality(T) = Cardinality(Live(t)) /\ IsFiniteSet(T)
  <2>1. f \in [Live(t) -> T]
    OBVIOUS
  <2>2. \A i, j \in Live(t) : f[i] = f[j] => i = j
    BY <1>2, <1>3
  <2>3. \A k \in T : \E i \in Live(t) : f[i] = k
    OBVIOUS
  <2> HIDE DEF f, T
  <2>4. f \in Bijection(Live(t), T)
    BY <2>1, <2>2, <2>3 DEF Bijection, Injection, Surjection, IsInjective
  <2>5. QED
    BY <1>4, <2>4, FS_Bijection DEF ExistsBijection
<1> HIDE DEF T
<1>8. CASE BlockAddrs(Head(bs), ex) = {}
  <2>1. T = Live(bs)
    BY <1>1, <1>2, <1>6, <1>8
  <2>2. QED
    BY <1>4, <1>7, <1>8, <2>1 DEF t
<1>9. CASE BlockAddrs(Head(bs), ex) # {}
  <2>1. Live(bs) = T \cup {1}
    BY <1>1, <1>2, <1>6, <1>9
  <2>2. Cardinality(Live(bs)) = Cardinality(T) + 1
    BY <1>5, <1>7, <2>1, FS_AddElement
  <2>3. QED
    BY <1>7, <1>9, <2>2 DEF t
<1>10. QED
  BY <1>8, <1>9

(* There are no more of them than addresses.                               *)
LEMMA LiveBound ==
    ASSUME NEW bs \in Seq(Nets), Separate(bs), req.excluded \in SUBSET Nets
    PROVE  Cardinality(Live(bs)) \in 0 .. 2^Width
<1> DEFINE f == [i \in Live(bs) |-> CHOOSE a \in Addresses : a \in NetAddrs(bs[i])]
<1>1. \A i \in Live(bs) : i \in DOMAIN bs /\ bs[i] \in Nets
  BY DEF Live
<1>2. \A i \in Live(bs) : f[i] \in Addresses /\ f[i] \in NetAddrs(bs[i])
  <2>1. \A i \in Live(bs) : bs[i].base \in Addresses /\ bs[i].base \in NetAddrs(bs[i])
    BY <1>1, NetIs
  <2>2. QED
    BY <2>1
<1>3. f \in [Live(bs) -> Addresses]
  BY <1>2
<1> HIDE DEF f
<1>4. \A i, j \in Live(bs) : f[i] = f[j] => i = j
  BY <1>1, <1>2 DEF Separate
<1>5. f \in Injection(Live(bs), Addresses)
  BY <1>3, <1>4 DEF Injection, IsInjective
<1>6. IsFiniteSet(Addresses) /\ Cardinality(Addresses) = 2^Width /\ 2^Width \in Nat
  <2> DEFINE N == 2^Width
  <2>1. N \in Nat /\ N >= 1 /\ Addresses = 0 .. N - 1
    BY SizeEnds DEF Addresses
  <2> HIDE DEF N
  <2>2. IsFiniteSet(0 .. N - 1) /\ Cardinality(0 .. N - 1) = N
    BY <2>1, FS_Interval
  <2>3. QED
    BY <2>1, <2>2 DEF N
<1>7. Cardinality(Live(bs)) <= Cardinality(Addresses)
  BY <1>5, <1>6, FS_Injection
<1>8. QED
  BY <1>6, <1>7, LiveIs

-----------------------------------------------------------------------------
(* Driver's functions of the one scan.                                     *)
LEMMA OneScan ==
    /\ \A x : [s \in {1} |-> x][1] = x
    /\ \A x, y : [[s \in {1} |-> x] EXCEPT ![1] = y] = [s \in {1} |-> y]
  OBVIOUS

(* Step by step: the window and the end,                                   *)
LEMMA FinishStep ==
    ASSUME Finish
    PROVE  D!DriverStep(1)
<1>1. /\ UNCHANGED <<req, passopt, nets, rest, addrs, passes, STOP, sent, total, probed,
                     units, late>>
      /\ pc \in Swept /\ pc' \in Swept
  BY DEF Finish, Swept, inputs, counts, history
<1>2. DriverBlocks' = DriverBlocks
  BY <1>1 DEF DriverBlocks, Live, Swept
<1>3. CASE pc = "window" /\ pc' = "collect" /\ phase' = "Collecting"
  <2>1. D!DriverWindow(1)
    BY <1>1, <1>2, <1>3, OneScan DEF D!DriverWindow, D!Goto, D!SetPhase, D!SweepUnchanged
  <2>2. QED
    BY <2>1 DEF D!DriverStep
<1>4. CASE pc = "collect" /\ pc' = "finish" /\ UNCHANGED phase
  <2>1. D!DriverWake(1)
    BY <1>1, <1>2, <1>4, OneScan DEF D!DriverWake, D!Goto, D!SetPhase, D!SweepUnchanged
  <2>2. QED
    BY <2>1 DEF D!DriverStep
<1>5. CASE pc = "finish" /\ pc' = "ok" /\ phase' = "Done"
  <2>1. D!DriverFinish(1)
    BY <1>1, <1>2, <1>5, OneScan DEF D!DriverFinish, D!Goto, D!SetPhase, D!SweepUnchanged
  <2>2. QED
    BY <2>1 DEF D!DriverStep
<1>6. QED
  BY <1>3, <1>4, <1>5 DEF Finish

(* the choice of targets,                                                  *)
LEMMA BuildStep ==
    ASSUME SweepInv, Build
    PROVE  D!DriverStep(1)
<1>1. /\ TypeOK /\ pc = "targets" /\ rest = <<>> /\ rest' = <<>> /\ nets' = BuildTargets(req)
      /\ UNCHANGED <<req, passopt, addrs, passes, STOP, sent, total, probed, units, late>>
  BY DEF SweepInv, ListsInv, Build, inputs, counts, history
<1>2. req.excluded \in SUBSET Nets
  BY <1>1, InputsAre
<1>3. DriverBlocks = 0
  <2>1. Cardinality(Live(<<>>)) = 0
    BY NoBlocks, LiveIs
  <2>2. QED
    BY <1>1, <2>1 DEF DriverBlocks
<1>4. CASE nets' # <<>> /\ ~STOP
  <2>1. pc' = "sweep" /\ phase' = "Sweep"
    BY <1>4 DEF Build
  <2>2. DriverBlocks' \in 0 .. 2^Width
    <3>1. AllBlocks(nets') \in Seq(Nets) /\ Separate(AllBlocks(nets'))
      BY <1>1, TargetsSeparate, AllBlocksAre
    <3>2. Cardinality(Live(AllBlocks(nets'))) \in 0 .. 2^Width
      BY <1>2, <3>1, LiveBound
    <3>3. DriverBlocks' = Cardinality(Live(AllBlocks(nets')))
      BY <1>1, <2>1 DEF DriverBlocks, Live
    <3>4. QED
      BY <3>2, <3>3
  <2>3. D!DriverTargets(1)
    BY <1>1, <1>4, <2>1, <2>2, OneScan DEF D!DriverTargets, D!Goto, D!SetPhase
  <2>4. QED
    BY <2>3 DEF D!DriverStep
<1>5. CASE ~(nets' # <<>> /\ ~STOP)
  <2>1. pc' = "finish" /\ phase' = phase
    BY <1>5 DEF Build
  <2>2. DriverBlocks' = 0
    <3>1. Cardinality(Live(<<>>)') = 0
      <4>1. Live(<<>>)' = Live(<<>>)
        BY <1>1 DEF Live
      <4>2. QED
        BY <4>1, NoBlocks, LiveIs
    <3>2. QED
      BY <1>1, <2>1, <3>1 DEF DriverBlocks
  <2>3. D!DriverTargets(1)
    BY <1>1, <1>3, <2>1, <2>2, OneScan DEF D!DriverTargets, D!Goto, D!SetPhase
  <2>4. QED
    BY <2>3 DEF D!DriverStep
<1>6. QED
  BY <1>4, <1>5

(* With nothing to probe no block has an address, so Driver too goes on to *)
(* the window at once.                                                     *)
LEMMA EnterStep ==
    ASSUME SweepInv, Enter
    PROVE  D!DriverStep(1)
<1> DEFINE bs == AllBlocks(nets)
           ex == req.excluded
<1>1. /\ TypeOK /\ pc = "sweep" /\ rest = <<>> /\ nets = BuildTargets(req)
      /\ UNCHANGED <<req, passopt, nets, addrs, passes, phase, STOP, probed, units, late>>
  BY DEF SweepInv, ListsInv, Enter, inputs, history
<1>2. bs \in Seq(Nets) /\ ex \in SUBSET Nets
  BY <1>1, TargetsSeparate, AllBlocksAre, InputsAre
<1>3. HostsTotal(nets, ex) = 0 <=> Cardinality(Live(bs)) = 0
  BY <1>2, CountsZero, LiveIs DEF HostsTotal
<1>4. DriverBlocks = Cardinality(Live(bs))
  BY <1>1 DEF DriverBlocks
<1> HIDE DEF bs
<1>6. CASE HostsTotal(nets, ex) = 0
  <2>1. pc' = "window" /\ rest' = <<>>
    BY <1>1, <1>6 DEF Enter
  <2>2. DriverBlocks' = 0
    <3>1. Cardinality(Live(<<>>)) = 0
      BY NoBlocks, LiveIs
    <3>2. DriverBlocks' = Cardinality(Live(<<>>)')
      BY <2>1 DEF DriverBlocks
    <3>3. Live(<<>>)' = Live(<<>>)
      BY <1>1 DEF Live
    <3>4. QED
      BY <3>1, <3>2, <3>3
  <2>3. DriverBlocks = 0
    BY <1>3, <1>4, <1>6
  <2>4. D!DriverSweep(1)
    BY <1>1, <2>1, <2>2, <2>3, OneScan DEF D!DriverSweep, D!Goto, D!SweepUnchanged
  <2>5. QED
    BY <2>4 DEF D!DriverStep
<1>7. CASE HostsTotal(nets, ex) # 0
  <2>1. pc' = "block" /\ rest' = bs
    BY <1>1, <1>7 DEF Enter, bs
  <2>2. DriverBlocks' = DriverBlocks /\ DriverBlocks # 0
    <3>1. DriverBlocks' = Cardinality(Live(rest)')
      BY <2>1 DEF DriverBlocks
    <3>2. Live(rest)' = Live(rest')
      BY <1>1 DEF Live
    <3>3. QED
      BY <1>3, <1>4, <1>7, <2>1, <3>1, <3>2
  <2>3. D!DriverSweep(1)
    BY <1>1, <2>1, <2>2, OneScan DEF D!DriverSweep, D!Goto, D!SweepUnchanged
  <2>4. QED
    BY <2>3 DEF D!DriverStep
<1>8. QED
  BY <1>6, <1>7

(* A block that is skipped is a step Driver does not see.                  *)
LEMMA BlockStep ==
    ASSUME SweepInv, Block
    PROVE  D!DriverStep(1) \/ UNCHANGED <<STOP, D!driverVars>>
<1> DEFINE ex == req.excluded
<1>1. /\ TypeOK /\ pc = "block" /\ rest \in Seq(Nets)
      /\ UNCHANGED <<req, passopt, nets, phase, STOP, sent, total, probed, units, late>>
  BY DEF SweepInv, TypeOK, Block, inputs, counts, history
<1>2. ex \in SUBSET Nets
  BY <1>1, InputsAre
<1>3. DriverBlocks = Cardinality(Live(rest))
  BY <1>1 DEF DriverBlocks
<1>5. CASE STOP \/ rest = <<>>
  <2>1. pc' = "window" /\ UNCHANGED <<rest, addrs, passes>>
    BY <1>5 DEF Block
  <2>2. DriverBlocks' = DriverBlocks
    BY <1>1, <2>1 DEF DriverBlocks, Live
  <2>3. STOP \/ DriverBlocks = 0
    BY <1>3, <1>5, NoBlocks, LiveIs
  <2>4. D!DriverBlock(1)
    BY <1>1, <2>1, <2>2, <2>3, OneScan DEF D!DriverBlock, D!Goto
  <2>5. QED
    BY <2>4 DEF D!DriverStep
<1>6. CASE ~STOP /\ rest # <<>>
  <2> DEFINE t == Tail(rest)
             A == BlockAddrs(Head(rest), ex)
  <2>1. /\ rest' = t /\ addrs' = A
        /\ IF A = {} THEN pc' = "block" /\ passes' = passes
           ELSE pc' = "pass" /\ passes' = AtLeastOne(passopt)
    BY <1>6 DEF Block
  <2>2. Cardinality(Live(rest)) = Cardinality(Live(t)) + (IF A = {} THEN 0 ELSE 1)
    BY <1>1, <1>2, <1>6, LiveTail
  <2>3. Cardinality(Live(t)) \in Nat
    <3>1. t \in Seq(Nets)
      BY <1>1, <1>6
    <3>2. QED
      BY <3>1, LiveIs
  <2> HIDE DEF t, A
  <2>4. DriverBlocks' = Cardinality(Live(t))
    <3>1. DriverBlocks' = Cardinality(Live(rest)')
      BY <2>1 DEF DriverBlocks
    <3>2. Live(rest)' = Live(rest')
      BY <1>1 DEF Live
    <3>3. QED
      BY <2>1, <3>1, <3>2
  <2>5. CASE A = {}
    <3>1. DriverBlocks' = DriverBlocks
      BY <1>3, <2>2, <2>3, <2>4, <2>5
    <3>2. QED
      BY <1>1, <2>1, <2>5, <3>1 DEF D!driverVars
  <2>6. CASE A # {}
    <3>1. DriverBlocks # 0 /\ DriverBlocks' = DriverBlocks - 1
      BY <1>3, <2>2, <2>3, <2>4, <2>6
    <3>2. D!DriverBlock(1)
      BY <1>1, <1>6, <2>1, <2>6, <3>1, OneScan DEF D!DriverBlock, D!Goto, AtLeastOne
    <3>3. QED
      BY <3>2 DEF D!DriverStep
  <2>7. QED
    BY <2>5, <2>6
<1>7. QED
  BY <1>5, <1>6

(* the head of the loop over the passes,                                   *)
LEMMA PassStep ==
    ASSUME Pass
    PROVE  D!DriverStep(1)
<1>1. /\ pc = "pass"
      /\ pc' = IF passes = 0 THEN "block" ELSE IF STOP THEN "window" ELSE "send"
      /\ UNCHANGED <<req, passopt, nets, rest, addrs, passes, phase, STOP, sent, total, probed,
                     units, late>>
  BY DEF Pass, inputs, counts, history
<1>2. DriverBlocks' = DriverBlocks
  BY <1>1 DEF DriverBlocks, Live
<1>3. D!DriverPass(1)
  BY <1>1, <1>2, OneScan DEF D!DriverPass, D!Goto, D!SweepUnchanged
<1>4. QED
  BY <1>3 DEF D!DriverStep

(* a pass, complete or failed,                                             *)
LEMMA SendStep ==
    ASSUME Send
    PROVE  D!DriverStep(1)
<1>1. /\ pc = "send" /\ pc' \in {"pass", "err"}
      /\ pc' = "pass" => passes' = passes - 1
      /\ pc' = "err" => passes' = passes
      /\ units' = units + 1 /\ late' = IF STOP THEN late + 1 ELSE late
      /\ UNCHANGED <<req, passopt, nets, rest, addrs, phase, STOP, total>>
  BY DEF Send, Probe, inputs
<1>2. DriverBlocks' = DriverBlocks
  BY <1>1 DEF DriverBlocks, Live
<1>3. D!DriverSend(1)
  BY <1>1, <1>2, OneScan DEF D!DriverSend, D!Transmit, D!Goto
<1>4. QED
  BY <1>3 DEF D!DriverStep

(* STOP,                                                                   *)
LEMMA StopStep ==
    ASSUME Stop
    PROVE  D!RaiseStop /\ UNCHANGED D!driverVars
<1>1. /\ STOP' = TRUE
      /\ UNCHANGED <<req, passopt, pc, nets, rest, passes, phase, units, late>>
  BY DEF Stop, inputs, history
<1>2. DriverBlocks' = DriverBlocks
  BY <1>1 DEF DriverBlocks, Live
<1>3. QED
  BY <1>1, <1>2 DEF D!RaiseStop, D!driverVars

(* and nothing.                                                            *)
LEMMA StutterStep ==
    ASSUME UNCHANGED vars
    PROVE  UNCHANGED <<STOP, D!driverVars>>
<1>1. UNCHANGED <<STOP, req, passopt, pc, nets, rest, passes, phase, units, late>>
  BY DEF vars, inputs, history
<1>2. DriverBlocks' = DriverBlocks
  BY <1>1 DEF DriverBlocks, Live
<1>3. QED
  BY <1>1, <1>2 DEF D!driverVars

(* Every step of the sweep, with its networks, addresses and counters, is  *)
(* a step of Driver, which knows only how many blocks are left, a change   *)
(* of STOP, or nothing to Driver: what Driver promises of the driver thread*)
(* holds of the sweep as it is.                                            *)
THEOREM ImplementsDriverHolds == Spec => ImplementsDriver
<1>1. ASSUME SweepInv, [Next]_vars
      PROVE  [D!DriverStep(1) \/ (D!RaiseStop /\ UNCHANGED D!driverVars)]_<<STOP, D!driverVars>>
  <2>1. CASE Build
    BY <1>1, <2>1, BuildStep
  <2>2. CASE Enter
    BY <1>1, <2>2, EnterStep
  <2>3. CASE Block
    BY <1>1, <2>3, BlockStep
  <2>4. CASE Pass
    BY <2>4, PassStep
  <2>5. CASE Send
    BY <2>5, SendStep
  <2>6. CASE Finish
    BY <2>6, FinishStep
  <2>7. CASE Stop
    BY <2>7, StopStep
  <2>8. CASE UNCHANGED vars
    BY <2>8, StutterStep
  <2>9. QED
    BY <1>1, <2>1, <2>2, <2>3, <2>4, <2>5, <2>6, <2>7, <2>8 DEF Next
<1>2. QED
  BY <1>1, SweepInvariant, PTL DEF Spec, ImplementsDriver
=============================================================================
