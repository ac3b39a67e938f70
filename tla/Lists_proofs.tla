---------------------------- MODULE Lists_proofs ----------------------------
(***************************************************************************)
(* What the loops of module Lists return, for every list, and the facts    *)
(* about numbers this rests on.                                            *)
(***************************************************************************)
EXTENDS Lists, SequencesExt, FiniteSetTheorems, TLAPS

-----------------------------------------------------------------------------
(* Induction, stated of a set of numbers, and what it gives of a loop.     *)
LEMMA LeastNumber ==
    ASSUME NEW T \in SUBSET Nat, T # {}
    PROVE  \E x \in T : \A y \in T : x <= y
<1> DEFINE Rel == OpToRel(<, Nat)
<1>1. IsWellFoundedOn(Rel, Nat)
  BY NatLessThanWellFounded
<1>2. PICK x \in T : \A y \in T : ~(<<y, x>> \in Rel)
  <2> HIDE DEF Rel
  <2> QED
    BY <1>1, WFMin, Zenon
<1>3. \A y \in T : x <= y
  <2> SUFFICES ASSUME NEW y \in T, y < x PROVE FALSE
    OBVIOUS
  <2>1. <<y, x>> \in Rel
    BY DEF OpToRel
  <2> QED
    BY <1>2, <2>1
<1> QED
  BY <1>3

(* A set of numbers that has 0, and with each number the next, has all.    *)
LEMMA Induction ==
    ASSUME NEW P \in SUBSET Nat, 0 \in P, \A n \in P : n + 1 \in P
    PROVE  P = Nat
<1> SUFFICES ASSUME Nat \ P # {} PROVE FALSE
  OBVIOUS
<1>1. PICK x \in Nat \ P : \A y \in Nat \ P : x <= y
  BY LeastNumber
<1>2. x # 0
  BY <1>1
<1>3. x - 1 \in P
  BY <1>1, <1>2
<1> QED
  BY <1>1, <1>3

(* A loop of n turns has a result: the states it goes through exist.       *)
IsRun(f, n, V, start, step) ==
    /\ f \in [0 .. n -> V]
    /\ f[0] = start
    /\ \A i \in 1 .. n : f[i] = step[<<f[i - 1], i>>]

(* A loop of n turns, from any start and with any step, has its sequence of*)
(* values: the recursive function that describes it exists.                *)
LEMMA LoopExists ==
    ASSUME NEW n \in Nat, NEW V, NEW start \in V, NEW step \in [V \X (1 .. n) -> V]
    PROVE  \E f : IsRun(f, n, V, start, step)
<1> DEFINE Runs(k) == \E f \in [0 .. k -> V] :
               f[0] = start /\ \A i \in 1 .. k : f[i] = step[<<f[i - 1], i>>]
           P == {k \in Nat : k <= n => Runs(k)}
<1>1. 0 \in P
  <2> DEFINE f == [i \in 0 .. 0 |-> start]
  <2>1. f \in [0 .. 0 -> V] /\ f[0] = start
    OBVIOUS
  <2>2. \A i \in 1 .. 0 : f[i] = step[<<f[i - 1], i>>]
    OBVIOUS
  <2> HIDE DEF f
  <2>3. Runs(0)
    BY <2>1, <2>2
  <2> QED
    BY <2>3
<1>2. ASSUME NEW k \in P PROVE k + 1 \in P
  <2> SUFFICES ASSUME k + 1 <= n PROVE Runs(k + 1)
    OBVIOUS
  <2>1. PICK f \in [0 .. k -> V] :
           f[0] = start /\ \A i \in 1 .. k : f[i] = step[<<f[i - 1], i>>]
    BY <1>2
  <2>2. f[k] \in V /\ k + 1 \in 1 .. n
    OBVIOUS
  <2>3. step[<<f[k], k + 1>>] \in V
    BY <2>2
  <2> DEFINE g == [i \in 0 .. k + 1 |-> IF i = k + 1 THEN step[<<f[k], k + 1>>] ELSE f[i]]
  <2>4. g \in [0 .. k + 1 -> V]
    BY <2>3
  <2>5. g[0] = start
    BY <2>1
  <2>6. ASSUME NEW i \in 1 .. k + 1 PROVE g[i] = step[<<g[i - 1], i>>]
    <3>1. CASE i = k + 1
      <4>1. k \in 0 .. k + 1 /\ k # k + 1 /\ (k + 1) - 1 = k
        OBVIOUS
      <4>2. g[(k + 1) - 1] = f[k]
        BY <4>1
      <4>3. g[k + 1] = step[<<f[k], k + 1>>]
        OBVIOUS
      <4> QED
        BY <3>1, <4>2, <4>3
    <3>2. CASE i \in 1 .. k
      <4>1. g[i - 1] = f[i - 1] /\ g[i] = f[i]
        BY <3>2
      <4> QED
        BY <2>1, <3>2, <4>1
    <3> QED
      BY <3>1, <3>2
  <2> HIDE DEF g
  <2> QED
    BY <2>4, <2>5, <2>6
<1> HIDE DEF Runs
<1>3. P = Nat
  BY <1>1, <1>2, Induction
<1>4. Runs(n)
  BY <1>3
<1> QED
  BY <1>4 DEF Runs, IsRun

-----------------------------------------------------------------------------
(* Lists.                                                                  *)

(* Only, as the loop it is.                                                *)
Keeps(f, s, S) ==
    f = [i \in 0 .. Len(s) |->
           IF i = 0 THEN <<>>
           ELSE IF s[i] \in S THEN Append(f[i - 1], s[i]) ELSE f[i - 1]]

(* Only is the last value of such a loop.                                  *)
LEMMA OnlyLoop ==
    ASSUME NEW V, NEW s \in Seq(V), NEW S
    PROVE  \E f : Keeps(f, s, S) /\ Only(s, S) = f[Len(s)]
<1> DEFINE n == Len(s)
           step == [c \in Seq(V) \X (1 .. n) |->
                      IF s[c[2]] \in S THEN Append(c[1], s[c[2]]) ELSE c[1]]
           kept == CHOOSE f : f = [i \in 0 .. Len(s) |->
                      IF i = 0 THEN <<>>
                      ELSE IF s[i] \in S THEN Append(f[i - 1], s[i]) ELSE f[i - 1]]
<1>1. n \in Nat /\ <<>> \in Seq(V)
  OBVIOUS
<1>2. step \in [Seq(V) \X (1 .. n) -> Seq(V)]
  <2> SUFFICES ASSUME NEW k \in Seq(V), NEW i \in 1 .. n
               PROVE  (IF s[i] \in S THEN Append(k, s[i]) ELSE k) \in Seq(V)
    OBVIOUS
  <2> QED
    OBVIOUS
<1>3. PICK f : IsRun(f, n, Seq(V), <<>>, step)
  <2> HIDE DEF n, step
  <2> QED
    BY <1>1, <1>2, LoopExists
<1>4. Keeps(f, s, S)
  <2>1. ASSUME NEW i \in 0 .. n, i # 0
        PROVE  f[i] = IF s[i] \in S THEN Append(f[i - 1], s[i]) ELSE f[i - 1]
    <3>1. i \in 1 .. n /\ i - 1 \in 0 .. n
      BY <1>1, <2>1
    <3>2. f[i - 1] \in Seq(V) /\ f[i] = step[<<f[i - 1], i>>]
      <4> HIDE DEF n, step
      <4> QED
        BY <1>3, <3>1 DEF IsRun
    <3> QED
      BY <3>1, <3>2
  <2> DEFINE g == [i \in 0 .. n |-> IF i = 0 THEN <<>>
                ELSE IF s[i] \in S THEN Append(f[i - 1], s[i]) ELSE f[i - 1]]
  <2>2. ASSUME NEW i \in 0 .. n PROVE f[i] = g[i]
    <3>1. CASE i = 0
      BY <1>3, <3>1 DEF IsRun
    <3>2. CASE i # 0
      <4> HIDE DEF n, step
      <4> QED
        BY <2>1, <3>2
    <3> QED
      BY <3>1, <3>2
  <2>3. f = g
    <3> HIDE DEF g, step, n
    <3>1. f = [i \in 0 .. n |-> f[i]]
      BY <1>3 DEF IsRun
    <3>2. g = [i \in 0 .. n |-> g[i]]
      BY DEF g
    <3> QED
      BY <2>2, <3>1, <3>2
  <2> QED
    BY <2>3, Zenon DEF Keeps
<1>5. Keeps(kept, s, S)
  BY <1>4, Zenon DEF Keeps
<1>6. Only(s, S) = kept[Len(s)]
  BY Zenon DEF Only
<1> QED
  BY <1>5, <1>6

(* t is what the first i elements of s leave: their elements in S, in      *)
(* their order.                                                            *)
Drawn(t, s, i, V, S) ==
    /\ t \in Seq(V)
    /\ \A p \in DOMAIN t : \E j \in 1 .. i : t[p] = s[j] /\ s[j] \in S
    /\ \A j \in 1 .. i : s[j] \in S => \E p \in DOMAIN t : t[p] = s[j]
    /\ \A p, q \in DOMAIN t :
          p < q => \E j, k \in 1 .. i : j < k /\ t[p] = s[j] /\ t[q] = s[k]

(* One more element considered.                                            *)
LEMMA DrawnMore ==
    ASSUME NEW V, NEW S, NEW s \in Seq(V), NEW i \in 1 .. Len(s), NEW t,
           Drawn(t, s, i - 1, V, S)
    PROVE  IF s[i] \in S THEN Drawn(Append(t, s[i]), s, i, V, S) ELSE Drawn(t, s, i, V, S)
<1> DEFINE u == Append(t, s[i])
<1>0. Len(s) \in Nat /\ i \in Nat /\ i # 0 /\ s[i] \in V
  OBVIOUS
<1>1. /\ t \in Seq(V) /\ Len(t) \in Nat /\ DOMAIN t = 1 .. Len(t)
      /\ u \in Seq(V) /\ DOMAIN u = 1 .. Len(t) + 1
      /\ \A p \in DOMAIN t : u[p] = t[p] /\ p # Len(t) + 1 /\ p \in DOMAIN u
      /\ \A p \in DOMAIN u : p \notin DOMAIN t => p = Len(t) + 1
      /\ u[Len(t) + 1] = s[i]
  BY <1>0 DEF Drawn
<1>2. 1 .. i = (1 .. i - 1) \cup {i}
  BY <1>0
<1>3. CASE s[i] \notin S
  BY <1>1, <1>2, <1>3 DEF Drawn
<1>4. CASE s[i] \in S
  <2> HIDE DEF u
  <2>1. \A p \in DOMAIN u : \E j \in 1 .. i : u[p] = s[j] /\ s[j] \in S
    BY <1>1, <1>2, <1>4 DEF Drawn
  <2>2. \A j \in 1 .. i : s[j] \in S => \E p \in DOMAIN u : u[p] = s[j]
    <3>1. Len(t) + 1 \in DOMAIN u
      BY <1>1
    <3> QED
      BY <1>1, <1>2, <3>1 DEF Drawn
  <2>3. ASSUME NEW p \in DOMAIN u, NEW q \in DOMAIN u, p < q
        PROVE  \E j, k \in 1 .. i : j < k /\ u[p] = s[j] /\ u[q] = s[k]
    <3>1. p \in DOMAIN t
      BY <1>1, <2>3
    <3>2. CASE q \in DOMAIN t
      <4>1. PICK j, k \in 1 .. i - 1 : j < k /\ t[p] = s[j] /\ t[q] = s[k]
        BY <2>3, <3>1, <3>2 DEF Drawn
      <4>2. j \in 1 .. i /\ k \in 1 .. i
        BY <1>2
      <4>3. u[p] = s[j] /\ u[q] = s[k]
        BY <1>1, <3>1, <3>2, <4>1
      <4> QED
        BY <4>1, <4>2, <4>3
    <3>3. CASE q = Len(t) + 1
      <4>1. PICK j \in 1 .. i - 1 : t[p] = s[j]
        BY <3>1 DEF Drawn
      <4>2. j < i /\ j \in 1 .. i /\ i \in 1 .. i
        BY <1>0
      <4>3. u[p] = s[j] /\ u[q] = s[i]
        BY <1>1, <3>1, <3>3, <4>1
      <4> QED
        BY <4>2, <4>3
    <3> QED
      BY <1>1, <3>2, <3>3
  <2>4. Drawn(u, s, i, V, S)
    BY <1>1, <2>1, <2>2, <2>3 DEF Drawn
  <2> QED
    BY <1>4, <2>4 DEF u
<1> QED
  BY <1>3, <1>4

(* What is kept of a list: its elements in the set, in their order.        *)
LEMMA OnlyDrawn ==
    ASSUME NEW V, NEW s \in Seq(V), NEW S
    PROVE  Drawn(Only(s, S), s, Len(s), V, S)
<1>1. PICK f : Keeps(f, s, S) /\ Only(s, S) = f[Len(s)]
  BY OnlyLoop
<1> DEFINE P == {i \in Nat : i <= Len(s) => Drawn(f[i], s, i, V, S)}
<1>2. Len(s) \in Nat
  OBVIOUS
<1>3. 0 \in P
  <2>1. f[0] = <<>>
    BY <1>1, <1>2 DEF Keeps
  <2>2. Drawn(<<>>, s, 0, V, S)
    BY DEF Drawn
  <2> QED
    BY <2>1, <2>2
<1>4. ASSUME NEW i \in P PROVE i + 1 \in P
  <2> SUFFICES ASSUME i + 1 <= Len(s) PROVE Drawn(f[i + 1], s, i + 1, V, S)
    OBVIOUS
  <2>1. /\ i + 1 \in 1 .. Len(s) /\ i \in Nat /\ (i + 1) - 1 = i /\ i + 1 # 0
        /\ i + 1 \in 0 .. Len(s)
    BY <1>2
  <2>2. Drawn(f[i], s, i, V, S)
    BY <1>2
  <2>3. f[i + 1] = IF s[i + 1] \in S THEN Append(f[i], s[i + 1]) ELSE f[i]
    BY <1>1, <2>1 DEF Keeps
  <2> HIDE DEF P
  <2> DEFINE k == i + 1
  <2>4. k \in 1 .. Len(s) /\ Drawn(f[i], s, k - 1, V, S)
    BY <2>1, <2>2
  <2> HIDE DEF k
  <2>5. IF s[k] \in S THEN Drawn(Append(f[i], s[k]), s, k, V, S) ELSE Drawn(f[i], s, k, V, S)
    BY <2>4, DrawnMore
  <2> QED
    BY <2>3, <2>5 DEF k
<1>5. P = Nat
  <2> HIDE DEF P
  <2>1. P \in SUBSET Nat
    BY DEF P
  <2> QED
    BY <1>3, <1>4, <2>1, Induction
<1>6. Drawn(f[Len(s)], s, Len(s), V, S)
  BY <1>2, <1>5
<1> QED
  BY <1>1, <1>6

(* The same in the terms its users need: which elements are kept, and that *)
(* no two of them change places.                                           *)
LEMMA OnlyIs ==
    ASSUME NEW V, NEW s \in Seq(V), NEW S
    PROVE  /\ Only(s, S) \in Seq(V)
           /\ Range(Only(s, S)) = Range(s) \cap S
           /\ \A p, q \in DOMAIN Only(s, S) : p < q =>
                 \E j, k \in DOMAIN s : /\ j < k
                                        /\ Only(s, S)[p] = s[j]
                                        /\ Only(s, S)[q] = s[k]
<1>1. Drawn(Only(s, S), s, Len(s), V, S)
  BY OnlyDrawn
<1>2. DOMAIN s = 1 .. Len(s)
  OBVIOUS
<1> DEFINE t == Only(s, S)
<1> HIDE DEF t
<1>3. Drawn(t, s, Len(s), V, S)
  BY <1>1 DEF t
<1>4. Range(t) = Range(s) \cap S
  <2>1. \A p \in DOMAIN t : t[p] \in Range(s) \cap S
    BY <1>2, <1>3 DEF Drawn, Range
  <2>2. \A j \in DOMAIN s : s[j] \in S => s[j] \in Range(t)
    BY <1>2, <1>3 DEF Drawn, Range
  <2> QED
    BY <2>1, <2>2 DEF Range
<1>5. \A p, q \in DOMAIN t : p < q =>
         \E j, k \in DOMAIN s : j < k /\ t[p] = s[j] /\ t[q] = s[k]
  <2>1. \A p, q \in DOMAIN t : p < q =>
           \E j, k \in 1 .. Len(s) : j < k /\ t[p] = s[j] /\ t[q] = s[k]
    BY <1>3 DEF Drawn
  <2> QED
    BY <1>2, <2>1
<1>6. t \in Seq(V)
  BY <1>3 DEF Drawn
<1> QED
  BY <1>4, <1>5, <1>6 DEF t

-----------------------------------------------------------------------------
(* Sums.                                                                   *)
Adds(f, s) ==
    f = [i \in 0 .. Len(s) |-> IF i = 0 THEN 0 ELSE f[i - 1] + s[i]]

(* Total is the last value of a loop that adds.                            *)
LEMMA TotalLoop ==
    ASSUME NEW s \in Seq(Nat)
    PROVE  \E f : /\ \A i \in 0 .. Len(s) : f[i] \in Nat
                  /\ f[0] = 0
                  /\ \A i \in 1 .. Len(s) : f[i] = f[i - 1] + s[i]
                  /\ Total(s) = f[Len(s)]
<1> DEFINE n == Len(s)
           step == [c \in Nat \X (1 .. n) |-> c[1] + s[c[2]]]
           sum == CHOOSE f : f = [i \in 0 .. Len(s) |-> IF i = 0 THEN 0 ELSE f[i - 1] + s[i]]
<1>1. n \in Nat /\ 0 \in Nat
  OBVIOUS
<1>2. step \in [Nat \X (1 .. n) -> Nat]
  <2> SUFFICES ASSUME NEW k \in Nat, NEW i \in 1 .. n PROVE k + s[i] \in Nat
    OBVIOUS
  <2> QED
    OBVIOUS
<1>3. PICK f : IsRun(f, n, Nat, 0, step)
  <2> HIDE DEF n, step
  <2> QED
    BY <1>1, <1>2, LoopExists
<1>4. Adds(f, s)
  <2>1. ASSUME NEW i \in 0 .. n, i # 0 PROVE f[i] = f[i - 1] + s[i]
    <3>1. i \in 1 .. n /\ i - 1 \in 0 .. n
      BY <1>1, <2>1
    <3>2. f[i - 1] \in Nat /\ f[i] = step[<<f[i - 1], i>>]
      <4> HIDE DEF n, step
      <4> QED
        BY <1>3, <3>1 DEF IsRun
    <3> QED
      BY <3>1, <3>2
  <2> DEFINE g == [i \in 0 .. n |-> IF i = 0 THEN 0 ELSE f[i - 1] + s[i]]
  <2>2. ASSUME NEW i \in 0 .. n PROVE f[i] = g[i]
    <3>1. CASE i = 0
      BY <1>3, <3>1 DEF IsRun
    <3>2. CASE i # 0
      <4> HIDE DEF n, step
      <4> QED
        BY <2>1, <3>2
    <3> QED
      BY <3>1, <3>2
  <2>3. f = g
    <3> HIDE DEF g, step, n
    <3>1. f = [i \in 0 .. n |-> f[i]]
      BY <1>3 DEF IsRun
    <3>2. g = [i \in 0 .. n |-> g[i]]
      BY DEF g
    <3> QED
      BY <2>2, <3>1, <3>2
  <2> QED
    BY <2>3, Zenon DEF Adds
<1>5. Adds(sum, s)
  BY <1>4, Zenon DEF Adds
<1>6. Total(s) = sum[Len(s)]
  BY Zenon DEF Total
<1> HIDE DEF sum, step
<1>7. sum[0] = 0 /\ \A i \in 1 .. n : sum[i] = sum[i - 1] + s[i]
  BY <1>1, <1>5 DEF Adds
<1> DEFINE P == {i \in Nat : i <= n => sum[i] \in Nat}
<1>8. ASSUME NEW i \in P PROVE i + 1 \in P
  <2> SUFFICES ASSUME i + 1 <= n PROVE sum[i + 1] \in Nat
    OBVIOUS
  <2>1. i + 1 \in 1 .. n /\ (i + 1) - 1 = i /\ sum[i] \in Nat
    BY <1>1
  <2>2. sum[i + 1] = sum[i] + s[i + 1] /\ s[i + 1] \in Nat
    BY <1>7, <2>1
  <2> QED
    BY <2>1, <2>2
<1>9. P = Nat
  <2>1. 0 \in P /\ P \in SUBSET Nat
    BY <1>7
  <2> HIDE DEF P
  <2> QED
    BY <1>8, <2>1, Induction
<1>10. \A i \in 0 .. n : sum[i] \in Nat
  BY <1>1, <1>9
<1> QED
  BY <1>6, <1>7, <1>10

(* A sum is a number, no less than any of what is added, and 0 if it is.   *)
LEMMA TotalIs ==
    ASSUME NEW s \in Seq(Nat)
    PROVE  /\ Total(s) \in Nat
           /\ \A j \in DOMAIN s : s[j] <= Total(s)
           /\ (\A j \in DOMAIN s : s[j] = 0) => Total(s) = 0
<1>1. PICK f : /\ \A i \in 0 .. Len(s) : f[i] \in Nat
               /\ f[0] = 0
               /\ \A i \in 1 .. Len(s) : f[i] = f[i - 1] + s[i]
               /\ Total(s) = f[Len(s)]
  BY TotalLoop
<1>2. Len(s) \in Nat /\ DOMAIN s = 1 .. Len(s)
  OBVIOUS
<1> DEFINE P == {i \in Nat : i <= Len(s) =>
                    /\ \A j \in 1 .. i : s[j] <= f[i]
                    /\ (\A j \in DOMAIN s : s[j] = 0) => f[i] = 0}
<1>3. 0 \in P
  BY <1>1
<1>4. ASSUME NEW i \in P PROVE i + 1 \in P
  <2> SUFFICES ASSUME i + 1 <= Len(s)
               PROVE  /\ \A j \in 1 .. i + 1 : s[j] <= f[i + 1]
                      /\ (\A j \in DOMAIN s : s[j] = 0) => f[i + 1] = 0
    OBVIOUS
  <2>1. /\ i \in Nat /\ i + 1 \in 1 .. Len(s) /\ i \in 0 .. Len(s)
        /\ i + 1 \in 0 .. Len(s) /\ (i + 1) - 1 = i
    BY <1>2
  <2>2. f[i + 1] = f[i] + s[i + 1] /\ f[i] \in Nat /\ s[i + 1] \in Nat
    BY <1>1, <2>1
  <2>3. /\ \A j \in 1 .. i : s[j] <= f[i]
        /\ (\A j \in DOMAIN s : s[j] = 0) => f[i] = 0
    BY <1>2
  <2>4. ASSUME NEW j \in 1 .. i + 1 PROVE s[j] <= f[i + 1]
    <3>1. s[j] \in Nat /\ (j \in 1 .. i \/ j = i + 1)
      BY <1>2, <2>1
    <3>2. CASE j \in 1 .. i
      <4>1. s[j] <= f[i]
        BY <2>3, <3>2
      <4> QED
        BY <2>2, <3>1, <4>1
    <3>3. CASE j = i + 1
      BY <2>2, <3>3
    <3> QED
      BY <3>1, <3>2, <3>3
  <2> QED
    BY <1>2, <2>1, <2>2, <2>3, <2>4
<1>5. P = Nat
  <2>1. P \in SUBSET Nat
    OBVIOUS
  <2> HIDE DEF P
  <2> QED
    BY <1>3, <1>4, <2>1, Induction
<1>6. /\ \A j \in 1 .. Len(s) : s[j] <= f[Len(s)]
      /\ (\A j \in DOMAIN s : s[j] = 0) => f[Len(s)] = 0
  BY <1>2, <1>5
<1> QED
  BY <1>1, <1>2, <1>6

(* The sum of a list is its first element and the sum of the others.       *)
LEMMA TotalTail ==
    ASSUME NEW s \in Seq(Nat), s # <<>>
    PROVE  Total(s) = Head(s) + Total(Tail(s))
<1> DEFINE t == Tail(s)
<1>1. /\ Len(s) \in Nat /\ Len(s) >= 1 /\ t \in Seq(Nat) /\ Len(t) = Len(s) - 1
      /\ \A i \in 1 .. Len(t) : t[i] = s[i + 1]
      /\ Head(s) = s[1] /\ s[1] \in Nat
  OBVIOUS
<1> HIDE DEF t
<1>2. PICK f : /\ \A i \in 0 .. Len(s) : f[i] \in Nat
               /\ f[0] = 0
               /\ \A i \in 1 .. Len(s) : f[i] = f[i - 1] + s[i]
               /\ Total(s) = f[Len(s)]
  BY TotalLoop
<1>3. PICK g : /\ \A i \in 0 .. Len(t) : g[i] \in Nat
               /\ g[0] = 0
               /\ \A i \in 1 .. Len(t) : g[i] = g[i - 1] + t[i]
               /\ Total(t) = g[Len(t)]
  BY <1>1, TotalLoop
<1> DEFINE P == {i \in Nat : i <= Len(t) => f[i + 1] = s[1] + g[i]}
<1>4. 0 \in P
  <2>1. 1 \in 1 .. Len(s) /\ 1 - 1 = 0
    BY <1>1
  <2>2. f[1] = f[0] + s[1]
    BY <1>2, <2>1
  <2>3. f[0 + 1] = s[1] + g[0]
    <3>1. 0 + 1 = 1
      OBVIOUS
    <3> QED
      BY <1>1, <1>2, <1>3, <2>2, <3>1
  <2> QED
    BY <2>3
<1>5. ASSUME NEW i \in P PROVE i + 1 \in P
  <2> SUFFICES ASSUME i + 1 <= Len(t) PROVE f[i + 1 + 1] = s[1] + g[i + 1]
    OBVIOUS
  <2> DEFINE k == i + 1
  <2>1. /\ i \in Nat /\ k \in Nat /\ k \in 1 .. Len(t) /\ k + 1 \in 1 .. Len(s) /\ k - 1 = i
        /\ (k + 1) - 1 = k /\ i \in 0 .. Len(t)
    BY <1>1
  <2>2. f[k] = s[1] + g[i]
    BY <1>1
  <2> HIDE DEF k
  <2>3. f[k + 1] = f[k] + s[k + 1]
    BY <1>2, <2>1
  <2>4. g[k] = g[i] + t[k] /\ t[k] = s[k + 1]
    BY <1>1, <1>3, <2>1
  <2>5. g[i] \in Nat
    BY <1>3, <2>1
  <2>6. f[k + 1] = s[1] + g[k]
    <3>1. s[k + 1] \in Nat
      BY <2>1
    <3> QED
      BY <1>1, <2>2, <2>3, <2>4, <2>5, <3>1
  <2> QED
    BY <2>6 DEF k
<1>6. P = Nat
  <2>1. P \in SUBSET Nat
    OBVIOUS
  <2> HIDE DEF P
  <2> QED
    BY <1>4, <1>5, <2>1, Induction
<1>7. Len(t) \in Nat /\ Len(t) + 1 = Len(s)
  BY <1>1
<1>8. f[Len(t) + 1] = s[1] + g[Len(t)]
  BY <1>6, <1>7
<1> QED
  BY <1>1, <1>2, <1>3, <1>7, <1>8 DEF t

(* If each element in a set of places becomes one larger, the sum becomes  *)
(* larger by the size of the set.                                          *)
Grows(s, t, I) == \A j \in 1 .. Len(s) : t[j] = s[j] + (IF j \in I THEN 1 ELSE 0)

(* A list of which the elements at the places I are one larger.            *)
LEMMA TotalGrows ==
    ASSUME NEW s \in Seq(Nat), NEW t \in Seq(Nat), Len(s) = Len(t), NEW I,
           I \subseteq 1 .. Len(s), Grows(s, t, I)
    PROVE  Total(t) = Total(s) + Cardinality(I)
<1>0. \A j \in 1 .. Len(s) : t[j] = s[j] + (IF j \in I THEN 1 ELSE 0)
  BY DEF Grows
<1>1. Len(s) \in Nat
  OBVIOUS
<1>2. PICK f : /\ \A i \in 0 .. Len(s) : f[i] \in Nat
               /\ f[0] = 0
               /\ \A i \in 1 .. Len(s) : f[i] = f[i - 1] + s[i]
               /\ Total(s) = f[Len(s)]
  BY TotalLoop
<1>3. PICK g : /\ \A i \in 0 .. Len(t) : g[i] \in Nat
               /\ g[0] = 0
               /\ \A i \in 1 .. Len(t) : g[i] = g[i - 1] + t[i]
               /\ Total(t) = g[Len(t)]
  BY TotalLoop
<1> DEFINE Upto(i) == I \cap (1 .. i)
           P == {i \in Nat : i <= Len(s) => g[i] = f[i] + Cardinality(Upto(i))}
<1>4. 0 \in P
  <2>1. Upto(0) = {}
    OBVIOUS
  <2>2. Cardinality(Upto(0)) = 0
    BY <2>1, FS_EmptySet
  <2>3. g[0] = f[0] + Cardinality(Upto(0))
    <3> HIDE DEF Upto
    <3> QED
      BY <1>2, <1>3, <2>2
  <2> QED
    BY <2>3
<1>5. ASSUME NEW i \in P PROVE i + 1 \in P
  <2> SUFFICES ASSUME i + 1 <= Len(s)
               PROVE  g[i + 1] = f[i + 1] + Cardinality(Upto(i + 1))
    OBVIOUS
  <2> DEFINE k == i + 1
  <2>1. /\ i \in Nat /\ k \in 1 .. Len(s) /\ k - 1 = i /\ i \in 0 .. Len(s)
    BY <1>1
  <2>2. g[i] = f[i] + Cardinality(Upto(i))
    BY <1>1
  <2>3. /\ f[k] = f[i] + s[k] /\ g[k] = g[i] + t[k]
        /\ s[k] \in Nat /\ t[k] = s[k] + (IF k \in I THEN 1 ELSE 0)
        /\ f[i] \in Nat
    <3> HIDE DEF k, P
    <3> QED
      BY <1>0, <1>2, <1>3, <2>1
  <2>4. IsFiniteSet(Upto(i)) /\ Cardinality(Upto(i)) \in Nat
    <3>1. Upto(i) \in SUBSET (1 .. Len(s))
      OBVIOUS
    <3>2. IsFiniteSet(1 .. Len(s))
      BY <1>1, FS_Interval
    <3> HIDE DEF Upto
    <3> QED
      BY <3>1, <3>2, FS_Subset, FS_CardinalityType
  <2>0. (1 .. k) = (1 .. i) \cup {k} /\ k \notin 1 .. i
    BY <2>1
  <2>5. CASE k \in I
    <3>1. Upto(k) = Upto(i) \cup {k} /\ k \notin Upto(i)
      BY <2>0, <2>5
    <3>2. Cardinality(Upto(k)) = Cardinality(Upto(i)) + 1
      <4> HIDE DEF Upto, k
      <4> QED
        BY <2>4, <3>1, FS_AddElement
    <3>3. g[k] = f[k] + Cardinality(Upto(k))
      <4>1. t[k] = s[k] + 1
        BY <2>3, <2>5
      <4> HIDE DEF Upto, k
      <4>2. g[k] = g[i] + (s[k] + 1)
        BY <2>3, <4>1
      <4>3. g[k] = (f[i] + s[k]) + (Cardinality(Upto(i)) + 1)
        <5>1. \A x, y, z \in Nat : (x + z) + (y + 1) = (x + y) + (z + 1)
          OBVIOUS
        <5>2. f[i] \in Nat /\ s[k] \in Nat /\ g[k] = (f[i] + Cardinality(Upto(i))) + (s[k] + 1)
          BY <2>2, <2>3, <4>2
        <5> QED
          BY <2>4, <5>1, <5>2
      <4> QED
        BY <2>3, <3>2, <4>3
    <3> QED
      BY <3>3
  <2>6. CASE k \notin I
    <3>1. Upto(k) = Upto(i)
      BY <2>0, <2>6
    <3>2. g[k] = f[k] + Cardinality(Upto(k))
      <4>1. t[k] = s[k]
        BY <2>3, <2>6
      <4> HIDE DEF Upto, k
      <4> QED
        BY <2>2, <2>3, <2>4, <3>1, <4>1
    <3> QED
      BY <3>2
  <2> QED
    BY <2>5, <2>6
<1>6. P = Nat
  <2>1. P \in SUBSET Nat
    OBVIOUS
  <2> HIDE DEF P
  <2> QED
    BY <1>4, <1>5, <2>1, Induction
<1>7. g[Len(s)] = f[Len(s)] + Cardinality(Upto(Len(s)))
  <2> HIDE DEF Upto
  <2> QED
    BY <1>1, <1>6
<1>8. Upto(Len(s)) = I
  OBVIOUS
<1> HIDE DEF Upto
<1> QED
  BY <1>2, <1>3, <1>7, <1>8

-----------------------------------------------------------------------------
(* A list of lists, flattened.                                             *)
Joins(f, ss) ==
    f = [i \in 1 .. Len(ss) |-> IF i = 1 THEN ss[i] ELSE f[i - 1] \o ss[i]]

(* FlattenSeq of the library is the last value of a loop that joins.       *)
LEMMA FlattenLoop ==
    ASSUME NEW V, NEW ss \in Seq(Seq(V)), ss # <<>>
    PROVE  \E f : /\ f[1] = ss[1]
                  /\ \A i \in 2 .. Len(ss) : f[i] = f[i - 1] \o ss[i]
                  /\ FlattenSeq(ss) = f[Len(ss)]
<1> DEFINE n == Len(ss)
           step == [c \in Seq(V) \X (1 .. n) |-> c[1] \o ss[c[2]]]
           all == CHOOSE f : f = [i \in 1 .. Len(ss) |->
                                    IF i = 1 THEN ss[i] ELSE f[i - 1] \o ss[i]]
<1>1. n \in Nat /\ n >= 1 /\ <<>> \in Seq(V) /\ \A i \in 1 .. n : ss[i] \in Seq(V)
  OBVIOUS
<1>2. step \in [Seq(V) \X (1 .. n) -> Seq(V)]
  <2> SUFFICES ASSUME NEW k \in Seq(V), NEW i \in 1 .. n PROVE k \o ss[i] \in Seq(V)
    OBVIOUS
  <2> QED
    BY <1>1
<1>3. PICK h : IsRun(h, n, Seq(V), <<>>, step)
  <2> HIDE DEF n, step
  <2> QED
    BY <1>1, <1>2, LoopExists
<1> DEFINE f == [i \in 1 .. n |-> h[i]]
<1>4. Joins(f, ss)
  <2>1. ASSUME NEW i \in 1 .. n PROVE h[i] = h[i - 1] \o ss[i]
    <3>1. i - 1 \in 0 .. n
      BY <1>1
    <3>2. h[i - 1] \in Seq(V) /\ h[i] = step[<<h[i - 1], i>>]
      <4> HIDE DEF n, step
      <4> QED
        BY <1>3, <3>1 DEF IsRun
    <3> QED
      BY <3>2
  <2> DEFINE g == [i \in 1 .. n |-> IF i = 1 THEN ss[i] ELSE f[i - 1] \o ss[i]]
  <2>2. ASSUME NEW i \in 1 .. n PROVE f[i] = g[i]
    <3>1. CASE i = 1
      <4>1. 1 \in 1 .. n /\ 1 - 1 = 0
        BY <1>1
      <4>2. h[1] = h[0] \o ss[1]
        BY <2>1, <4>1
      <4>3. h[0] = <<>>
        BY <1>3 DEF IsRun
      <4>4. <<>> \o ss[1] = ss[1]
        BY <1>1
      <4>5. h[1] = ss[1]
        BY <4>2, <4>3, <4>4
      <4> QED
        BY <3>1, <4>5
    <3>2. CASE i # 1
      <4>1. i - 1 \in 1 .. n
        BY <1>1, <3>2
      <4>2. f[i - 1] = h[i - 1] /\ f[i] = h[i] /\ h[i] = h[i - 1] \o ss[i]
        BY <2>1, <4>1
      <4> QED
        BY <3>2, <4>2
    <3> QED
      BY <3>1, <3>2
  <2>3. f = g
    <3>1. DOMAIN f = 1 .. n /\ f = [i \in 1 .. n |-> f[i]] /\ g = [i \in 1 .. n |-> g[i]]
      OBVIOUS
    <3> HIDE DEF g, f, step, n
    <3> QED
      BY <2>2, <3>1
  <2> HIDE DEF f
  <2> QED
    BY <2>3, Zenon DEF Joins
<1>5. Joins(all, ss)
  BY <1>4, Zenon DEF Joins
<1>6. FlattenSeq(ss) = all[Len(ss)]
  <2>1. Len(ss) # 0
    BY <1>1
  <2> QED
    BY <2>1, Zenon DEF FlattenSeq
<1> HIDE DEF all
<1>7. all[1] = ss[1]
  BY <1>1, <1>5 DEF Joins
<1>8. ASSUME NEW i \in 2 .. n PROVE all[i] = all[i - 1] \o ss[i]
  <2>1. i \in 1 .. n /\ i # 1
    BY <1>1
  <2> QED
    BY <1>5, <2>1 DEF Joins
<1> QED
  BY <1>6, <1>7, <1>8

(* t is the first i lists of ss, one after the other.                      *)
Joined(t, ss, i, V) ==
    /\ t \in Seq(V)
    /\ \A p \in DOMAIN t : \E j \in 1 .. i : \E a \in DOMAIN ss[j] : t[p] = ss[j][a]
    /\ \A j \in 1 .. i : \A a \in DOMAIN ss[j] : \E p \in DOMAIN t : t[p] = ss[j][a]
    /\ \A p, q \in DOMAIN t : p < q =>
          \E j, k \in 1 .. i : \E a \in DOMAIN ss[j] : \E b \in DOMAIN ss[k] :
             t[p] = ss[j][a] /\ t[q] = ss[k][b] /\ (j < k \/ (j = k /\ a < b))

(* The first list alone.                                                   *)
LEMMA JoinedOne ==
    ASSUME NEW V, NEW ss \in Seq(Seq(V)), ss # <<>>
    PROVE  Joined(ss[1], ss, 1, V)
<1> DEFINE t == ss[1]
<1>1. t \in Seq(V)
  OBVIOUS
<1>2. 1 \in 1 .. 1 /\ \A j \in 1 .. 1 : ss[j] = t
  OBVIOUS
<1>3. ASSUME NEW p \in DOMAIN t, NEW q \in DOMAIN t, p < q
      PROVE  \E j, k \in 1 .. 1 : \E a \in DOMAIN ss[j] : \E b \in DOMAIN ss[k] :
                t[p] = ss[j][a] /\ t[q] = ss[k][b] /\ (j < k \/ (j = k /\ a < b))
  <2> HIDE DEF t
  <2> QED
    BY <1>2, <1>3
<1>4. \A p \in DOMAIN t : \E j \in 1 .. 1 : \E a \in DOMAIN ss[j] : t[p] = ss[j][a]
  <2> HIDE DEF t
  <2> QED
    BY <1>2
<1>5. \A j \in 1 .. 1 : \A a \in DOMAIN ss[j] : \E p \in DOMAIN t : t[p] = ss[j][a]
  <2> HIDE DEF t
  <2> QED
    BY <1>2
<1> QED
  BY <1>1, <1>3, <1>4, <1>5, Zenon DEF Joined

(* One more list joined.                                                   *)
LEMMA JoinedMore ==
    ASSUME NEW V, NEW ss \in Seq(Seq(V)), NEW i \in 2 .. Len(ss), NEW t,
           Joined(t, ss, i - 1, V)
    PROVE  Joined(t \o ss[i], ss, i, V)
<1> DEFINE r == ss[i]
           u == t \o r
<1>0. Len(ss) \in Nat /\ i \in Nat /\ i - 1 \in Nat /\ i \in 1 .. Len(ss) /\ r \in Seq(V)
  OBVIOUS
<1>1. t \in Seq(V)
  BY DEF Joined
<1>2. /\ u \in Seq(V) /\ Len(t) \in Nat /\ Len(r) \in Nat
      /\ DOMAIN t = 1 .. Len(t) /\ DOMAIN r = 1 .. Len(r) /\ DOMAIN u = 1 .. Len(t) + Len(r)
      /\ \A p \in 1 .. Len(t) : u[p] = t[p]
      /\ \A a \in 1 .. Len(r) : u[Len(t) + a] = r[a]
  <2> HIDE DEF r
  <2>1. \A a, b \in Seq(V) : /\ a \o b \in Seq(V) /\ Len(a) \in Nat /\ Len(b) \in Nat
                             /\ DOMAIN a = 1 .. Len(a) /\ DOMAIN (a \o b) = 1 .. Len(a) + Len(b)
                             /\ \A p \in 1 .. Len(a) : (a \o b)[p] = a[p]
                             /\ \A p \in 1 .. Len(b) : (a \o b)[Len(a) + p] = b[p]
    OBVIOUS
  <2> QED
    BY <1>0, <1>1, <2>1
<1>3. \A j \in 1 .. i : j \in 1 .. i - 1 \/ j = i
  BY <1>0
<1>4. \A j \in 1 .. i - 1 : j \in 1 .. i /\ j < i
  BY <1>0
<1>5. i \in 1 .. i
  BY <1>0
<1> HIDE DEF u
<1>6. ASSUME NEW p \in DOMAIN u
      PROVE  \/ p \in DOMAIN t /\ u[p] = t[p]
             \/ \E a \in DOMAIN r : p = Len(t) + a /\ u[p] = r[a]
  <2>1. CASE p <= Len(t)
    BY <1>2, <2>1
  <2>2. CASE p > Len(t)
    <3>1. p - Len(t) \in 1 .. Len(r) /\ p = Len(t) + (p - Len(t))
      BY <1>2, <2>2
    <3> QED
      BY <1>2, <3>1
  <2> QED
    BY <1>2, <2>1, <2>2
<1>7. ASSUME NEW p \in DOMAIN u
      PROVE  \E j \in 1 .. i : \E a \in DOMAIN ss[j] : u[p] = ss[j][a]
  <2>1. CASE p \in DOMAIN t /\ u[p] = t[p]
    <3>1. PICK j \in 1 .. i - 1 : \E a \in DOMAIN ss[j] : t[p] = ss[j][a]
      BY <2>1 DEF Joined
    <3> QED
      BY <1>4, <2>1, <3>1
  <2>2. CASE \E a \in DOMAIN r : p = Len(t) + a /\ u[p] = r[a]
    BY <1>5, <2>2
  <2> QED
    BY <1>6, <2>1, <2>2
<1>8. ASSUME NEW j \in 1 .. i, NEW a \in DOMAIN ss[j]
      PROVE  \E p \in DOMAIN u : u[p] = ss[j][a]
  <2>1. CASE j \in 1 .. i - 1
    <3>1. PICK p \in DOMAIN t : t[p] = ss[j][a]
      BY <2>1 DEF Joined
    <3>2. p \in DOMAIN u /\ u[p] = t[p]
      BY <1>2
    <3> QED
      BY <3>1, <3>2
  <2>2. CASE j = i
    <3>1. a \in 1 .. Len(r)
      BY <1>2, <2>2
    <3>2. Len(t) + a \in DOMAIN u
      BY <1>2, <3>1
    <3>3. u[Len(t) + a] = r[a]
      BY <1>2, <3>1
    <3> QED
      BY <2>2, <3>2, <3>3
  <2> QED
    BY <1>3, <2>1, <2>2
<1>9. ASSUME NEW p \in DOMAIN u, NEW q \in DOMAIN u, p < q
      PROVE  \E j, k \in 1 .. i : \E a \in DOMAIN ss[j] : \E b \in DOMAIN ss[k] :
                u[p] = ss[j][a] /\ u[q] = ss[k][b] /\ (j < k \/ (j = k /\ a < b))
  <2>1. CASE q \in DOMAIN t
    <3>1. p \in DOMAIN t
      BY <1>2, <1>9, <2>1
    <3>2. PICK j, k \in 1 .. i - 1 : \E a \in DOMAIN ss[j] : \E b \in DOMAIN ss[k] :
             t[p] = ss[j][a] /\ t[q] = ss[k][b] /\ (j < k \/ (j = k /\ a < b))
      <4>1. \A x, y \in DOMAIN t : x < y =>
               \E j, k \in 1 .. i - 1 : \E a \in DOMAIN ss[j] : \E b \in DOMAIN ss[k] :
                  t[x] = ss[j][a] /\ t[y] = ss[k][b] /\ (j < k \/ (j = k /\ a < b))
        BY Zenon DEF Joined
      <4> QED
        BY <1>9, <2>1, <3>1, <4>1, Zenon
    <3>3. u[p] = t[p] /\ u[q] = t[q] /\ j \in 1 .. i /\ k \in 1 .. i
      BY <1>2, <1>4, <2>1, <3>1
    <3> QED
      BY <3>2, <3>3
  <2>2. CASE q \notin DOMAIN t
    <3>1. PICK b \in DOMAIN r : q = Len(t) + b /\ u[q] = r[b]
      BY <1>6, <2>2
    <3>2. CASE p \in DOMAIN t /\ u[p] = t[p]
      <4>1. PICK j \in 1 .. i - 1 : \E a \in DOMAIN ss[j] : t[p] = ss[j][a]
        BY <3>2 DEF Joined
      <4>2. PICK a \in DOMAIN ss[j] : t[p] = ss[j][a]
        BY <4>1
      <4>3. j \in 1 .. i /\ j < i /\ b \in DOMAIN ss[i] /\ u[q] = ss[i][b] /\ u[p] = ss[j][a]
        BY <1>4, <3>1, <3>2, <4>2
      <4> QED
        BY <1>5, <4>2, <4>3
    <3>3. CASE \E a \in DOMAIN r : p = Len(t) + a /\ u[p] = r[a]
      <4>1. PICK a \in DOMAIN r : p = Len(t) + a /\ u[p] = r[a]
        BY <3>3
      <4>2. a < b
        BY <1>2, <1>9, <3>1, <4>1
      <4>3. /\ a \in DOMAIN ss[i] /\ b \in DOMAIN ss[i]
            /\ u[p] = ss[i][a] /\ u[q] = ss[i][b]
        BY <3>1, <4>1
      <4> QED
        BY <1>5, <4>2, <4>3
    <3> QED
      BY <1>6, <3>2, <3>3
  <2> QED
    BY <2>1, <2>2
<1>10. Joined(u, ss, i, V)
  BY <1>2, <1>7, <1>8, <1>9, Zenon DEF Joined
<1> QED
  BY <1>10 DEF u

(* What lists joined to one hold: each element of each of them, in order.  *)
LEMMA FlattenJoined ==
    ASSUME NEW V, NEW ss \in Seq(Seq(V))
    PROVE  Joined(FlattenSeq(ss), ss, Len(ss), V)
<1>1. CASE ss = <<>>
  <2>1. FlattenSeq(ss) = <<>> /\ Len(ss) = 0
    BY <1>1 DEF FlattenSeq
  <2>2. Joined(<<>>, ss, 0, V)
    BY DEF Joined
  <2> QED
    BY <2>1, <2>2
<1>2. CASE ss # <<>>
  <2>1. PICK f : /\ f[1] = ss[1]
                 /\ \A i \in 2 .. Len(ss) : f[i] = f[i - 1] \o ss[i]
                 /\ FlattenSeq(ss) = f[Len(ss)]
    BY <1>2, FlattenLoop
  <2>2. Len(ss) \in Nat /\ Len(ss) >= 1
    BY <1>2
  <2> DEFINE P == {m \in Nat : m + 1 <= Len(ss) => Joined(f[m + 1], ss, m + 1, V)}
  <2>3. 0 \in P
    <3>1. 0 + 1 = 1 /\ Joined(f[1], ss, 1, V)
      BY <1>2, <2>1, JoinedOne
    <3> QED
      BY <3>1
  <2>4. ASSUME NEW m \in P PROVE m + 1 \in P
    <3> DEFINE i == m + 1 + 1
    <3> SUFFICES ASSUME i <= Len(ss) PROVE Joined(f[i], ss, i, V)
      OBVIOUS
    <3>1. i \in 2 .. Len(ss) /\ m + 1 = i - 1 /\ i - 1 <= Len(ss)
      BY <2>2
    <3>2. Joined(f[i - 1], ss, i - 1, V)
      <4>1. Joined(f[m + 1], ss, m + 1, V)
        BY <3>1
      <4> QED
        BY <3>1, <4>1
    <3> HIDE DEF i, P
    <3>3. Joined(f[i - 1] \o ss[i], ss, i, V)
      BY <3>1, <3>2, JoinedMore
    <3> QED
      BY <2>1, <3>1, <3>3
  <2>5. P = Nat
    <3>1. P \in SUBSET Nat
      OBVIOUS
    <3> HIDE DEF P
    <3> QED
      BY <2>3, <2>4, <3>1, Induction
  <2>6. Len(ss) - 1 \in Nat /\ (Len(ss) - 1) + 1 = Len(ss)
    BY <2>2
  <2>7. Joined(f[Len(ss)], ss, Len(ss), V)
    <3>1. Len(ss) - 1 \in P
      BY <2>5, <2>6
    <3> QED
      BY <2>6, <3>1
  <2> QED
    BY <2>1, <2>7
<1> QED
  BY <1>1, <1>2
=============================================================================
