--------------------------- MODULE Targets_proofs ---------------------------
(***************************************************************************)
(* What the choice of targets and their splitting into blocks guarantee,   *)
(* for addresses of any width, blocks of any length and any request.       *)
(***************************************************************************)
EXTENDS Targets, Lists_proofs

-----------------------------------------------------------------------------
(* Powers of two, as the numbers of subsets.                               *)
LEMMA PowerIs ==
    ASSUME NEW n \in Nat
    PROVE  2^n \in Nat /\ 2^n >= 1 /\ Cardinality(SUBSET (1 .. n)) = 2^n
           /\ IsFiniteSet(SUBSET (1 .. n))
<1> DEFINE S == 1 .. n
           Z == SUBSET S
<1>1. IsFiniteSet(S) /\ Cardinality(S) = n
  BY FS_Interval
<1>2. IsFiniteSet(Z) /\ Cardinality(Z) = 2^Cardinality(S)
  <2> HIDE DEF S
  <2> QED
    BY <1>1, FS_SUBSET
<1>3. Cardinality(Z) = 2^n
  BY <1>1, <1>2
<1>4. Z # {}
  OBVIOUS
<1>5. Cardinality(Z) \in Nat /\ Cardinality(Z) # 0
  <2> HIDE DEF Z
  <2> QED
    BY <1>2, <1>4, FS_EmptySet, FS_CardinalityType
<1> QED
  BY <1>2, <1>3, <1>5

(* The recursion of 2^n, for TLAPS has none: from 0 to 1,                  *)
LEMMA PowerZero == 2^0 = 1
<1>1. Cardinality(SUBSET (1 .. 0)) = 2^0
  BY PowerIs
<1>2. SUBSET (1 .. 0) = {{}}
  OBVIOUS
<1> QED
  BY <1>1, <1>2, FS_Singleton

(* from n to n + 1,                                                        *)
LEMMA PowerNext ==
    ASSUME NEW n \in Nat
    PROVE  2^(n + 1) = 2 * 2^n
<1> DEFINE A == SUBSET (1 .. n)
           B == {T \cup {n + 1} : T \in A}
           f == [T \in A |-> T \cup {n + 1}]
<1>1. SUBSET (1 .. n + 1) = A \cup B
  <2>1. ASSUME NEW T \in SUBSET (1 .. n + 1) PROVE T \in A \cup B
    <3>1. CASE n + 1 \in T
      <4>1. T \ {n + 1} \in A /\ T = (T \ {n + 1}) \cup {n + 1}
        BY <3>1
      <4> QED
        BY <4>1
    <3>2. CASE n + 1 \notin T
      BY <3>2
    <3> QED
      BY <3>1, <3>2
  <2>2. A \cup B \subseteq SUBSET (1 .. n + 1)
    <3>1. (1 .. n) \subseteq (1 .. n + 1) /\ n + 1 \in 1 .. n + 1
      OBVIOUS
    <3>2. \A T \in A : T \in SUBSET (1 .. n + 1) /\ T \cup {n + 1} \in SUBSET (1 .. n + 1)
      BY <3>1
    <3>3. ASSUME NEW T \in B PROVE T \in SUBSET (1 .. n + 1)
      <4>1. PICK U \in A : T = U \cup {n + 1}
        OBVIOUS
      <4> QED
        BY <3>2, <4>1
    <3> HIDE DEF A, B
    <3> QED
      BY <3>2, <3>3
  <2> HIDE DEF A, B
  <2> QED
    BY <2>1, <2>2
<1>2. A \cap B = {}
  OBVIOUS
<1>3. f \in Bijection(A, B)
  <2>1. f \in [A -> B]
    OBVIOUS
  <2>2. \A T \in B : \E U \in A : f[U] = T
    OBVIOUS
  <2>3. ASSUME NEW T \in A, NEW U \in A, f[T] = f[U] PROVE T = U
    <3>1. n + 1 \notin T /\ n + 1 \notin U
      OBVIOUS
    <3>2. T \cup {n + 1} = U \cup {n + 1}
      BY <2>3
    <3> QED
      BY <3>1, <3>2
  <2> HIDE DEF f, A, B
  <2> QED
    BY <2>1, <2>2, <2>3 DEF Bijection, Injection, Surjection, IsInjective
<1>4. IsFiniteSet(A) /\ Cardinality(A) = 2^n /\ 2^n \in Nat
  BY PowerIs
<1>5. Cardinality(SUBSET (1 .. n + 1)) = 2^(n + 1)
  <2>1. n + 1 \in Nat
    OBVIOUS
  <2> HIDE DEF A, B
  <2> QED
    BY <2>1, PowerIs
<1> HIDE DEF A, B, f
<1>6. IsFiniteSet(B) /\ Cardinality(B) = Cardinality(A)
  BY <1>3, <1>4, FS_Bijection DEF ExistsBijection
<1>7. Cardinality(A \cup B) = Cardinality(A) + Cardinality(B) - Cardinality(A \cap B)
  BY <1>4, <1>6, FS_Union
<1>8. Cardinality(A \cap B) = 0
  BY <1>2, FS_EmptySet
<1>9. Cardinality(A \cup B) = 2 * 2^n
  BY <1>4, <1>6, <1>7, <1>8
<1> QED
  BY <1>1, <1>5, <1>9

(* for the two smallest networks,                                          *)
LEMMA PowerSmall == 2^1 = 2 /\ 2^2 = 4
<1>1. 0 + 1 = 1 /\ 1 + 1 = 2
  OBVIOUS
<1>2. 2^(0 + 1) = 2 * 2^0 /\ 2^(1 + 1) = 2 * 2^1
  BY PowerNext
<1> QED
  BY <1>1, <1>2, PowerZero

(* and for a sum.                                                          *)
LEMMA PowerAdds ==
    ASSUME NEW a \in Nat, NEW b \in Nat
    PROVE  2^(a + b) = 2^a * 2^b
<1> DEFINE P == {k \in Nat : 2^(a + k) = 2^a * 2^k}
<1>1. 0 \in P
  <2>1. a + 0 = a /\ 2^a \in Nat
    <3>1. 2^a \in Nat
      BY PowerIs
    <3> QED
      BY <3>1
  <2>2. 2^a * 1 = 2^a
    BY <2>1
  <2>3. 2^(a + 0) = 2^a * 2^0
    BY <2>1, <2>2, PowerZero
  <2> QED
    BY <2>3
<1>2. ASSUME NEW k \in P PROVE k + 1 \in P
  <2> DEFINE x == 2^a
             y == 2^k
             z == 2^(k + 1)
  <2>1. a + k \in Nat /\ a + (k + 1) = (a + k) + 1 /\ k \in Nat
    OBVIOUS
  <2>2. 2^((a + k) + 1) = 2 * 2^(a + k)
    BY <2>1, PowerNext
  <2>3. z = 2 * y /\ x \in Nat /\ y \in Nat
    BY <2>1, PowerNext, PowerIs
  <2>4. 2^(a + k) = x * y
    OBVIOUS
  <2>5. 2^((a + k) + 1) = 2 * (x * y)
    <3> HIDE DEF x, y
    <3> QED
      BY <2>2, <2>4
  <2>6. 2 * (x * y) = x * z
    <3> HIDE DEF x, y, z
    <3> QED
      BY <2>3
  <2>7. 2^(a + (k + 1)) = x * z
    <3> HIDE DEF x, y, z
    <3> QED
      BY <2>1, <2>5, <2>6
  <2> QED
    BY <2>7
<1>3. P = Nat
  <2>1. P \in SUBSET Nat
    OBVIOUS
  <2> HIDE DEF P
  <2> QED
    BY <1>1, <1>2, <2>1, Induction
<1> QED
  BY <1>3

-----------------------------------------------------------------------------
(* Networks: two of them are nested or disjoint.                           *)

(* Multiples of T are at least T apart.                                    *)
LEMMA Multiple ==
    ASSUME NEW T \in Nat, T >= 1, NEW x \in Nat, x % T = 0
    PROVE  \E q \in Nat : x = q * T
<1>1. x = T * (x \div T) + (x % T) /\ x \div T \in Nat
  OBVIOUS
<1> QED
  BY <1>1

(* The converse.                                                           *)
LEMMA MultipleMod ==
    ASSUME NEW T \in Nat, T >= 1, NEW q \in Nat
    PROVE  q * T \in Nat /\ (q * T) % T = 0
<1>1. q * T \in Nat
  OBVIOUS
<1> QED
  BY <1>1

(* No multiple lies between one and the next.                              *)
LEMMA Apart ==
    ASSUME NEW T \in Nat, T >= 1, NEW x \in Nat, NEW y \in Nat,
           x % T = 0, y % T = 0, x < y
    PROVE  x + T <= y
<1>1. PICK q \in Nat : x = q * T
  BY Multiple
<1>2. PICK r \in Nat : y = r * T
  BY Multiple
<1>3. q + 1 <= r
  <2>1. r <= q => r * T <= q * T
    OBVIOUS
  <2> QED
    BY <1>1, <1>2, <2>1
<1>4. (q + 1) * T <= r * T
  BY <1>3
<1>5. (q + 1) * T = q * T + T
  OBVIOUS
<1> QED
  BY <1>1, <1>2, <1>4, <1>5

(* Sums of multiples are multiples.                                        *)
LEMMA MultipleAdds ==
    ASSUME NEW T \in Nat, T >= 1, NEW x \in Nat, NEW y \in Nat, x % T = 0, y % T = 0
    PROVE  (x + y) % T = 0
<1>1. PICK q \in Nat : x = q * T
  BY Multiple
<1>2. PICK r \in Nat : y = r * T
  BY Multiple
<1>3. x + y = (q + r) * T /\ q + r \in Nat
  BY <1>1, <1>2
<1> QED
  BY <1>3, MultipleMod

(* The sizes of networks.                                                  *)
LEMMA SizeIs ==
    ASSUME NEW k \in 0 .. Width
    PROVE  Size(k) \in Nat /\ Size(k) >= 1
<1>1. Width - k \in Nat
  BY NetsAssumption
<1> QED
  BY <1>1, PowerIs DEF Size

(* The size of a network is a multiple of that of every smaller one.       *)
LEMMA SizeDivides ==
    ASSUME NEW k \in 0 .. Width, NEW l \in 0 .. Width, k <= l
    PROVE  /\ 2^(l - k) \in Nat /\ 2^(l - k) >= 1
           /\ Size(k) = 2^(l - k) * Size(l)
           /\ Size(k) % Size(l) = 0
<1>1. l - k \in Nat /\ Width - l \in Nat /\ (l - k) + (Width - l) = Width - k
  BY NetsAssumption
<1>2. 2^(l - k) \in Nat /\ 2^(l - k) >= 1 /\ Size(l) \in Nat /\ Size(l) >= 1
  BY <1>1, PowerIs, SizeIs
<1>3. Size(k) = 2^(l - k) * Size(l)
  <2>1. 2^((l - k) + (Width - l)) = 2^(l - k) * 2^(Width - l)
    BY <1>1, PowerAdds
  <2> QED
    BY <1>1, <2>1 DEF Size
<1> QED
  BY <1>2, <1>3, MultipleMod

(* The sizes at both ends: the whole space, a pair, a single address.      *)
LEMMA SizeEnds ==
    /\ Width \in Nat /\ Width >= 1
    /\ Size(Width) = 1
    /\ Size(Width - 1) = 2
    /\ \A k \in 0 .. Width : k < Width - 1 => Size(k) >= 4
    /\ 2^Width = Size(0) /\ 2^Width \in Nat /\ 2^Width >= 1
<1>1. Width \in Nat /\ Width >= 1 /\ Width - 1 \in Nat /\ Width \in 0 .. Width
      /\ Width - 0 = Width
  BY NetsAssumption
<1>2. Size(Width) = 1
  BY <1>1, PowerZero DEF Size
<1>3. Size(Width - 1) = 2
  <2>1. Width - (Width - 1) = 1
    BY <1>1
  <2> QED
    BY <2>1, PowerSmall, Zenon DEF Size
<1>4. ASSUME NEW k \in 0 .. Width, k < Width - 1 PROVE Size(k) >= 4
  <2>1. Width - 2 \in 0 .. Width /\ k <= Width - 2 /\ Width - (Width - 2) = 2
    BY <1>1, <1>4
  <2>3. Size(Width - 2) = 4
    BY <2>1, PowerSmall, Zenon DEF Size
  <2> DEFINE c == 2^((Width - 2) - k)
  <2>4. Size(k) = c * 4 /\ c \in Nat /\ c >= 1
    BY <1>4, <2>1, <2>3, SizeDivides
  <2> HIDE DEF c
  <2> QED
    BY <2>4
<1>5. 2^Width = Size(0) /\ 2^Width \in Nat /\ 2^Width >= 1
  BY <1>1, PowerIs DEF Size
<1> QED
  BY <1>1, <1>2, <1>3, <1>4, <1>5

(* What a network is.                                                      *)
LEMMA NetIs ==
    ASSUME NEW n \in Nets
    PROVE  /\ n.len \in 0 .. Width /\ n.base \in Nat
           /\ Size(n.len) \in Nat /\ Size(n.len) >= 1
           /\ n.base % Size(n.len) = 0
           /\ n.base + Size(n.len) <= 2^Width
           /\ NetAddrs(n) \subseteq Addresses
           /\ n.base \in NetAddrs(n)
<1>1. /\ n.len \in 0 .. Width /\ n.base \in Nat /\ n.base < 2^Width
      /\ n.base % Size(n.len) = 0
  BY SizeEnds DEF Nets, Addresses
<1>2. Size(n.len) \in Nat /\ Size(n.len) >= 1
  BY <1>1, SizeIs
<1>3. 2^Width \in Nat /\ 2^Width % Size(n.len) = 0
  <2>1. 0 \in 0 .. Width /\ 0 <= n.len
    BY <1>1, SizeEnds
  <2>2. Size(0) % Size(n.len) = 0
    BY <1>1, <2>1, SizeDivides
  <2> QED
    BY <2>2, SizeEnds
<1>4. n.base + Size(n.len) <= 2^Width
  BY <1>1, <1>2, <1>3, Apart
<1>5. NetAddrs(n) \subseteq Addresses /\ n.base \in NetAddrs(n)
  BY <1>1, <1>2, <1>3, <1>4 DEF NetAddrs, Addresses
<1> QED
  BY <1>1, <1>2, <1>4, <1>5

(* Of two networks the smaller lies in the larger, or apart from it.       *)
LEMMA Nested ==
    ASSUME NEW n \in Nets, NEW m \in Nets, n.len <= m.len
    PROVE  IF m.base \in NetAddrs(n) THEN NetAddrs(m) \subseteq NetAddrs(n)
           ELSE NetAddrs(m) \cap NetAddrs(n) = {}
<1> DEFINE b == n.base
           S == Size(n.len)
           c == m.base
           T == Size(m.len)
<1>1. /\ b \in Nat /\ c \in Nat /\ S \in Nat /\ T \in Nat /\ S >= 1 /\ T >= 1
      /\ b % S = 0 /\ c % T = 0 /\ S % T = 0
      /\ NetAddrs(n) = b .. b + S - 1 /\ NetAddrs(m) = c .. c + T - 1
  BY NetIs, SizeDivides DEF NetAddrs
<1> HIDE DEF b, S, c, T
<1>2. b % T = 0 /\ (b + S) % T = 0
  <2>1. PICK q \in Nat : b = q * S
    BY <1>1, Multiple
  <2>2. PICK r \in Nat : S = r * T
    BY <1>1, Multiple
  <2>3. b = (q * r) * T /\ q * r \in Nat
    BY <1>1, <2>1, <2>2
  <2>4. b % T = 0
    BY <1>1, <2>3, MultipleMod
  <2> QED
    BY <1>1, <2>4, MultipleAdds
<1>3. CASE c < b
  <2>1. c + T <= b
    BY <1>1, <1>2, <1>3, Apart
  <2> QED
    BY <1>1, <1>3, <2>1 DEF c
<1>4. CASE c >= b /\ c < b + S
  <2>1. c + T <= b + S
    <3> DEFINE d == b + S
    <3>1. d \in Nat /\ c < d /\ d % T = 0
      BY <1>1, <1>2, <1>4
    <3> HIDE DEF d
    <3>2. c + T <= d
      BY <1>1, <3>1, Apart
    <3> QED
      BY <3>2 DEF d
  <2> QED
    BY <1>1, <1>4, <2>1 DEF c
<1>5. CASE c >= b + S
  BY <1>1, <1>5 DEF c
<1>6. c < b \/ (c >= b /\ c < b + S) \/ c >= b + S
  BY <1>1
<1> QED
  BY <1>3, <1>4, <1>5, <1>6, Zenon

(* So containing is inclusion, overlapping is sharing an address, and      *)
(* containing is an order.                                                 *)
LEMMA ContainsIs ==
    ASSUME NEW n \in Nets, NEW m \in Nets
    PROVE  /\ NetContains(n, m) => NetAddrs(m) \subseteq NetAddrs(n)
           /\ Overlaps(n, m) <=> NetAddrs(n) \cap NetAddrs(m) # {}
           /\ (~NetContains(n, m) /\ ~NetContains(m, n)) => ~Overlaps(n, m)
<1>1. n.base \in NetAddrs(n) /\ m.base \in NetAddrs(m) /\ n.len \in Nat /\ m.len \in Nat
  BY NetIs
<1>2. CASE n.len <= m.len
  BY <1>1, <1>2, Nested DEF NetContains, Overlaps
<1>3. CASE m.len <= n.len
  BY <1>1, <1>3, Nested DEF NetContains, Overlaps
<1> QED
  BY <1>1, <1>2, <1>3

(* containing is reflexive and transitive.                                 *)
LEMMA ContainsOrder ==
    /\ \A n \in Nets : NetContains(n, n)
    /\ \A n, m, k \in Nets : NetContains(n, m) /\ NetContains(m, k) => NetContains(n, k)
<1>1. \A n \in Nets : n.len \in Nat /\ n.base \in NetAddrs(n)
  BY NetIs
<1>2. ASSUME NEW n \in Nets, NEW m \in Nets, NEW k \in Nets,
             NetContains(n, m), NetContains(m, k)
      PROVE  NetContains(n, k)
  <2>1. NetAddrs(m) \subseteq NetAddrs(n)
    BY <1>2, ContainsIs
  <2> QED
    BY <1>1, <1>2, <2>1 DEF NetContains
<1> QED
  BY <1>1, <1>2 DEF NetContains

-----------------------------------------------------------------------------
(* The addresses of a network that are probed, and their number.           *)
LEMMA ProbesAre ==
    ASSUME NEW n \in Nets
    PROVE  /\ ProbeAddrs(n) \subseteq NetAddrs(n)
           /\ IsFiniteSet(ProbeAddrs(n))
           /\ Cardinality(ProbeAddrs(n)) = HostCount(n)
           /\ HostCount(n) \in Nat
<1> DEFINE b == n.base
           S == Size(n.len)
           A == b .. b + S - 1
<1>1. b \in Nat /\ S \in Nat /\ S >= 1 /\ n.len \in 0 .. Width /\ Width \in Nat
  BY NetIs, NetsAssumption
<1>2. NetAddrs(n) = A /\ Broadcast(n) = b + S - 1
  BY DEF NetAddrs, Broadcast
<1> HIDE DEF b, S
<1>3. IsFiniteSet(A) /\ Cardinality(A) = S /\ b \in A
  <2> DEFINE e == b + S - 1
  <2>1. b \in Int /\ e \in Int /\ b <= e /\ e - b + 1 = S
    BY <1>1
  <2> HIDE DEF e
  <2>2. IsFiniteSet(b .. e) /\ Cardinality(b .. e) = IF b > e THEN 0 ELSE e - b + 1
    BY <2>1, FS_Interval
  <2>3. b \in b .. e /\ Cardinality(b .. e) = S
    BY <2>1, <2>2
  <2> QED
    BY <2>2, <2>3 DEF e
<1>4. CASE n.len >= Width - 1
  <2>1. ProbeAddrs(n) = A
    BY <1>2, <1>4 DEF ProbeAddrs
  <2>2. n.len = Width \/ n.len = Width - 1
    BY <1>1, <1>4
  <2>3. CASE n.len = Width
    BY <1>2, <1>3, <2>1, <2>3, SizeEnds DEF HostCount, S
  <2>4. CASE n.len = Width - 1
    <3>1. n.len # Width
      BY <1>1, <2>4
    <3> QED
      BY <1>2, <1>3, <2>1, <2>4, <3>1, SizeEnds DEF HostCount, S
  <2> QED
    BY <2>2, <2>3, <2>4
<1>5. CASE ~(n.len >= Width - 1)
  <2> DEFINE l == b + S - 1
  <2>1. S >= 4 /\ n.len # Width /\ n.len # Width - 1
    BY <1>1, <1>5, SizeEnds DEF S
  <2>2. l \in A /\ l # b
    BY <1>1, <2>1
  <2>3. ProbeAddrs(n) = (A \ {b}) \ {l}
    BY <1>2, <1>5 DEF ProbeAddrs, b
  <2> HIDE DEF l, A
  <2>4. IsFiniteSet(A \ {b}) /\ Cardinality(A \ {b}) = S - 1
    BY <1>3, FS_RemoveElement
  <2>5. l \in A \ {b}
    BY <2>2
  <2>6. IsFiniteSet((A \ {b}) \ {l}) /\ Cardinality((A \ {b}) \ {l}) = (S - 1) - 1
    BY <2>4, <2>5, FS_RemoveElement
  <2>7. HostCount(n) = S - 2
    BY <2>1 DEF HostCount, S
  <2> QED
    BY <1>1, <1>2, <2>1, <2>3, <2>6, <2>7
<1> QED
  BY <1>4, <1>5

(* What a block has left beside the ignored ranges, and how many, are as   *)
(* the definitions of the code compute them, with and without a detour.    *)
LEMMA BlockAddrsAre ==
    ASSUME NEW b \in Nets, NEW ex \in SUBSET Nets
    PROVE  /\ BlockAddrs(b, ex) = Survivors(b, ex)
           /\ BlockCount(b, ex) = Cardinality(BlockAddrs(b, ex))
           /\ BlockCount(b, ex) \in Nat
           /\ IsFiniteSet(BlockAddrs(b, ex))
           /\ BlockAddrs(b, ex) \subseteq ProbeAddrs(b)
<1>1. ProbeAddrs(b) \subseteq NetAddrs(b) /\ IsFiniteSet(ProbeAddrs(b))
      /\ Cardinality(ProbeAddrs(b)) = HostCount(b) /\ HostCount(b) \in Nat
  BY ProbesAre
<1>2. Survivors(b, ex) \in SUBSET ProbeAddrs(b)
  BY DEF Survivors
<1>3. IsFiniteSet(Survivors(b, ex)) /\ Cardinality(Survivors(b, ex)) \in Nat
  BY <1>1, <1>2, FS_Subset, FS_CardinalityType
<1>4. CASE Covered(b, ex)
  <2>1. PICK x \in ex : NetContains(x, b)
    BY <1>4 DEF Covered
  <2>2. NetAddrs(b) \subseteq NetAddrs(x)
    BY <2>1, ContainsIs
  <2>3. Survivors(b, ex) = {}
    BY <1>1, <2>2 DEF Survivors
  <2> QED
    BY <1>4, <2>3, FS_EmptySet DEF BlockAddrs, BlockCount
<1>5. CASE ~Covered(b, ex) /\ ~Touched(b, ex)
  <2>1. \A x \in ex : NetAddrs(b) \cap NetAddrs(x) = {}
    BY <1>5, ContainsIs DEF Touched
  <2>2. Survivors(b, ex) = ProbeAddrs(b)
    BY <1>1, <2>1 DEF Survivors
  <2> QED
    BY <1>1, <1>5, <2>2 DEF BlockAddrs, BlockCount
<1>6. CASE ~Covered(b, ex) /\ Touched(b, ex)
  BY <1>2, <1>3, <1>6 DEF BlockAddrs, BlockCount
<1> QED
  BY <1>4, <1>5, <1>6

(* The block of an address.                                                *)
LEMMA TruncIs ==
    ASSUME NEW a \in Addresses, NEW k \in 0 .. Width
    PROVE  Trunc(a, k) \in Nets /\ a \in NetAddrs(Trunc(a, k))
<1> DEFINE S == Size(k)
           b == a - (a % S)
<1>1. S \in Nat /\ S >= 1 /\ a \in Nat /\ a < 2^Width /\ 2^Width \in Nat
  BY SizeIs, SizeEnds DEF Addresses
<1> HIDE DEF S
<1>2. b \in Nat /\ b <= a /\ a <= b + S - 1 /\ b % S = 0
  <2>1. a % S \in 0 .. S - 1 /\ a = S * (a \div S) + (a % S) /\ a \div S \in Nat
    BY <1>1
  <2>2. b = (a \div S) * S
    BY <1>1, <2>1
  <2>3. b \in Nat /\ b % S = 0
    <3> HIDE DEF b
    <3> QED
      BY <1>1, <2>1, <2>2, MultipleMod
  <2> QED
    BY <1>1, <2>1, <2>3
<1> HIDE DEF b
<1>3. b \in Addresses /\ b % Size(k) = 0
  BY <1>1, <1>2 DEF Addresses, S
<1>4. Trunc(a, k) = [base |-> b, len |-> k]
  BY DEF Trunc, b, S
<1>5. Trunc(a, k) \in Nets
  BY <1>3, <1>4 DEF Nets
<1>6. a \in NetAddrs(Trunc(a, k))
  BY <1>1, <1>2, <1>4 DEF NetAddrs, S
<1> QED
  BY <1>5, <1>6

(* A block is a network too.                                               *)
LEMMA BlockLenIs == BlockLen \in 0 .. Width /\ Size(BlockLen) \in Nat /\ Size(BlockLen) >= 1
<1>1. BlockLen \in 0 .. Width
  BY NetsAssumption
<1> QED
  BY <1>1, SizeIs

(* The i-th block of a large network.                                      *)
LEMMA PieceIs ==
    ASSUME NEW n \in Nets, n.len < BlockLen, NEW i \in 1 .. 2^(BlockLen - n.len)
    PROVE  LET base == n.base + (i - 1) * Size(BlockLen)
               m    == [base |-> base, len |-> BlockLen]
           IN  /\ base \in Nat /\ m \in Nets /\ NetAddrs(m) \subseteq NetAddrs(n)
               /\ base + Size(BlockLen) <= n.base + Size(n.len)
<1> DEFINE B == Size(BlockLen)
           c == 2^(BlockLen - n.len)
           b == n.base
           base == b + (i - 1) * B
           m == [base |-> base, len |-> BlockLen]
<1>1. /\ n.len \in 0 .. Width /\ b \in Nat /\ Size(n.len) \in Nat
      /\ b % Size(n.len) = 0 /\ b + Size(n.len) <= 2^Width /\ 2^Width \in Nat
      /\ NetAddrs(n) = b .. b + Size(n.len) - 1
  BY NetIs, SizeEnds DEF NetAddrs
<1>2. /\ c \in Nat /\ c >= 1 /\ Size(n.len) = c * B /\ Size(n.len) % B = 0
      /\ B \in Nat /\ B >= 1 /\ BlockLen \in 0 .. Width
  <2>1. B \in Nat /\ B >= 1 /\ BlockLen \in 0 .. Width /\ n.len <= BlockLen
    BY <1>1, BlockLenIs
  <2>2. c \in Nat /\ c >= 1 /\ Size(n.len) = c * B /\ Size(n.len) % B = 0
    BY <1>1, <2>1, SizeDivides
  <2> QED
    BY <2>1, <2>2
<1>3. i \in Nat /\ i >= 1 /\ i <= c /\ i - 1 \in Nat
  BY <1>2
<1> HIDE DEF B, c, b
<1>4. b % B = 0
  <2>1. Size(n.len) >= 1
    BY SizeIs, <1>1
  <2>2. PICK q \in Nat : b = q * Size(n.len)
    BY <1>1, <2>1, Multiple
  <2>3. b = (q * c) * B /\ q * c \in Nat
    BY <1>2, <2>2
  <2> QED
    BY <1>2, <2>3, MultipleMod
<1>5. (i - 1) * B \in Nat /\ ((i - 1) * B) % B = 0
  BY <1>2, <1>3, MultipleMod
<1>6. base \in Nat /\ base % B = 0
  <2> DEFINE d == (i - 1) * B
  <2>1. d \in Nat /\ d % B = 0 /\ base = b + d
    BY <1>5
  <2> HIDE DEF d, base
  <2>2. (b + d) % B = 0
    BY <1>1, <1>2, <1>4, <2>1, MultipleAdds
  <2>3. b + d \in Nat
    BY <1>1, <2>1
  <2> QED
    BY <2>1, <2>2, <2>3
<1>7. (i - 1) * B + B <= c * B
  <2>1. (i - 1) * B + B = i * B
    BY <1>2, <1>3
  <2>2. i * B <= c * B
    BY <1>2, <1>3
  <2> QED
    BY <2>1, <2>2
<1>8. base >= b /\ base + B <= b + Size(n.len)
  BY <1>1, <1>2, <1>5, <1>7
<1> HIDE DEF base
<1>9. base \in Addresses
  BY <1>1, <1>2, <1>6, <1>8 DEF Addresses
<1>10. m \in Nets
  BY <1>2, <1>6, <1>9 DEF Nets, B
<1>11. NetAddrs(m) \subseteq NetAddrs(n)
  <2>1. NetAddrs(m) = base .. base + B - 1
    BY DEF NetAddrs, B
  <2> HIDE DEF m
  <2> QED
    BY <1>1, <1>2, <1>6, <1>8, <2>1
<1>12. base = n.base + (i - 1) * Size(BlockLen)
  BY DEF base, b, B
<1> QED
  BY <1>6, <1>8, <1>10, <1>11, <1>12 DEF B, b

(* The blocks of a network lie in it, apart from each other, and every     *)
(* address of it is in one: in the network itself if it is small, or else  *)
(* in the aligned block of the address.                                    *)
LEMMA BlocksAre ==
    ASSUME NEW n \in Nets
    PROVE  /\ Slash24Blocks(n) \in Seq(Nets)
           /\ \A i \in DOMAIN Slash24Blocks(n) : NetAddrs(Slash24Blocks(n)[i]) \subseteq NetAddrs(n)
           /\ \A i, j \in DOMAIN Slash24Blocks(n) : i < j =>
                 NetAddrs(Slash24Blocks(n)[i]) \cap NetAddrs(Slash24Blocks(n)[j]) = {}
           /\ \A a \in NetAddrs(n) : \E i \in DOMAIN Slash24Blocks(n) :
                 Slash24Blocks(n)[i] = IF n.len >= BlockLen THEN n ELSE Trunc(a, BlockLen)
<1> DEFINE s == Slash24Blocks(n)
           B == Size(BlockLen)
           c == 2^(BlockLen - n.len)
           b == n.base
<1>0. /\ n.len \in 0 .. Width /\ b \in Nat /\ Size(n.len) \in Nat
      /\ BlockLen \in Nat /\ BlockLen \in 0 .. Width /\ B \in Nat /\ B >= 1
  BY NetIs, BlockLenIs, NetsAssumption
<1>1. CASE n.len >= BlockLen
  <2>1. s = <<n>>
    BY <1>1 DEF Slash24Blocks
  <2>2. s \in Seq(Nets) /\ DOMAIN s = {1} /\ s[1] = n
    BY <2>1
  <2> HIDE DEF s
  <2>3. \A i \in DOMAIN s : NetAddrs(s[i]) \subseteq NetAddrs(n)
    BY <2>2
  <2>4. \A i, j \in DOMAIN s : i < j => NetAddrs(s[i]) \cap NetAddrs(s[j]) = {}
    BY <2>2
  <2>5. \A a \in NetAddrs(n) : \E i \in DOMAIN s :
           s[i] = IF n.len >= BlockLen THEN n ELSE Trunc(a, BlockLen)
    BY <1>1, <2>2
  <2> QED
    BY <2>2, <2>3, <2>4, <2>5 DEF s
<1>2. CASE ~(n.len >= BlockLen)
  <2> DEFINE piece(i) == [base |-> b + (i - 1) * B, len |-> BlockLen]
  <2>0. n.len < BlockLen
    BY <1>0, <1>2
  <2>1. c \in Nat /\ c >= 1 /\ Size(n.len) = c * B
    BY <1>0, <2>0, SizeDivides
  <2>2. s = [i \in 1 .. c |-> piece(i)]
    BY <1>2 DEF Slash24Blocks
  <2>3. ASSUME NEW i \in 1 .. c
        PROVE  /\ b + (i - 1) * B \in Nat
               /\ piece(i) \in Nets /\ NetAddrs(piece(i)) \subseteq NetAddrs(n)
    BY <2>0, PieceIs
  <2>4. /\ DOMAIN s = 1 .. c
        /\ \A i \in 1 .. c : s[i] = piece(i)
    BY <2>2
  <2>5. s \in Seq(Nets)
    <3> HIDE DEF piece, c
    <3> QED
      BY <2>1, <2>2, <2>3
  <2> HIDE DEF s
  <2>6. \A i \in DOMAIN s : NetAddrs(s[i]) \subseteq NetAddrs(n)
    <3> HIDE DEF piece
    <3> QED
      BY <2>3, <2>4
  <2>7. ASSUME NEW i \in DOMAIN s, NEW j \in DOMAIN s, i < j
        PROVE  NetAddrs(s[i]) \cap NetAddrs(s[j]) = {}
    <3> DEFINE x == b + (i - 1) * B
               y == b + (j - 1) * B
    <3>1. NetAddrs(s[i]) = x .. x + B - 1 /\ NetAddrs(s[j]) = y .. y + B - 1
      <4>1. s[i] = [base |-> x, len |-> BlockLen] /\ s[j] = [base |-> y, len |-> BlockLen]
        BY <2>4
      <4>2. s[i].base = x /\ s[i].len = BlockLen /\ s[j].base = y /\ s[j].len = BlockLen
        <5> HIDE DEF x, y
        <5> QED
          BY <4>1
      <4> QED
        BY <4>2, Zenon DEF NetAddrs
    <3>2. x \in Nat /\ y \in Nat
      BY <2>3, <2>4
    <3>3. x + B <= y
      <4>1. i \in Nat /\ j \in Nat /\ i <= j - 1 /\ i >= 1
        BY <2>1, <2>4, <2>7
      <4>2. (i - 1) * B + B = i * B
        BY <1>0, <4>1
      <4>3. i * B <= (j - 1) * B
        BY <1>0, <4>1
      <4>4. i - 1 \in Nat /\ j - 1 \in Nat /\ (i - 1) * B \in Nat /\ (j - 1) * B \in Nat
        BY <1>0, <4>1
      <4> HIDE DEF B, b
      <4> QED
        BY <1>0, <4>2, <4>3, <4>4
    <3> HIDE DEF x, y, B
    <3> QED
      BY <1>0, <3>1, <3>2, <3>3
  <2>8. ASSUME NEW a \in NetAddrs(n)
        PROVE  \E i \in DOMAIN s : s[i] = Trunc(a, BlockLen)
    <3> DEFINE t == a - (a % B)
    <3>1. a \in Addresses /\ a \in Nat /\ b <= a /\ a < b + Size(n.len)
      BY <1>0, NetIs, SizeEnds DEF NetAddrs, Addresses
    <3>2. Trunc(a, BlockLen) = [base |-> t, len |-> BlockLen]
      BY DEF Trunc
    <3>3. t \in Nat /\ t % B = 0 /\ t <= a /\ a < t + B
      <4>1. Trunc(a, BlockLen) \in Nets /\ a \in NetAddrs(Trunc(a, BlockLen))
        BY <1>0, <3>1, TruncIs
      <4>2. t \in Nat /\ t % B = 0
        <5>1. Trunc(a, BlockLen).base = t /\ Trunc(a, BlockLen).len = BlockLen
          BY <3>2
        <5> HIDE DEF t
        <5> QED
          BY <4>1, <5>1, NetIs
      <4>3. NetAddrs(Trunc(a, BlockLen)) = t .. t + B - 1
        BY <3>2 DEF NetAddrs
      <4> HIDE DEF t, B
      <4> QED
        BY <1>0, <3>1, <4>1, <4>2, <4>3
    <3> HIDE DEF t
    <3>4. b % B = 0
      <4>1. piece(1) \in Nets /\ piece(1).base = b + (1 - 1) * B /\ piece(1).len = BlockLen
        BY <2>1, <2>3
      <4>2. b + (1 - 1) * B = b
        BY <1>0
      <4> HIDE DEF piece
      <4> QED
        BY <4>1, <4>2, NetIs
    <3>5. b <= t
      <4>1. t < b => t + B <= b
        BY <1>0, <3>3, <3>4, Apart
      <4> HIDE DEF B, b
      <4> QED
        BY <1>0, <3>1, <3>3, <4>1
    <3>6. PICK q \in Nat : b = q * B
      BY <1>0, <3>4, Multiple
    <3>7. PICK r \in Nat : t = r * B
      BY <1>0, <3>3, Multiple
    <3> HIDE DEF B, b, c
    <3>8. q <= r
      <4>1. r < q => r + 1 <= q
        OBVIOUS
      <4>2. r + 1 <= q => (r + 1) * B <= q * B
        BY <1>0
      <4>3. (r + 1) * B = r * B + B
        BY <1>0
      <4>4. r < q => t + B <= b
        BY <3>6, <3>7, <4>1, <4>2, <4>3
      <4> QED
        BY <1>0, <3>3, <3>5, <4>4
    <3> DEFINE k == r - q
    <3>9. k \in Nat /\ t = b + k * B
      <4>1. k \in Nat /\ r = q + k
        BY <3>8
      <4> HIDE DEF k
      <4>2. (q + k) * B = q * B + k * B
        BY <1>0, <4>1
      <4> QED
        BY <3>6, <3>7, <4>1, <4>2
    <3> HIDE DEF k
    <3>10. k < c
      <4>1. c <= k => c * B <= k * B
        BY <1>0, <2>1, <3>9
      <4>2. k * B \in Nat /\ c * B \in Nat
        BY <1>0, <2>1, <3>9
      <4>3. b + k * B < b + c * B
        BY <1>0, <2>1, <3>1, <3>3, <3>9
      <4> QED
        BY <1>0, <2>1, <3>9, <4>1, <4>2, <4>3
    <3>11. k + 1 \in 1 .. c /\ (k + 1) - 1 = k
      BY <2>1, <3>9, <3>10
    <3>12. s[k + 1] = Trunc(a, BlockLen)
      <4>1. s[k + 1] = [base |-> b + ((k + 1) - 1) * B, len |-> BlockLen]
        BY <2>4, <3>11
      <4> QED
        BY <3>2, <3>9, <3>11, <4>1
    <3> QED
      BY <2>4, <3>11, <3>12
  <2>9. \A a \in NetAddrs(n) : \E i \in DOMAIN s :
           s[i] = IF n.len >= BlockLen THEN n ELSE Trunc(a, BlockLen)
    BY <1>2, <2>8
  <2> QED
    BY <2>5, <2>6, <2>7, <2>9, Zenon DEF s
<1> QED
  BY <1>1, <1>2

-----------------------------------------------------------------------------
(* The list of networks to sweep.                                          *)
Dedups(f, s) ==
    f = [i \in 0 .. Len(s) |-> IF i = 0 THEN <<>> ELSE DedupStep(f[i - 1], s[i])]

(* A turn of the loop of dedup_nets keeps a list of networks one.          *)
LEMMA DedupStepType ==
    ASSUME NEW t \in Seq(Nets), NEW n \in Nets
    PROVE  DedupStep(t, n) \in Seq(Nets)
<1>1. Only(t, {k \in Nets : ~NetContains(n, k)}) \in Seq(Nets)
  BY OnlyIs
<1> QED
  BY <1>1 DEF DedupStep

(* DedupNets is the last value of that loop.                               *)
LEMMA DedupLoop ==
    ASSUME NEW s \in Seq(Nets)
    PROVE  \E f : /\ f[0] = <<>>
                  /\ \A i \in 1 .. Len(s) : f[i] = DedupStep(f[i - 1], s[i])
                  /\ DedupNets(s) = f[Len(s)]
<1> DEFINE n == Len(s)
           step == [c \in Seq(Nets) \X (1 .. n) |-> DedupStep(c[1], s[c[2]])]
           kept == CHOOSE f : f = [i \in 0 .. Len(s) |->
                                     IF i = 0 THEN <<>> ELSE DedupStep(f[i - 1], s[i])]
<1>1. n \in Nat /\ <<>> \in Seq(Nets) /\ \A i \in 1 .. n : s[i] \in Nets
  OBVIOUS
<1>2. step \in [Seq(Nets) \X (1 .. n) -> Seq(Nets)]
  <2> SUFFICES ASSUME NEW k \in Seq(Nets), NEW i \in 1 .. n
               PROVE  DedupStep(k, s[i]) \in Seq(Nets)
    OBVIOUS
  <2>1. s[i] \in Nets
    BY <1>1
  <2> QED
    BY <2>1, DedupStepType
<1>3. PICK f : IsRun(f, n, Seq(Nets), <<>>, step)
  <2> HIDE DEF n, step
  <2> QED
    BY <1>1, <1>2, LoopExists
<1>4. Dedups(f, s)
  <2>1. ASSUME NEW i \in 0 .. n, i # 0 PROVE f[i] = DedupStep(f[i - 1], s[i])
    <3>1. i \in 1 .. n /\ i - 1 \in 0 .. n
      BY <1>1, <2>1
    <3>2. f[i - 1] \in Seq(Nets) /\ f[i] = step[<<f[i - 1], i>>]
      <4> HIDE DEF n, step
      <4> QED
        BY <1>3, <3>1 DEF IsRun
    <3> QED
      BY <3>1, <3>2
  <2> DEFINE g == [i \in 0 .. n |-> IF i = 0 THEN <<>> ELSE DedupStep(f[i - 1], s[i])]
  <2>2. ASSUME NEW i \in 0 .. n PROVE f[i] = g[i]
    <3>1. CASE i = 0
      BY <1>3, <3>1 DEF IsRun
    <3>2. CASE i # 0
      <4> HIDE DEF n, step
      <4> QED
        BY <2>1, <3>2
    <3> QED
      BY <3>1, <3>2
  <2>3. f = g
    <3> HIDE DEF g, step, n
    <3>1. f = [i \in 0 .. n |-> f[i]]
      BY <1>3 DEF IsRun
    <3>2. g = [i \in 0 .. n |-> g[i]]
      BY DEF g
    <3> QED
      BY <2>2, <3>1, <3>2
  <2> QED
    BY <2>3, Zenon DEF Dedups
<1>5. Dedups(kept, s)
  BY <1>4, Zenon DEF Dedups
<1>6. DedupNets(s) = kept[Len(s)]
  BY Zenon DEF DedupNets
<1> HIDE DEF kept
<1>7. kept[0] = <<>>
  BY <1>1, <1>5 DEF Dedups
<1>8. ASSUME NEW i \in 1 .. n PROVE kept[i] = DedupStep(kept[i - 1], s[i])
  <2>1. i \in 0 .. n /\ i # 0
    BY <1>1
  <2> QED
    BY <1>5, <2>1 DEF Dedups
<1> QED
  BY <1>6, <1>7, <1>8

(* t is what the loop keeps of the first i networks: it holds them all and *)
(* none of its networks holds another.                                     *)
Deduped(t, s, i) ==
    /\ t \in Seq(Nets)
    /\ \A p \in DOMAIN t : \E j \in 1 .. i : t[p] = s[j]
    /\ \A j \in 1 .. i : \E p \in DOMAIN t : NetContains(t[p], s[j])
    /\ \A p, q \in DOMAIN t : p # q => ~NetContains(t[p], t[q])

(* One more network considered.                                            *)
LEMMA DedupMore ==
    ASSUME NEW s \in Seq(Nets), NEW i \in 1 .. Len(s), NEW t, Deduped(t, s, i - 1)
    PROVE  Deduped(DedupStep(t, s[i]), s, i)
<1> DEFINE n == s[i]
           u == Only(t, {k \in Nets : ~NetContains(n, k)})
           v == Append(u, n)
<1>0. Len(s) \in Nat /\ i \in Nat /\ n \in Nets /\ t \in Seq(Nets)
  BY DEF Deduped
<1>1. \A j \in 1 .. i : j \in 1 .. i - 1 \/ j = i
  BY <1>0
<1>2. i \in 1 .. i /\ \A j \in 1 .. i - 1 : j \in 1 .. i
  BY <1>0
<1>3. CASE \E p \in DOMAIN t : NetContains(t[p], n)
  <2>1. DedupStep(t, n) = t
    BY <1>3 DEF DedupStep
  <2>2. \A p \in DOMAIN t : \E j \in 1 .. i : t[p] = s[j]
    BY <1>2 DEF Deduped
  <2>3. \A j \in 1 .. i : \E p \in DOMAIN t : NetContains(t[p], s[j])
    BY <1>1, <1>3 DEF Deduped
  <2>4. Deduped(t, s, i)
    BY <2>2, <2>3 DEF Deduped
  <2> QED
    BY <2>1, <2>4
<1>4. CASE ~\E p \in DOMAIN t : NetContains(t[p], n)
  <2>1. DedupStep(t, n) = v
    BY <1>4 DEF DedupStep
  <2>2. /\ u \in Seq(Nets)
        /\ Range(u) = Range(t) \cap {k \in Nets : ~NetContains(n, k)}
        /\ \A p, q \in DOMAIN u : p < q =>
              \E j, k \in DOMAIN t : j < k /\ u[p] = t[j] /\ u[q] = t[k]
    <3> DEFINE S == {k \in Nets : ~NetContains(n, k)}
               o == Only(t, S)
    <3> HIDE DEF S
    <3>1. /\ o \in Seq(Nets)
          /\ Range(o) = Range(t) \cap S
          /\ \A p, q \in DOMAIN o : p < q =>
                \E j, k \in DOMAIN t : j < k /\ o[p] = t[j] /\ o[q] = t[k]
      BY <1>0, OnlyIs
    <3> HIDE DEF o
    <3>2. u = o
      BY DEF o, S
    <3> QED
      BY <3>1, <3>2 DEF S
  <2> HIDE DEF u
  <2>3. /\ v \in Seq(Nets) /\ Len(u) \in Nat /\ DOMAIN u = 1 .. Len(u)
        /\ \A p \in DOMAIN u : v[p] = u[p] /\ p \in DOMAIN v
        /\ \A p \in DOMAIN v : p \in DOMAIN u \/ p = Len(u) + 1
        /\ Len(u) + 1 \in DOMAIN v /\ v[Len(u) + 1] = n
    BY <1>0, <2>2
  <2>4. \A p \in DOMAIN u : (\E k \in DOMAIN t : u[p] = t[k]) /\ ~NetContains(n, u[p])
    <3>1. \A p \in DOMAIN u : u[p] \in Range(t) /\ ~NetContains(n, u[p])
      BY <2>2 DEF Range
    <3> QED
      BY <3>1 DEF Range
  <2>5. \A k \in DOMAIN t : NetContains(n, t[k]) \/ \E p \in DOMAIN u : u[p] = t[k]
    <3>1. \A k \in DOMAIN t : t[k] \in Nets /\ t[k] \in Range(t)
      BY <1>0 DEF Range
    <3>2. \A k \in DOMAIN t : NetContains(n, t[k]) \/ t[k] \in Range(u)
      BY <2>2, <3>1
    <3> QED
      BY <3>2 DEF Range
  <2> HIDE DEF v, n
  <2>6. ASSUME NEW p \in DOMAIN v PROVE \E j \in 1 .. i : v[p] = s[j]
    <3>1. CASE p \in DOMAIN u
      <4>1. PICK k \in DOMAIN t : u[p] = t[k]
        BY <2>4, <3>1
      <4>2. PICK j \in 1 .. i - 1 : t[k] = s[j]
        BY DEF Deduped
      <4> QED
        BY <1>2, <2>3, <3>1, <4>1, <4>2
    <3>2. CASE p = Len(u) + 1
      BY <1>2, <2>3, <3>2 DEF n
    <3> QED
      BY <2>3, <3>1, <3>2
  <2>7. ASSUME NEW j \in 1 .. i PROVE \E p \in DOMAIN v : NetContains(v[p], s[j])
    <3>1. CASE j \in 1 .. i - 1
      <4>1. PICK k \in DOMAIN t : NetContains(t[k], s[j])
        BY <3>1 DEF Deduped
      <4>2. CASE NetContains(n, t[k])
        <5>1. t[k] \in Nets /\ s[j] \in Nets /\ n \in Nets
          BY <1>0 DEF n
        <5>2. NetContains(n, s[j])
          BY <4>1, <4>2, <5>1, ContainsOrder
        <5> QED
          BY <2>3, <5>2
      <4>3. CASE \E p \in DOMAIN u : u[p] = t[k]
        BY <2>3, <4>1, <4>3
      <4> QED
        BY <2>5, <4>2, <4>3
    <3>2. CASE j = i
      <4>1. NetContains(n, n)
        BY <1>0, ContainsOrder DEF n
      <4> QED
        BY <2>3, <3>2, <4>1 DEF n
    <3> QED
      BY <1>1, <3>1, <3>2
  <2>8. ASSUME NEW p \in DOMAIN v, NEW q \in DOMAIN v, p # q
        PROVE  ~NetContains(v[p], v[q])
    <3>1. CASE p \in DOMAIN u /\ q \in DOMAIN u
      <4>1. p < q \/ q < p
        BY <2>3, <2>8, <3>1
      <4>2. PICK j, k \in DOMAIN t : j # k /\ u[p] = t[j] /\ u[q] = t[k]
        <5>1. \A j, k \in DOMAIN t : j < k => j # k
          BY <1>0
        <5>2. CASE p < q
          BY <2>2, <3>1, <5>1, <5>2
        <5>3. CASE q < p
          BY <2>2, <3>1, <5>1, <5>3
        <5> QED
          BY <4>1, <5>2, <5>3
      <4>3. ~NetContains(t[j], t[k])
        BY <4>2 DEF Deduped
      <4> QED
        BY <2>3, <3>1, <4>2, <4>3
    <3>2. CASE p \in DOMAIN u /\ q = Len(u) + 1
      BY <1>4, <2>3, <2>4, <3>2 DEF n
    <3>3. CASE p = Len(u) + 1 /\ q \in DOMAIN u
      BY <2>3, <2>4, <3>3
    <3> QED
      BY <2>3, <2>8, <3>1, <3>2, <3>3
  <2>9. Deduped(v, s, i)
    BY <2>3, <2>6, <2>7, <2>8, Zenon DEF Deduped
  <2> QED
    BY <2>1, <2>9 DEF n
<1> QED
  BY <1>3, <1>4

(* The networks that are kept hold all that were asked for, and no two of  *)
(* them have an address in common.                                         *)
LEMMA DedupIs ==
    ASSUME NEW s \in Seq(Nets)
    PROVE  Deduped(DedupNets(s), s, Len(s))
<1>1. PICK f : /\ f[0] = <<>>
               /\ \A i \in 1 .. Len(s) : f[i] = DedupStep(f[i - 1], s[i])
               /\ DedupNets(s) = f[Len(s)]
  BY DedupLoop
<1>2. Len(s) \in Nat
  OBVIOUS
<1> DEFINE P == {i \in Nat : i <= Len(s) => Deduped(f[i], s, i)}
<1>3. 0 \in P
  <2>1. Deduped(<<>>, s, 0)
    BY DEF Deduped
  <2> QED
    BY <1>1, <2>1
<1>4. ASSUME NEW i \in P PROVE i + 1 \in P
  <2> DEFINE k == i + 1
  <2> SUFFICES ASSUME k <= Len(s) PROVE Deduped(f[k], s, k)
    OBVIOUS
  <2>1. k \in 1 .. Len(s) /\ k - 1 = i /\ i <= Len(s)
    BY <1>2
  <2>2. Deduped(f[k - 1], s, k - 1)
    <3>1. Deduped(f[i], s, i)
      BY <2>1
    <3> QED
      BY <2>1, <3>1
  <2> HIDE DEF k, P
  <2>3. Deduped(DedupStep(f[k - 1], s[k]), s, k)
    BY <2>1, <2>2, DedupMore
  <2> QED
    BY <1>1, <2>1, <2>3
<1>5. P = Nat
  <2>1. P \in SUBSET Nat
    OBVIOUS
  <2> HIDE DEF P
  <2> QED
    BY <1>3, <1>4, <2>1, Induction
<1>6. Deduped(f[Len(s)], s, Len(s))
  BY <1>2, <1>5
<1> QED
  BY <1>1, <1>6

(* What a request asks for is networks.                                    *)
LEMMA RequestedIs ==
    ASSUME NEW r \in RequestType
    PROVE  Requested(r) \in Seq(Nets) /\ r.excluded \in SUBSET Nets
<1>1. /\ r.scope \in Scopes /\ r.expected \in Seq(Nets) /\ r.extra \in Seq(Nets)
      /\ r.excluded \in SUBSET Nets /\ r.identities \in Seq(Addresses)
  BY DEF RequestType
<1>2. ClassA \in Nets /\ ClassB \in Nets /\ ClassC \in Nets /\ FactoryDefaults \in Seq(Nets)
  BY TargetsAssumption
<1> DEFINE heard == [i \in DOMAIN r.identities |-> Trunc(r.identities[i], BlockLen)]
<1>3. heard \in Seq(Nets)
  <2>1. \A i \in DOMAIN r.identities : Trunc(r.identities[i], BlockLen) \in Nets
    BY <1>1, BlockLenIs, TruncIs
  <2>2. DOMAIN r.identities = 1 .. Len(r.identities) /\ Len(r.identities) \in Nat
    BY <1>1
  <2> QED
    BY <2>1, <2>2
<1> HIDE DEF heard
<1>4. ScopeNets(r) \in Seq(Nets)
  <2>1. CASE r.scope = "None"
    BY <2>1 DEF ScopeNets
  <2>2. CASE r.scope = "Auto"
    <3>1. ScopeNets(r) = r.expected \o heard \o FactoryDefaults
      BY <2>2 DEF ScopeNets, heard
    <3> QED
      BY <1>1, <1>2, <1>3, <3>1
  <2>3. CASE r.scope = "Private16"
    BY <1>2, <2>3 DEF ScopeNets
  <2>4. CASE r.scope = "Rfc1918"
    BY <1>2, <2>4 DEF ScopeNets
  <2> QED
    BY <1>1, <2>1, <2>2, <2>3, <2>4 DEF Scopes
<1> QED
  BY <1>1, <1>4 DEF Requested

(* The networks swept were asked for, are not ignored and have no address  *)
(* in common; a network that was asked for and is not ignored is in one.   *)
LEMMA TargetsAre ==
    ASSUME NEW r \in RequestType
    PROVE  /\ BuildTargets(r) \in Seq(Nets)
           /\ \A i \in DOMAIN BuildTargets(r) :
                 /\ BuildTargets(r)[i] \in Range(Requested(r))
                 /\ ~Covered(BuildTargets(r)[i], r.excluded)
           /\ \A i, j \in DOMAIN BuildTargets(r) : i # j =>
                 NetAddrs(BuildTargets(r)[i]) \cap NetAddrs(BuildTargets(r)[j]) = {}
           /\ \A n \in Range(Requested(r)) : ~Covered(n, r.excluded) /\ ~IsApipaNet(n) =>
                 \E i \in DOMAIN BuildTargets(r) : NetContains(BuildTargets(r)[i], n)
<1> DEFINE q == Requested(r)
           S == {n \in Nets : ~Covered(n, r.excluded) /\ ~IsApipaNet(n)}
           s == Only(q, S)
           t == DedupNets(s)
<1>1. q \in Seq(Nets)
  BY RequestedIs
<1>2. s \in Seq(Nets) /\ Range(s) = Range(q) \cap S
  <2> HIDE DEF q, S
  <2> QED
    BY <1>1, OnlyIs
<1>3. BuildTargets(r) = t
  BY DEF BuildTargets, Retained
<1> HIDE DEF s
<1>4. Deduped(t, s, Len(s)) /\ DOMAIN s = 1 .. Len(s)
  BY <1>2, DedupIs
<1> HIDE DEF t
<1>5. t \in Seq(Nets) /\ \A i \in DOMAIN t : t[i] \in Nets
  BY <1>4 DEF Deduped
<1>6. \A i \in DOMAIN t : t[i] \in Range(q) /\ t[i] \in S
  <2>1. \A i \in DOMAIN t : t[i] \in Range(s)
    BY <1>4 DEF Deduped, Range
  <2> QED
    BY <1>2, <2>1
<1>7. ASSUME NEW i \in DOMAIN t, NEW j \in DOMAIN t, i # j
      PROVE  NetAddrs(t[i]) \cap NetAddrs(t[j]) = {}
  <2>1. ~NetContains(t[i], t[j]) /\ ~NetContains(t[j], t[i])
    BY <1>4, <1>7 DEF Deduped
  <2> QED
    BY <1>5, <2>1, ContainsIs
<1>8. ASSUME NEW n \in Range(q), ~Covered(n, r.excluded), ~IsApipaNet(n)
      PROVE  \E i \in DOMAIN t : NetContains(t[i], n)
  <2>1. n \in Nets
    BY <1>1 DEF Range
  <2>2. n \in Range(s)
    BY <1>2, <1>8, <2>1
  <2>3. PICK j \in DOMAIN s : n = s[j]
    BY <2>2 DEF Range
  <2> QED
    BY <1>4, <2>3 DEF Deduped
<1> QED
  BY <1>3, <1>5, <1>6, <1>7, <1>8
=============================================================================
