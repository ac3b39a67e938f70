-------------------------------- MODULE Nets --------------------------------
(***************************************************************************)
(* IPv4 networks, and how the sweep splits them into blocks and addresses. *)
(* The code's 32-bit addresses and /24 blocks are the constants Width and  *)
(* BlockLen, so that a small instance has every case the real one has: a   *)
(* network larger than a block, equal to one, inside one, a pair of        *)
(* addresses (/31) and a single address (/32).                             *)
(***************************************************************************)
EXTENDS Naturals, Sequences, FiniteSets

CONSTANTS Width,     \* bits of an address (32)
          BlockLen   \* prefix length of a block (24)

ASSUME NetsAssumption ==
    /\ Width \in Nat
    /\ BlockLen \in Nat
    /\ BlockLen < Width

Addresses == 0..(2^Width - 1)

Size(len) == 2^(Width - len)

(* Ipv4Net, truncated: the base is a multiple of the size.                 *)
Nets == {n \in [base : Addresses, len : 0..Width] : n.base % Size(n.len) = 0}

Trunc(addr, len) == [base |-> addr - (addr % Size(len)), len |-> len]

NetAddrs(n)  == n.base .. (n.base + Size(n.len) - 1)
Broadcast(n) == n.base + Size(n.len) - 1

NetContains(n, m) == n.len <= m.len /\ m.base \in NetAddrs(n)

(* Fault: two networks overlap only if the second holds the first's base.  *)
OverlapsOneWay(n, m) == n.base \in NetAddrs(m)

Overlaps(n, m) == m.base \in NetAddrs(n) \/ n.base \in NetAddrs(m)

(* The addresses worth probing: all of a /31 or a /32, otherwise not the   *)
(* network's own and not its broadcast address.                            *)
ProbeAddrs(n) ==
    IF n.len >= Width - 1 THEN NetAddrs(n) ELSE NetAddrs(n) \ {n.base, Broadcast(n)}

HostCount(n) ==
    CASE n.len = Width     -> 1
      [] n.len = Width - 1 -> 2
      [] OTHER             -> Size(n.len) - 2

(* Fault: the last block of a large network is forgotten.                  *)
Slash24BlocksShort(n) ==
    IF n.len >= BlockLen THEN <<n>>
    ELSE [i \in 1..(2^(BlockLen - n.len) - 1) |->
            [base |-> n.base + (i - 1) * Size(BlockLen), len |-> BlockLen]]

(* A network in aligned blocks; one that is no larger than a block, whole. *)
Slash24Blocks(n) ==
    IF n.len >= BlockLen THEN <<n>>
    ELSE [i \in 1..2^(BlockLen - n.len) |->
            [base |-> n.base + (i - 1) * Size(BlockLen), len |-> BlockLen]]

Covered(block, excluded) == \E x \in excluded : NetContains(x, block)
Touched(block, excluded) == \E x \in excluded : Overlaps(block, x)

(* Addresses of a block that survive the ignored ranges, and their number  *)
(* as the code counts it beforehand.                                       *)
Survivors(block, excluded) ==
    {a \in ProbeAddrs(block) : ~\E x \in excluded : a \in NetAddrs(x)}

BlockAddrs(block, excluded) ==
    IF Covered(block, excluded) THEN {}
    ELSE IF ~Touched(block, excluded) THEN ProbeAddrs(block)
    ELSE Survivors(block, excluded)

BlockCount(block, excluded) ==
    IF Covered(block, excluded) THEN 0
    ELSE IF ~Touched(block, excluded) THEN HostCount(block)
    ELSE Cardinality(Survivors(block, excluded))
=============================================================================
