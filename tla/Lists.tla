-------------------------------- MODULE Lists -------------------------------
(***************************************************************************)
(* Loops over a list, as functions of the number of elements done: what    *)
(* they return can be proved about for every list, which the provers offer *)
(* no means of for SelectSeq and for a fold.                               *)
(***************************************************************************)
EXTENDS Naturals, Sequences

(* Vec::retain and Iterator::filter: the elements in S, in their order.    *)
Only(s, S) ==
    LET kept[i \in 0 .. Len(s)] ==
          IF i = 0 THEN <<>>
          ELSE IF s[i] \in S THEN Append(kept[i - 1], s[i]) ELSE kept[i - 1]
    IN kept[Len(s)]

(* Iterator::sum.                                                          *)
Total(s) ==
    LET sum[i \in 0 .. Len(s)] == IF i = 0 THEN 0 ELSE sum[i - 1] + s[i]
    IN sum[Len(s)]
=============================================================================
