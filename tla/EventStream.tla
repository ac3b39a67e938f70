---------------------------- MODULE EventStream -----------------------------
(***************************************************************************)
(* What the receiving half of each scan promises, whatever threads,        *)
(* channels and flags it is made of: the inventory is a prefix of the      *)
(* events captured, it grows one event at a time in the order of capture,  *)
(* it catches up, and it is closed only when nothing is missing.           *)
(***************************************************************************)
EXTENDS Naturals, Sequences

CONSTANTS Streams,   \* the scans
          Batches    \* the sequences of events one frame may produce

VARIABLES captured, inv, open

vars == <<captured, inv, open>>

Init ==
    /\ captured = [s \in Streams |-> <<>>]
    /\ inv = [s \in Streams |-> <<>>]
    /\ open = [s \in Streams |-> TRUE]

Deliver(s, batch) ==
    /\ open[s]
    /\ captured' = [captured EXCEPT ![s] = @ \o batch]
    /\ UNCHANGED <<inv, open>>

Fold(s) ==
    /\ open[s]
    /\ Len(inv[s]) < Len(captured[s])
    /\ inv' = [inv EXCEPT ![s] = Append(@, captured[s][Len(@) + 1])]
    /\ UNCHANGED <<captured, open>>

Close(s) ==
    /\ open[s]
    /\ inv[s] = captured[s]
    /\ open' = [open EXCEPT ![s] = FALSE]
    /\ UNCHANGED <<captured, inv>>

Next == \E s \in Streams : \/ \E batch \in Batches : Deliver(s, batch)
                           \/ Fold(s)
                           \/ Close(s)

SafetySpec == Init /\ [][Next]_vars
Spec == SafetySpec /\ \A s \in Streams : WF_vars(Fold(s))
=============================================================================
