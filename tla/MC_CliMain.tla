---------------------------- MODULE MC_CliMain -----------------------------
(* Small instances of CliMain.                                              *)
EXTENDS CliMain, TLC

CONSTANTS two, own, lease, seen

MCFrames == {two, own}
MCEvents == {lease, seen}
MCParse  == (two :> <<lease, seen>>) @@ (own :> <<>>)

\* An active scan with both layers, and one whose --rate is 0.
MCConfigs == {[passive |-> TRUE, passive_only |-> FALSE, ipv6 |-> TRUE,
               paced |-> paced, passes |-> 1] : paced \in BOOLEAN}
=============================================================================
