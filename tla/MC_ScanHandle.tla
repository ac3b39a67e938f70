--------------------------- MODULE MC_ScanHandle ---------------------------
(* Small instances of ScanHandle.  `two` is an IPv4 frame that carries DHCP *)
(* (two events), `own` a frame of our own (none).                           *)
EXTENDS ScanHandle, TLC

CONSTANTS two, own, lease, seen

MCFrames == {two, own}
MCEvents == {lease, seen}
MCParse  == (two :> <<lease, seen>>) @@ (own :> <<>>)

Config(passive, passive_only, ipv6, paced, n) ==
    [passive |-> passive, passive_only |-> passive_only, ipv6 |-> ipv6,
     paced |-> paced, passes |-> n]

\* Every combination of the switches, with one and with two passes.
AllConfigs == [passive : BOOLEAN, passive_only : BOOLEAN, ipv6 : BOOLEAN,
               paced : BOOLEAN, passes : 0..2]

\* An active scan with both layers, and one that only listens.
FewConfigs == {Config(FALSE, FALSE, TRUE, TRUE, 1),
               Config(TRUE, TRUE, TRUE, TRUE, 1)}
=============================================================================
