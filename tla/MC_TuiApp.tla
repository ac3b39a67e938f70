----------------------------- MODULE MC_TuiApp ------------------------------
(* A small instance of TuiApp: a form that is in order and asks for some   *)
(* passive listening first, and one without, with a range that does not    *)
(* parse.  No range has a block: the driver listens, pings, and the ping   *)
(* may fail.                                                               *)
EXTENDS TuiApp, TLC

CONSTANTS arp, seen

MCFrames == {arp}
MCEvents == {seen}
MCParse  == arp :> <<seen>>

Config(passive) == [passive |-> passive, passive_only |-> FALSE, ipv6 |-> TRUE,
                    paced |-> TRUE, passes |-> 1]

MCConfigs == {Config(TRUE), Config(FALSE)}

MCForms == {[config |-> Config(TRUE), ranges_ok |-> TRUE, spa_ok |-> TRUE],
            [config |-> Config(FALSE), ranges_ok |-> FALSE, spa_ok |-> TRUE]}
=============================================================================
