------------------------------ MODULE MC_Sweep ------------------------------
(* Six-bit addresses in blocks of eight: 10/8 is 0..15, 169.254/16 16..31,  *)
(* 192.168/16 32..47 and 172.16/12 48..63, two blocks each.                 *)
EXTENDS Sweep

Net(base, len) == [base |-> base, len |-> len]

MCClassA   == Net(0, 2)
MCApipaNet == Net(16, 2)
MCClassC   == Net(32, 2)
MCClassB   == Net(48, 2)
MCFactory  == <<Net(32, 3), Net(0, 3)>>

\* Ranges: none, one block, half a block with an address at its edge, one address
\* (APIPA) with the whole of ClassC, overlapping ranges in both orders.
Extras == { <<>>, <<Net(40, 3)>>, <<Net(36, 4), Net(36, 6)>>, <<Net(17, 6), Net(32, 2)>>,
            <<Net(42, 5), Net(40, 3)>>, <<Net(8, 3), Net(12, 4)>> }
\* Ignored: nothing, a block, one address of a block, half a block, a network
\* larger than every target.
Ignored == { {}, {Net(40, 3)}, {Net(33, 6)}, {Net(32, 4), Net(9, 6)}, {Net(32, 1)} }

MCRequests ==
    [scope : Scopes, expected : {<<>>, <<Net(40, 3)>>}, extra : Extras,
     excluded : Ignored, identities : {<<>>, <<9, 43>>}]

\* 0 counts as 1.
MCPassCounts == {0, 2}
=============================================================================
