----------------------------- MODULE MC_TuiForm -----------------------------
(* The addresses of MC_Sweep.  Two interfaces: one on home, one without a   *)
(* subnet.  What is typed is 192.168/16, an address at the edge of home, or *)
(* something that does not parse; the command line may name home as ignored.*)
(* Hosts may have been heard at home, in class A and B, and in APIPA.       *)
EXTENDS TuiForm

Net(base, len) == [base |-> base, len |-> len]
NamedRow(text, kind) == [text |-> text, kind |-> kind]

Home == Net(20, 3)

MCClassA   == Net(0, 2)
MCApipaNet == Net(8, 2)
MCClassC   == Net(16, 2)
MCClassB   == Net(24, 2)
MCFactory  == <<Net(16, 3)>>

MCIfaces  == <<Home, NoNet>>
MCTyped   == {MCClassC, Net(20, 5), Garbage}
MCHeard   == {<<>>, <<22>>, <<26, 21>>, <<9, 20, 1>>}
MCCliRows == {<<>>, <<NamedRow(Home, "Ignored")>>}
=============================================================================
