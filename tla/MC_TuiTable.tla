---------------------------- MODULE MC_TuiTable -----------------------------
(* Two devices at 192.168.1.0/24 and 10.0.0.0/24, the second with another   *)
(* address in a third network; a third device without IPv4, which is in the *)
(* lease file.  Filters: the second device, nothing.                        *)
EXTENDS TuiTable

Neighbour(m)   == [type |-> "V6", mac |-> m]
Answer(m, a)   == [type |-> "V4", mac |-> m, ip |-> a, src |-> "ArpReply"]

MCMacs     == {1, 2, 3}
MCIps      == {11, 21, 31}
MCEvents   == {Answer(1, 11), Answer(2, 21), Answer(2, 31), Neighbour(3)}
MCLeaseFile == [m \in MCMacs |-> IF m = 3 THEN 11 ELSE NoIp]
MCPrivate  == {11, 21, 31}
MCApipa    == {}
MCBaseline == {11}
MCQueries  == {{2, 21, 31}, {}}
MCNet24(ip) == {ip}
=============================================================================
