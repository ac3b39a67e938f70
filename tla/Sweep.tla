------------------------------- MODULE Sweep --------------------------------
(***************************************************************************)
(* The ARP sweep of one scan in full: build_targets, the flattening into   *)
(* blocks, the passes, the addresses probed and the progress counters.     *)
(* Module Driver keeps only the number of blocks of it; the last property  *)
(* shows that this module implements that part of Driver.                  *)
(***************************************************************************)
EXTENDS Targets

CONSTANTS Requests,    \* what the scan may be asked to sweep
          PassCounts   \* the values of --passes

ASSUME SweepAssumption ==
    /\ Requests \subseteq RequestType
    /\ PassCounts \subseteq Nat

VARIABLES
    req,     \* the request
    passopt, \* --passes
    pc,      \* "targets", "sweep", "block", "pass", "send", "window", "collect",
             \* "finish", "ok" or "err"
    nets,    \* the networks to sweep
    rest,    \* blocks not begun
    addrs,   \* addresses of the block being swept
    passes,  \* passes left over it
    phase,   \* ScanProgress::phase
    STOP,
    sent,    \* ScanProgress::sent
    total,   \* ScanProgress::total
    probed,  \* history: how often each address was probed
    units,   \* history: passes sent
    late     \* history: passes sent with STOP already raised

inputs  == <<req, passopt>>
counts  == <<sent, total>>
history == <<probed, units, late>>
vars == <<inputs, pc, nets, rest, addrs, passes, phase, STOP, counts, history>>

PcStates == {"targets", "sweep", "block", "pass", "send", "window", "collect",
             "finish", "ok", "err"}

TypeOK ==
    /\ req \in Requests
    /\ passopt \in PassCounts
    /\ pc \in PcStates
    /\ nets \in Seq(Nets)
    /\ rest \in Seq(Nets)
    /\ addrs \subseteq Addresses
    /\ passes \in Nat
    /\ STOP \in BOOLEAN
    /\ phase \in {"Idle", "Sweep", "Collecting", "Done"}
    /\ sent \in Nat
    /\ total \in Nat
    /\ probed \in [Addresses -> Nat]
    /\ units \in Nat
    /\ late \in Nat

Init ==
    /\ req \in Requests
    /\ passopt \in PassCounts
    /\ pc = "targets"
    /\ nets = <<>>
    /\ rest = <<>>
    /\ addrs = {}
    /\ passes = 0
    /\ STOP \in BOOLEAN
    /\ sent = 0
    /\ total = 0
    /\ phase = "Idle"
    /\ probed = [a \in Addresses |-> 0]
    /\ units = 0
    /\ late = 0

-----------------------------------------------------------------------------
AtLeastOne(n) == IF n = 0 THEN 1 ELSE n

AllBlocks(ns) == FlattenSeq([i \in DOMAIN ns |-> Slash24Blocks(ns[i])])

Counts(blocks, excluded) == [i \in DOMAIN blocks |-> BlockCount(blocks[i], excluded)]

HostsTotal(ns, excluded) == Total(Counts(AllBlocks(ns), excluded))

(* build_targets, then `if !nets.is_empty() && !STOP`.                     *)
Build ==
    /\ pc = "targets"
    /\ nets' = BuildTargets(req)
    /\ IF nets' # <<>> /\ ~STOP
       THEN pc' = "sweep" /\ phase' = "Sweep"
       ELSE pc' = "finish" /\ UNCHANGED phase
    /\ UNCHANGED <<inputs, rest, addrs, passes, STOP, counts, history>>

(* Fault: --passes 0 is not raised to 1 in the total.                      *)
EnterZeroPasses ==
    /\ pc = "sweep"
    /\ IF HostsTotal(nets, req.excluded) = 0
       THEN pc' = "window" /\ UNCHANGED <<rest, counts>>
       ELSE /\ pc' = "block"
            /\ rest' = AllBlocks(nets)
            /\ sent' = 0
            /\ total' = HostsTotal(nets, req.excluded) * passopt
    /\ UNCHANGED <<inputs, nets, addrs, passes, phase, STOP, history>>

(* Entry of arp::sweep: with nothing to probe it returns before it sets    *)
(* the counters.                                                           *)
Enter ==
    /\ pc = "sweep"
    /\ IF HostsTotal(nets, req.excluded) = 0
       THEN pc' = "window" /\ UNCHANGED <<rest, counts>>
       ELSE /\ pc' = "block"
            /\ rest' = AllBlocks(nets)
            /\ sent' = 0
            /\ total' = HostsTotal(nets, req.excluded) * AtLeastOne(passopt)
    /\ UNCHANGED <<inputs, nets, addrs, passes, phase, STOP, history>>

(* Head of the loop over blocks; a block without addresses is skipped.     *)
Block ==
    /\ pc = "block"
    /\ IF STOP \/ rest = <<>>
       THEN pc' = "window" /\ UNCHANGED <<rest, addrs, passes>>
       ELSE /\ rest' = Tail(rest)
            /\ addrs' = BlockAddrs(Head(rest), req.excluded)
            /\ IF addrs' = {}
               THEN pc' = "block" /\ UNCHANGED passes
               ELSE pc' = "pass" /\ passes' = AtLeastOne(passopt)
    /\ UNCHANGED <<inputs, nets, phase, STOP, counts, history>>

PassBlind ==
    /\ pc = "pass"
    /\ pc' = IF passes = 0 THEN "block" ELSE "send"
    /\ UNCHANGED <<inputs, nets, rest, addrs, passes, phase, STOP, counts, history>>

(* Head of the loop over the passes.                                       *)
Pass ==
    /\ pc = "pass"
    /\ pc' = IF passes = 0 THEN "block" ELSE IF STOP THEN "window" ELSE "send"
    /\ UNCHANGED <<inputs, nets, rest, addrs, passes, phase, STOP, counts, history>>

Probe(targets) ==
    /\ probed' = [a \in Addresses |-> probed[a] + (IF a \in targets THEN 1 ELSE 0)]
    /\ units' = units + 1
    /\ late' = IF STOP THEN late + 1 ELSE late

(* send_block, and `sent` afterwards.  If a send fails the groups before   *)
(* it, the lowest addresses, are on the wire and `sent` is not updated.    *)
Send ==
    /\ pc = "send"
    /\ \/ /\ Probe(addrs)
          /\ sent' = sent + Cardinality(addrs)
          /\ passes' = passes - 1
          /\ pc' = "pass"
       \/ /\ \E limit \in addrs : Probe({a \in addrs : a < limit})
          /\ pc' = "err"
          /\ UNCHANGED <<sent, passes>>
    /\ UNCHANGED <<inputs, nets, rest, addrs, phase, STOP, total>>

(* The rest of run_layers: phase Collecting, the window, phase Done.       *)
Finish ==
    /\ \/ pc = "window" /\ pc' = "collect" /\ phase' = "Collecting"
       \/ pc = "collect" /\ pc' = "finish" /\ UNCHANGED phase
       \/ pc = "finish" /\ pc' = "ok" /\ phase' = "Done"
    /\ UNCHANGED <<inputs, nets, rest, addrs, passes, STOP, counts, history>>

(* Somebody raises STOP.                                                   *)
Stop ==
    /\ STOP' = TRUE
    /\ UNCHANGED <<inputs, pc, nets, rest, addrs, passes, phase, counts, history>>

Next == Build \/ Enter \/ Block \/ Pass \/ Send \/ Finish \/ Stop

Spec == Init /\ [][Next]_vars

-----------------------------------------------------------------------------
(* Properties.                                                             *)
Probed == {a \in Addresses : probed[a] > 0}
Done   == pc = "ok"

(* src/README.md:115: an ignored range gets "not a single packet", at any  *)
(* prefix length and whatever scope, range or default asks for it again.   *)
(* No other address is probed more often than --passes says, however often *)
(* it was asked for: by a range, as an expected subnet, as the block of a  *)
(* host, as a factory default.                                             *)
Allowed(a) ==
    IF \E x \in req.excluded : a \in NetAddrs(x) THEN 0 ELSE AtLeastOne(passopt)

NoOverProbing == \A a \in Addresses : probed[a] <= Allowed(a)

(* `sent` never passes the total computed beforehand, it reaches it when   *)
(* the sweep ends by itself, and until an error it is what was sent.       *)
ProgressHonest ==
    /\ TypeOK
    /\ sent <= total
    /\ (Done /\ ~STOP) => sent = total
    /\ pc # "err" => sent = Total([i \in 1..2^Width |-> probed[i - 1]])

(* A sweep that ends by itself has probed, on every pass, every host of    *)
(* every requested network but those of ignored ranges and of APIPA, and   *)
(* those that lie at the edge of a piece of a larger request: neither      *)
(* dropping contained networks nor subtracting ignored ones loses another. *)
PieceOf(n, a) == IF n.len >= BlockLen THEN n ELSE Trunc(a, BlockLen)

Coverage ==
    (Done /\ ~STOP) =>
        \A n \in Range(Requested(req)) : ~IsApipaNet(n) =>
            \A a \in ProbeAddrs(n) :
               \/ probed[a] = AtLeastOne(passopt)
               \/ \E x \in req.excluded : a \in NetAddrs(x)
               \/ \E m \in Range(Requested(req)) :
                     NetContains(m, n) /\ a \notin ProbeAddrs(PieceOf(m, a))

(* The sweep implements Driver: the blocks Driver counts are those with at *)
(* least one address left to probe.                                        *)
Live(blocks) == {i \in DOMAIN blocks : BlockAddrs(blocks[i], req.excluded) # {}}

DriverBlocks == Cardinality(Live(IF pc = "sweep" THEN AllBlocks(nets) ELSE rest))

D == INSTANCE Driver WITH
        MaxScans  <- 1,
        Configs   <- [passive : {FALSE}, passive_only : {FALSE}, ipv6 : {FALSE},
                      paced : {TRUE}, passes : PassCounts],
        MaxBlocks <- 2^Width,
        driver <- [s \in {1} |-> pc],
        phase  <- [s \in {1} |-> phase],
        cfg    <- [s \in {1} |-> [passive |-> FALSE, passive_only |-> FALSE,
                                  ipv6 |-> FALSE, paced |-> TRUE, passes |-> passopt]],
        blocks <- [s \in {1} |-> DriverBlocks],
        passes <- [s \in {1} |-> passes],
        sent   <- [s \in {1} |-> units],
        late   <- [s \in {1} |-> late]

ImplementsDriver == [][D!DriverStep(1) \/ (D!RaiseStop /\ UNCHANGED D!driverVars)]_<<STOP, D!driverVars>>
=============================================================================
