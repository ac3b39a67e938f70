----------------------------- MODULE ScanHandle -----------------------------
(***************************************************************************)
(* The life of scans: ScanHandle::start, stop and drop around the three    *)
(* threads of modules Capture and Driver, which share one stop flag and    *)
(* one drop counter with every earlier and later scan of the process.      *)
(*                                                                         *)
(* Nothing in the type keeps a front end from starting a scan while it     *)
(* holds the handle of another.  Next is a front end that never does; that *)
(* the two real ones never do is for CliMain and TuiApp to show, which use *)
(* the operations below without that restriction.  SIGINT may raise STOP   *)
(* at any time.                                                            *)
(***************************************************************************)
EXTENDS Capture, Driver

VARIABLES
    owner,   \* "none", "starting", "held" or "dropping"
    cur      \* the number of the latest scan, 0 before the first

handleVars == <<owner, cur>>
vars == <<STOP, captureVars, driverVars, handleVars>>

Owners == {"none", "starting", "held", "dropping"}

ThreadsLive(s) == \/ rx[s] \in RxLive
                  \/ coll[s] = "run"
                  \/ driver[s] \in DriverLive

TypeOK ==
    /\ StopTypeOK
    /\ CaptureTypeOK
    /\ DriverTypeOK
    /\ owner \in Owners
    /\ cur \in 0..MaxScans

Init ==
    /\ StopInit
    /\ CaptureInit
    /\ DriverInit
    /\ owner = "none"
    /\ cur = 0

-----------------------------------------------------------------------------
(* Fault: the accumulator is not reset.                                    *)
StartResetKeepsDrops ==
    /\ owner \notin {"starting", "dropping"}
    /\ cur < MaxScans
    /\ owner' = "starting"
    /\ cur' = cur + 1
    /\ STOP' = FALSE
    /\ UNCHANGED <<captureVars, driverVars>>

(* start, its first two lines: the flag and the counter are reset.  The    *)
(* caller is not inside another `start` or a drop, which block it; whether *)
(* it holds a handle `start` does not ask.                                 *)
StartReset ==
    /\ owner \notin {"starting", "dropping"}
    /\ cur < MaxScans
    /\ owner' = "starting"
    /\ cur' = cur + 1
    /\ STOP' = FALSE
    /\ KERNEL_DROPS' = 0
    /\ UNCHANGED <<rx, coll, queue, drops, chan, inv, captured, lost,
                   arrived, driverVars>>

(* The packet socket is bound: from here on the kernel queues frames.      *)
StartOpen ==
    /\ owner = "starting"
    /\ rx[cur] = "off"
    /\ rx' = [rx EXCEPT ![cur] = "open"]
    /\ UNCHANGED <<STOP, coll, queue, drops, chan, inv, KERNEL_DROPS,
                   captured, lost, arrived, driverVars, handleVars>>

(* `start` returns an error: the interface, the sender address, the        *)
(* channel or the socket before the socket is bound, the lease file after. *)
(* No thread exists yet; a bound socket is closed with its queue.          *)
StartFail ==
    /\ owner = "starting"
    /\ owner' = "none"
    /\ rx' = [rx EXCEPT ![cur] = IF @ = "open" THEN "done" ELSE @]
    /\ queue' = [queue EXCEPT ![cur] = <<>>]
    /\ UNCHANGED <<STOP, coll, drops, chan, inv, KERNEL_DROPS, captured,
                   lost, arrived, driverVars, cur>>

(* rx thread, collector and driver are spawned with configuration c.       *)
StartSpawn(c) ==
    /\ owner = "starting"
    /\ rx[cur] = "open"
    /\ owner' = "held"
    /\ rx' = [rx EXCEPT ![cur] = "check"]
    /\ coll' = [coll EXCEPT ![cur] = "run"]
    /\ driver' = [driver EXCEPT ![cur] = "start"]
    /\ cfg' = [cfg EXCEPT ![cur] = c]
    /\ UNCHANGED <<STOP, queue, drops, chan, inv, KERNEL_DROPS, captured,
                   lost, arrived, phase, blocks, passes, sent, late, cur>>

(* ScanHandle::stop: the handle stays, with what was found.                *)
Stop ==
    /\ owner = "held"
    /\ RaiseStop
    /\ UNCHANGED <<captureVars, driverVars, handleVars>>

(* on_sigint.                                                              *)
Signal ==
    /\ RaiseStop
    /\ UNCHANGED <<captureVars, driverVars, handleVars>>

(* Faults: drop waits for the threads without telling them to end; it does *)
(* not wait for the driver; it does not wait for the collector.            *)
DropSilent ==
    /\ owner = "held"
    /\ owner' = "dropping"
    /\ UNCHANGED <<STOP, captureVars, driverVars, cur>>

DropJoinedButDriver ==
    /\ owner = "dropping"
    /\ rx[cur] = "done"
    /\ coll[cur] = "done"
    /\ owner' = "none"
    /\ UNCHANGED <<STOP, captureVars, driverVars, cur>>

DropJoinedButCollector ==
    /\ owner = "dropping"
    /\ driver[cur] \in DriverEnded
    /\ rx[cur] = "done"
    /\ owner' = "none"
    /\ UNCHANGED <<STOP, captureVars, driverVars, cur>>

(* Drop: the flag is raised, then the three threads are joined.            *)
DropSignal ==
    /\ owner = "held"
    /\ RaiseStop
    /\ owner' = "dropping"
    /\ UNCHANGED <<captureVars, driverVars, cur>>

DropJoined ==
    /\ owner = "dropping"
    /\ driver[cur] \in DriverEnded
    /\ rx[cur] = "done"
    /\ coll[cur] = "done"
    /\ owner' = "none"
    /\ UNCHANGED <<STOP, captureVars, driverVars, cur>>

-----------------------------------------------------------------------------
(* A front end that holds no handle starts a scan.                         *)
Begin == owner = "none" /\ StartReset

StartStep == StartOpen \/ StartFail \/ \E c \in Configs : StartSpawn(c)

(* Steps the threads and the kernel take on their own.                     *)
ThreadNext ==
    \E s \in Scans :
        \/ \E f \in Frames : Arrive(s, f) /\ UNCHANGED <<driverVars, handleVars>>
        \/ RxStep(s) /\ UNCHANGED <<driverVars, handleVars>>
        \/ CollectorStep(s) /\ UNCHANGED <<driverVars, handleVars>>
        \/ DriverStep(s) /\ UNCHANGED <<captureVars, handleVars>>

Next ==
    \/ Begin \/ StartStep
    \/ Stop \/ Signal \/ DropSignal \/ DropJoined
    \/ ThreadNext

(* Every spawned thread is scheduled, `start` and the joins of `drop` go   *)
(* on as soon as they can.  Nobody is obliged to start, stop or drop a     *)
(* scan, to press Ctrl-C or to put a frame on the wire.                    *)
ThreadFairness ==
    \A s \in Scans :
        /\ WF_vars(RxStep(s) /\ UNCHANGED <<driverVars, handleVars>>)
        /\ WF_vars(CollectorStep(s) /\ UNCHANGED <<driverVars, handleVars>>)
        /\ WF_vars(DriverStep(s) /\ UNCHANGED <<captureVars, handleVars>>)

Fairness == ThreadFairness /\ WF_vars(StartStep) /\ WF_vars(DropJoined)

SafetySpec == Init /\ [][Next]_vars
Spec == SafetySpec /\ Fairness

-----------------------------------------------------------------------------
(* Properties.                                                             *)

(* Threads exist only for the scan whose handle is held or being dropped.  *)
(* `start` clears the flag every thread polls, so a thread of an earlier   *)
(* scan that were still alive would lose its only order to end; that none  *)
(* is rests on drop joining all three before it returns.                   *)
NoZombie ==
    \A s \in Scans : ThreadsLive(s) => s = cur /\ owner \in {"held", "dropping"}

(* While any thread is alive a raised STOP stays raised: every thread that *)
(* polls it, however late, sees it.                                        *)
StopSticky ==
    [][(STOP /\ \E s \in Scans : ThreadsLive(s)) => STOP']_vars

(* No event is lost, duplicated or reordered between the dissection of a   *)
(* frame and the inventory, and the collector does not end before the last *)
(* event was applied.                                                      *)
StreamConserved ==
    \A s \in Scans :
        /\ captured[s] = inv[s] \o chan[s]
        /\ coll[s] = "done" => rx[s] = "done" /\ chan[s] = <<>>

(* Once STOP is raised the driver sends at most the one unit it had        *)
(* already decided to send: one train of pings or one pass over a block.   *)
AtMostOneLateUnit == \A s \in Scans : late[s] <= 1

(* --passive-only is documented as "send nothing at all": whatever else    *)
(* the configuration says, such a scan puts nothing on the wire.           *)
SilentWhenPassive == \A s \in Scans : cfg[s].passive_only => sent[s] = 0

(* The frames the kernel dropped on the current scan are those already in  *)
(* KERNEL_DROPS and those still in the kernel's counter: none is counted   *)
(* twice, none is charged to another scan, although the counter is one     *)
(* static for the whole process.                                           *)
DropsAccounted ==
    owner \in {"held", "dropping"} =>
        KERNEL_DROPS + drops[cur] = lost[cur]

(* Dropping a handle always returns: no thread is waited for in vain.      *)
DropReturns == owner = "dropping" ~> owner = "none"

(* The driver ends by itself, whether or not anybody raises STOP.          *)
DriverEnds == \A s \in Scans : driver[s] \in DriverLive ~> driver[s] \in DriverEnded

(* The channel, the flag and the three threads implement the abstract      *)
(* event stream: a stream is open until its collector has ended.           *)
Stream == INSTANCE EventStream WITH
              Streams <- Scans,
              Batches <- {Parse[f] : f \in Frames},
              open    <- [s \in Scans |-> coll[s] # "done"]

StreamSafety == Stream!SafetySpec
StreamSpec   == Stream!Spec
=============================================================================
