------------------------------ MODULE CliMain -------------------------------
(***************************************************************************)
(* The command line front end, main::run, from install_sigint on: one or   *)
(* more cycles of start, join_driver, findings, drop and report.  It is a  *)
(* client of ScanHandle; SIGINT is ScanHandle!Signal, remembered here in   *)
(* the history variable `interrupted`.                                     *)
(*                                                                         *)
(* An error of `start` or of `join_driver` leaves `run` through `?`: no    *)
(* report is printed, and a handle that exists is dropped on the way out.  *)
(* A driver that panicked counts as one that succeeded.                    *)
(***************************************************************************)
EXTENDS ScanHandle

VARIABLES
    main,         \* where `run` is
    watch,        \* the --watch option
    interrupted,  \* history: SIGINT was delivered
    reported,     \* history: the findings last taken were printed
    lostThen,     \* history: frames lost when the findings were taken
    warned        \* the number report_drops read

cliVars == <<main, watch, interrupted, reported, lostThen, warned>>
allVars == <<vars, cliVars>>

MainStates == {"ready", "start", "join", "findings", "drop", "unwind",
               "report", "gap", "exit"}

CliTypeOK ==
    /\ TypeOK
    /\ main \in MainStates
    /\ watch \in BOOLEAN
    /\ interrupted \in BOOLEAN
    /\ reported \in BOOLEAN
    /\ lostThen \in Nat
    /\ warned \in Nat

CliInit ==
    /\ Init
    /\ main = "ready"
    /\ watch \in BOOLEAN
    /\ interrupted = FALSE
    /\ reported = FALSE
    /\ lostThen = 0
    /\ warned = 0

MainGoto(state) ==
    /\ main' = state
    /\ UNCHANGED <<watch, interrupted, reported, lostThen, warned>>

-----------------------------------------------------------------------------
(* Top of the loop.  Before the first cycle STOP is not looked at; in the  *)
(* gap between two cycles it is, and start comes in a later step.          *)
MainBegin ==
    /\ main \in {"ready", "gap"}
    /\ IF main = "gap"
       THEN MainGoto(IF STOP THEN "exit" ELSE "ready") /\ UNCHANGED vars
       ELSE MainGoto("start") /\ StartReset

(* ScanHandle::start(cfg)?                                                 *)
MainStart ==
    /\ main = "start"
    /\ \/ StartOpen /\ MainGoto("start")
       \/ StartFail /\ MainGoto("exit")
       \/ \E c \in Configs : StartSpawn(c) /\ MainGoto("join")

(* Fault: an error of the driver ends the process on the spot.             *)
MainJoinExits ==
    /\ main = "join"
    /\ driver[cur] \in DriverEnded
    /\ MainGoto(IF driver[cur] = "err" THEN "exit" ELSE "findings")
    /\ UNCHANGED vars

(* handle.join_driver()?                                                   *)
MainJoin ==
    /\ main = "join"
    /\ driver[cur] \in DriverEnded
    /\ MainGoto(IF driver[cur] = "err" THEN "unwind" ELSE "findings")
    /\ UNCHANGED vars

(* handle.findings(..): a snapshot of the inventory, capture still alive.  *)
MainFindings ==
    /\ main = "findings"
    /\ main' = "drop"
    /\ lostThen' = lost[cur]
    /\ reported' = FALSE
    /\ UNCHANGED <<watch, interrupted, warned, vars>>

(* drop(handle), by hand or on the way out of an error.                    *)
MainDrop ==
    /\ main \in {"drop", "unwind"}
    /\ \/ DropSignal /\ MainGoto(main)
       \/ DropJoined /\ MainGoto(IF main = "unwind" THEN "exit" ELSE "report")

(* The report, report_drops, and the test at the bottom of the loop.       *)
MainReport ==
    /\ main = "report"
    /\ reported' = TRUE
    /\ warned' = KERNEL_DROPS
    /\ main' = IF ~watch \/ STOP THEN "exit" ELSE "gap"
    /\ UNCHANGED <<watch, interrupted, lostThen, vars>>

(* Ctrl-C.                                                                 *)
Interrupt ==
    /\ main # "exit"
    /\ Signal
    /\ interrupted' = TRUE
    /\ UNCHANGED <<main, watch, reported, lostThen, warned>>

MainStep == \/ MainBegin \/ MainStart \/ MainJoin
            \/ MainFindings \/ MainDrop \/ MainReport

CliNext == \/ MainStep
           \/ Interrupt
           \/ ThreadNext /\ UNCHANGED cliVars

CliSafetySpec == CliInit /\ [][CliNext]_allVars

(* The main thread is scheduled like the others; Ctrl-C need never come.   *)
CliSpec ==
    /\ CliSafetySpec
    /\ WF_allVars(MainStep)
    /\ \A s \in Scans :
        /\ WF_allVars(RxStep(s) /\ UNCHANGED <<driverVars, handleVars, cliVars>>)
        /\ WF_allVars(CollectorStep(s) /\ UNCHANGED <<driverVars, handleVars, cliVars>>)
        /\ WF_allVars(DriverStep(s) /\ UNCHANGED <<captureVars, handleVars, cliVars>>)

-----------------------------------------------------------------------------
(* Properties.                                                             *)

(* The warning of report_drops covers every frame the kernel had dropped   *)
(* when the findings were taken: a table that may be incomplete is never   *)
(* printed without it.  (After Ctrl-C the rx thread may have read its last *)
(* counters before the findings are taken; a frame the kernel drops in the *)
(* instant before the socket is closed is then in no warning.)             *)
WarningCoversReport == (reported /\ ~interrupted) => warned >= lostThen

(* However `run` ends, it leaves no thread behind and no handle undropped. *)
ExitLeavesNothing ==
    main = "exit" => owner = "none" /\ \A s \in Scans : ~ThreadsLive(s)

(* A single pass ends by itself, and Ctrl-C ends --watch.                  *)
CliTerminates == (~watch \/ interrupted) ~> main = "exit"

(* src/src/cli.rs:71: --watch "repeats the cycles".  So a watch that has   *)
(* printed a report ends only when it was interrupted.                     *)
WatchRepeats == (watch /\ reported /\ main = "exit") => interrupted
=============================================================================
