------------------------------- MODULE TuiApp -------------------------------
(***************************************************************************)
(* The interactive front end: the event loop of tui/mod.rs and the methods *)
(* of tui::app::App that start, stop, replace and read scans.  One thread  *)
(* does all of it, so while it waits for a join nothing is drawn and no    *)
(* key is read.  It is the second client of ScanHandle; it installs no     *)
(* SIGINT handler.                                                         *)
(*                                                                         *)
(* Left out because keys that change nothing else take them to any value   *)
(* at any time: the pane and the row that have the focus, the filter, the  *)
(* text being edited, and the help screen and filter line, which swallow   *)
(* keys until they close.  The table is represented by where it was        *)
(* computed from: a scan, and how many of its events.                      *)
(***************************************************************************)
EXTENDS ScanHandle

(* What the form holds: the configuration it stands for, whether every     *)
(* range parses and whether the sender mode does.                          *)
FormType == [config : Configs, ranges_ok : BOOLEAN, spa_ok : BOOLEAN]

\* build_config_single: one range, no scope, no passive listening.
Single(c) == [c EXCEPT !.passive = FALSE]

CONSTANT Forms    \* the contents the form may have

ASSUME TuiAssumption ==
    /\ Forms \subseteq FormType
    /\ \A f \in Forms : ~f.config.passive_only /\ Single(f.config) \in Configs

VARIABLES
    ui,       \* "loop", "drop", "start", "quit", "leave" or "exit"
    mode,     \* what a key means: "keys", "editing" or "perm"
    form,     \* the form
    request,  \* the configuration `launch` was given, or NoConfig for an error
    shown     \* App::findings: the scan they are of, and the events they reflect

tuiVars == <<ui, mode, form, request, shown>>
appVars == <<vars, tuiVars>>

Nothing == [scan |-> 0, seen |-> 0]

TuiTypeOK ==
    /\ TypeOK
    /\ ui \in {"loop", "drop", "start", "quit", "leave", "exit"}
    /\ mode \in {"keys", "editing", "perm"}
    /\ form \in Forms
    /\ request \in Configs \cup {NoConfig}
    /\ shown \in [scan : 0..MaxScans, seen : Nat]

TuiInit ==
    /\ Init
    /\ ui = "loop"
    /\ mode = "keys"
    /\ form \in Forms
    /\ request = NoConfig
    /\ shown = Nothing

Running == owner = "held" /\ driver[cur] \in DriverLive    \* App::is_running

(* The findings of the handle, as of now.                                  *)
Latest == [scan |-> cur, seen |-> Len(inv[cur])]

-----------------------------------------------------------------------------
(* The table is recomputed: every 250 ms, or because a network was marked  *)
(* as known while a row was selected.                                      *)
Refresh ==
    /\ ui = "loop"
    /\ owner = "held"
    /\ shown' = Latest
    /\ UNCHANGED <<vars, ui, mode, form, request>>

(* Fault: the form is not locked during a scan.                            *)
EditUnlocked ==
    /\ ui = "loop"
    /\ \/ mode = "keys" /\ mode' \in {"keys", "editing"} /\ form' \in Forms
       \/ mode = "editing" /\ mode' = "keys" /\ form' \in Forms
    /\ UNCHANGED <<vars, ui, request, shown>>

(* Keys of the form, which is locked while a scan runs: rows come, go and  *)
(* change, a field is opened for editing.  The edit is committed (or given *)
(* up) later, without another look at the lock.                            *)
Edit ==
    /\ ui = "loop"
    /\ \/ mode = "keys" /\ ~Running /\ mode' \in {"keys", "editing"} /\ form' \in Forms
       \/ mode = "editing" /\ mode' = "keys" /\ form' \in Forms
    /\ UNCHANGED <<vars, ui, request, shown>>

(* Esc while a scan runs: cancel_scan.                                     *)
Cancel ==
    /\ ui = "loop"
    /\ mode = "keys"
    /\ Running
    /\ Stop
    /\ UNCHANGED tuiVars

(* Ctrl-C at any time, q, or any key on the message about permissions.     *)
Quit ==
    /\ ui = "loop"
    /\ ui' = "quit"
    /\ UNCHANGED <<vars, mode, form, request, shown>>

(* The terminal fails: the loop is left through `?`.                       *)
TerminalFails ==
    /\ ui = "loop"
    /\ ui' = "leave"
    /\ UNCHANGED <<vars, mode, form, request, shown>>

-----------------------------------------------------------------------------
(* The configurations the form can ask for.  r or Enter: start_scan, which *)
(* does nothing while some range does not parse.  s: scan_single, an error *)
(* when the row under the cursor is empty or does not parse.  An unknown   *)
(* sender mode is an error in both.                                        *)
Asked ==
    {NoConfig} \cup
    IF ~form.spa_ok THEN {}
    ELSE {Single(form.config)} \cup (IF form.ranges_ok THEN {form.config} ELSE {})

(* Faults: the table is cleared before the start is known to succeed; the  *)
(* old handle is kept until the new one replaces it; a scan that is still  *)
(* running is dropped and replaced.                                        *)
LaunchClears ==
    /\ ui = "loop"
    /\ mode = "keys"
    /\ ~Running
    /\ cur < MaxScans
    /\ request' \in Asked
    /\ shown' = Nothing
    /\ ui' = IF owner = "held" THEN "drop" ELSE "start"
    /\ UNCHANGED <<vars, mode, form>>

LaunchKeepsOld ==
    /\ ui = "loop"
    /\ mode = "keys"
    /\ ~Running
    /\ cur < MaxScans
    /\ request' \in Asked
    /\ ui' = "start"
    /\ UNCHANGED <<vars, mode, form, shown>>

LaunchWhileRunning ==
    /\ ui = "loop"
    /\ mode = "keys"
    /\ cur < MaxScans
    /\ request' \in Asked
    /\ ui' = IF owner = "held" THEN "drop" ELSE "start"
    /\ UNCHANGED <<vars, mode, form, shown>>

(* launch: not while a scan runs; the old handle goes before anything else *)
(* is looked at.                                                           *)
Launch ==
    /\ ui = "loop"
    /\ mode = "keys"
    /\ ~Running
    /\ cur < MaxScans
    /\ request' \in Asked
    /\ ui' = IF owner = "held" THEN "drop" ELSE "start"
    /\ UNCHANGED <<vars, mode, form, shown>>

(* self.scan = None: the handle is dropped.                                *)
LaunchDrop ==
    /\ ui = "drop"
    /\ \/ DropSignal /\ UNCHANGED ui
       \/ DropJoined /\ ui' = "start"
    /\ UNCHANGED <<mode, form, request, shown>>

(* cfg.and_then(ScanHandle::start).  Only success clears the table; a      *)
(* failure leaves it, with no handle behind it any more.                   *)
LaunchStart ==
    /\ ui = "start"
    /\ \/ /\ request # NoConfig
          /\ StartReset \/ StartOpen
          /\ UNCHANGED <<ui, mode, request, shown>>
       \/ /\ \/ request = NoConfig /\ UNCHANGED <<vars, mode, shown>>
             \/ StartFail /\ mode' \in {"keys", "perm"} /\ UNCHANGED shown
             \/ StartSpawn(request) /\ shown' = Nothing /\ UNCHANGED mode
          /\ ui' = "loop"
          /\ request' = NoConfig
    /\ UNCHANGED form

-----------------------------------------------------------------------------
(* should_quit: cancel_scan, and the loop ends.                            *)
QuitCancels ==
    /\ ui = "quit"
    /\ IF owner = "held" THEN Stop ELSE UNCHANGED vars
    /\ ui' = "leave"
    /\ UNCHANGED <<mode, form, request, shown>>

(* Fault: the application is not dropped, as by std::process::exit.        *)
LeaveExits ==
    /\ ui = "leave"
    /\ ui' = "exit"
    /\ UNCHANGED <<vars, mode, form, request, shown>>

(* run_tui returns and the application is dropped, with it the handle.     *)
Leave ==
    /\ ui = "leave"
    /\ \/ DropSignal /\ UNCHANGED ui
       \/ DropJoined /\ ui' = "exit"
       \/ owner = "none" /\ ui' = "exit" /\ UNCHANGED vars
    /\ UNCHANGED <<mode, form, request, shown>>

Keys  == Edit \/ Cancel \/ Quit \/ TerminalFails \/ Launch
Works == Refresh \/ LaunchDrop \/ LaunchStart \/ QuitCancels \/ Leave

TuiNext == Keys \/ Works \/ (ThreadNext /\ UNCHANGED tuiVars)

TuiSafetySpec == TuiInit /\ [][TuiNext]_appVars

(* The UI thread and the three threads of the scan that is alive (there is *)
(* at most one, NoZombie) are scheduled; nobody has to press a key.        *)
TuiSpec ==
    /\ TuiSafetySpec
    /\ WF_appVars(Works)
    /\ WF_appVars((\E s \in Scans : RxStep(s)) /\ UNCHANGED <<driverVars, handleVars, tuiVars>>)
    /\ WF_appVars((\E s \in Scans : CollectorStep(s)) /\ UNCHANGED <<driverVars, handleVars, tuiVars>>)
    /\ WF_appVars((\E s \in Scans : DriverStep(s)) /\ UNCHANGED <<captureVars, handleVars, tuiVars>>)

-----------------------------------------------------------------------------
(* Properties.                                                             *)

(* `launch` waits for the capture thread and the collector, which are      *)
(* quick, and never for a sweep: the screen does not freeze for one.       *)
LaunchNeverWaits == ui = "drop" => driver[cur] \in DriverEnded

(* While a scan runs the form shows what it runs with: neither a key nor   *)
(* an edit begun earlier changes it behind the scan's back.                *)
FormIsRunning == Running => cfg[cur] \in {form.config, Single(form.config)}

(* src/README.md:132-133: cancelling keeps "what was already found".  What *)
(* the table shows changes only to more of the latest scan, or to nothing  *)
(* at the moment a new scan has started: not by cancelling, not by a start *)
(* that fails, and a new scan never shows what an older one found.         *)
TableGrows ==
    [][shown' # shown =>
          \/ shown' = Nothing /\ owner = "starting" /\ owner' = "held"
          \/ shown'.scan = cur /\ shown'.seen >= shown.seen
                               /\ shown.scan \in {0, cur}]_appVars

(* Whatever makes the interface end, no thread outlives it.                *)
TuiLeavesNothing ==
    ui = "exit" => owner = "none" /\ \A s \in Scans : ~ThreadsLive(s)

(* The interface always comes back to the keyboard until it has ended: no  *)
(* launch and no quit hangs.                                               *)
TuiResponds == []<>(ui \in {"loop", "exit"})
=============================================================================
