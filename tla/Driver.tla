------------------------------- MODULE Driver -------------------------------
(***************************************************************************)
(* The driver thread of a scan: scan::run_layers, with the loop structure  *)
(* of arp::sweep inside it.  What it sends is counted in transmission      *)
(* units: one unit is the train of ICMPv6 echo requests of layer 2, or one *)
(* pass over one /24 block of the ARP sweep.  Between two units, and only  *)
(* there, the driver looks at STOP.                                        *)
(*                                                                         *)
(* A sleep is a state the driver may leave at any time: its deadline may   *)
(* have come or it may have seen STOP.  Which networks are swept is the    *)
(* subject of module Targets; here only the number of blocks with at least *)
(* one address to probe matters.                                           *)
(***************************************************************************)
EXTENDS StopFlag

(* The part of ScanConfig the control flow depends on.  `passive` stands   *)
(* for passive_secs > 0, `ipv6` for "not --no-ipv6 and the interface has a *)
(* link-local address", `paced` for --rate > 0.                            *)
ConfigType == [passive : BOOLEAN, passive_only : BOOLEAN, ipv6 : BOOLEAN,
               paced : BOOLEAN, passes : Nat]

CONSTANTS Configs,    \* the configurations a scan may be started with
          MaxBlocks   \* bound: /24 blocks a sweep may have

ASSUME DriverAssumption ==
    /\ Configs \subseteq ConfigType
    /\ MaxBlocks \in Nat

VARIABLES
    driver,   \* where the driver thread of each scan is
    phase,    \* ScanProgress::phase of each scan
    cfg,      \* the configuration each scan was started with
    blocks,   \* blocks the sweep has not finished
    passes,   \* passes left over the current block
    sent,     \* history: transmission units sent
    late      \* history: transmission units sent with STOP already raised

driverVars == <<driver, phase, cfg, blocks, passes, sent, late>>

(* Placeholder for a scan that has not been spawned.                       *)
NoConfig == [passive |-> FALSE, passive_only |-> TRUE, ipv6 |-> FALSE,
             paced |-> FALSE, passes |-> 0]

Phases == {"Idle", "Passive", "Ipv6", "Sweep", "Collecting", "Done"}

DriverLive   == {"start", "listen", "gate", "ping", "pause", "targets",
                 "sweep", "block", "pass", "send", "window", "collect",
                 "finish"}
DriverEnded  == {"ok", "err", "panic"}
DriverStates == DriverLive \cup DriverEnded \cup {"off"}

DriverTypeOK ==
    /\ driver \in [Scans -> DriverStates]
    /\ phase \in [Scans -> Phases]
    /\ cfg \in [Scans -> ConfigType]
    /\ blocks \in [Scans -> 0..MaxBlocks]
    /\ passes \in [Scans -> Nat]
    /\ sent \in [Scans -> Nat]
    /\ late \in [Scans -> Nat]

DriverInit ==
    /\ driver = [s \in Scans |-> "off"]
    /\ phase = [s \in Scans |-> "Idle"]
    /\ cfg = [s \in Scans |-> NoConfig]
    /\ blocks = [s \in Scans |-> 0]
    /\ passes = [s \in Scans |-> 0]
    /\ sent = [s \in Scans |-> 0]
    /\ late = [s \in Scans |-> 0]

-----------------------------------------------------------------------------
Goto(s, state)     == driver' = [driver EXCEPT ![s] = state]
SetPhase(s, p)     == phase' = [phase EXCEPT ![s] = p]
SweepUnchanged     == UNCHANGED <<blocks, passes, sent, late>>

(* One unit goes out on the wire; `late` remembers that STOP was up.       *)
Transmit(s) ==
    /\ sent' = [sent EXCEPT ![s] = @ + 1]
    /\ late' = [late EXCEPT ![s] = IF STOP THEN @ + 1 ELSE @]

(* Layer 1: passive listening, when passive_secs > 0.                      *)
DriverPassive(s) ==
    /\ driver[s] = "start"
    /\ IF cfg[s].passive
       THEN Goto(s, "listen") /\ SetPhase(s, "Passive")
       ELSE Goto(s, "gate") /\ UNCHANGED phase
    /\ SweepUnchanged /\ UNCHANGED <<STOP, cfg>>

(* sleep_interruptible returns: its deadline came or STOP was seen.        *)
DriverWake(s) ==
    /\ \/ driver[s] = "listen" /\ Goto(s, "gate")
       \/ driver[s] = "pause" /\ Goto(s, "targets")
       \/ driver[s] = "collect" /\ Goto(s, "finish")
    /\ SweepUnchanged /\ UNCHANGED <<STOP, cfg, phase>>

(* `if !cfg.passive_only && !STOP`, and then layer 2 if IPv6 is usable.    *)
DriverGate(s) ==
    /\ driver[s] = "gate"
    /\ IF cfg[s].passive_only \/ STOP
       THEN Goto(s, "finish") /\ UNCHANGED phase
       ELSE IF cfg[s].ipv6
            THEN Goto(s, "ping") /\ SetPhase(s, "Ipv6")
            ELSE Goto(s, "targets") /\ UNCHANGED phase
    /\ SweepUnchanged /\ UNCHANGED <<STOP, cfg>>

(* ndp::ping_all_nodes: three echo requests, no look at STOP in between;   *)
(* a send that fails ends run_layers with an error.                        *)
DriverPing(s) ==
    /\ driver[s] = "ping"
    /\ Transmit(s)
    /\ Goto(s, "pause") \/ Goto(s, "err")
    /\ UNCHANGED <<STOP, cfg, phase, blocks, passes>>

(* build_targets under the inventory's lock, then `if !nets.is_empty() &&  *)
(* !STOP`.  n is the number of blocks that have an address to probe: it    *)
(* may be 0 although there are networks, when all of them are excluded.    *)
DriverTargets(s) ==
    /\ driver[s] = "targets"
    /\ \/ /\ Goto(s, "finish")
          /\ UNCHANGED <<phase, blocks>>
       \/ /\ ~STOP
          /\ \E n \in 0..MaxBlocks : blocks' = [blocks EXCEPT ![s] = n]
          /\ Goto(s, "sweep") /\ SetPhase(s, "Sweep")
    /\ UNCHANGED <<STOP, cfg, passes, sent, late>>

(* Entry of arp::sweep.  Nothing to probe: it returns at once.  A rate of  *)
(* 0 makes the burst window infinite and the conversion panics.            *)
DriverSweep(s) ==
    /\ driver[s] = "sweep"
    /\ Goto(s, IF blocks[s] = 0 THEN "window"
               ELSE IF cfg[s].paced THEN "block" ELSE "panic")
    /\ SweepUnchanged /\ UNCHANGED <<STOP, cfg, phase>>

(* Fault: the loop over the blocks does not see its end.                   *)
DriverBlockUnbounded(s) ==
    /\ driver[s] = "block"
    /\ IF STOP
       THEN Goto(s, "window") /\ UNCHANGED <<blocks, passes>>
       ELSE /\ Goto(s, "pass")
            /\ blocks' = [blocks EXCEPT ![s] = @ - 1]
            /\ passes' = [passes EXCEPT
                            ![s] = IF cfg[s].passes = 0 THEN 1 ELSE cfg[s].passes]
    /\ UNCHANGED <<STOP, cfg, phase, sent, late>>

(* Head of the loop over the blocks.                                       *)
DriverBlock(s) ==
    /\ driver[s] = "block"
    /\ IF STOP \/ blocks[s] = 0
       THEN Goto(s, "window") /\ UNCHANGED <<blocks, passes>>
       ELSE /\ Goto(s, "pass")
            /\ blocks' = [blocks EXCEPT ![s] = @ - 1]
            /\ passes' = [passes EXCEPT
                            ![s] = IF cfg[s].passes = 0 THEN 1 ELSE cfg[s].passes]
    /\ UNCHANGED <<STOP, cfg, phase, sent, late>>

(* Faults: STOP is only looked at between two blocks; a block that had all *)
(* its passes is waited on until somebody raises STOP.                     *)
DriverPassBlind(s) ==
    /\ driver[s] = "pass"
    /\ Goto(s, IF passes[s] = 0 THEN "block" ELSE "send")
    /\ SweepUnchanged /\ UNCHANGED <<STOP, cfg, phase>>

DriverPassStuck(s) ==
    /\ driver[s] = "pass"
    /\ Goto(s, IF STOP THEN "window" ELSE IF passes[s] = 0 THEN "pass" ELSE "send")
    /\ SweepUnchanged /\ UNCHANGED <<STOP, cfg, phase>>

(* Head of the loop over the passes of one block.                          *)
DriverPass(s) ==
    /\ driver[s] = "pass"
    /\ IF passes[s] = 0
       THEN Goto(s, "block")
       ELSE Goto(s, IF STOP THEN "window" ELSE "send")
    /\ SweepUnchanged /\ UNCHANGED <<STOP, cfg, phase>>

(* send_block: the whole pass goes out without looking at STOP; a send     *)
(* that fails ends the sweep, and with it run_layers, with an error.       *)
DriverSend(s) ==
    /\ driver[s] = "send"
    /\ Transmit(s)
    /\ \/ Goto(s, "pass") /\ passes' = [passes EXCEPT ![s] = @ - 1]
       \/ Goto(s, "err") /\ UNCHANGED passes
    /\ UNCHANGED <<STOP, cfg, phase, blocks>>

(* The sweep returned Ok: phase Collecting and the collection window.      *)
DriverWindow(s) ==
    /\ driver[s] = "window"
    /\ Goto(s, "collect") /\ SetPhase(s, "Collecting")
    /\ SweepUnchanged /\ UNCHANGED <<STOP, cfg>>

DriverFinish(s) ==
    /\ driver[s] = "finish"
    /\ Goto(s, "ok") /\ SetPhase(s, "Done")
    /\ SweepUnchanged /\ UNCHANGED <<STOP, cfg>>

DriverStep(s) ==
    \/ DriverPassive(s) \/ DriverWake(s) \/ DriverGate(s) \/ DriverPing(s)
    \/ DriverTargets(s) \/ DriverSweep(s) \/ DriverBlock(s) \/ DriverPass(s)
    \/ DriverSend(s) \/ DriverWindow(s) \/ DriverFinish(s)
=============================================================================
