------------------------------ MODULE Capture -------------------------------
(***************************************************************************)
(* The receiving half of a scan: the kernel's packet queue, the rx thread  *)
(* (capture::rx_loop), the mpsc channel and the collector thread that      *)
(* applies every event to the shared inventory.                            *)
(*                                                                         *)
(* A frame is a model value; Parse gives the sequence of events its        *)
(* dissection sends (none for our own or for a malformed frame, two for an *)
(* IPv4 frame that carries DHCP).  The inventory is represented by the     *)
(* sequence of events applied to it; what one application does is the      *)
(* subject of module Inventory.                                            *)
(*                                                                         *)
(* The kernel queue is external: it is bounded, and a frame that finds it  *)
(* full is counted in a counter that the kernel resets on every read.      *)
(***************************************************************************)
EXTENDS StopFlag, Sequences

CONSTANTS Frames,     \* the frames the network may deliver
          Events,     \* the events of capture::Event
          Parse,      \* Frames -> Seq(Events): what dissecting a frame sends
          QueueCap,   \* capacity of the kernel's packet queue
          MaxFrames   \* bound: frames delivered to one scan

ASSUME CaptureAssumption ==
    /\ Parse \in [Frames -> Seq(Events)]
    /\ QueueCap \in Nat \ {0}
    /\ MaxFrames \in Nat

VARIABLES
    rx,            \* where the rx thread of each scan is
    coll,          \* where the collector thread of each scan is
    queue,         \* frames waiting in the kernel
    drops,         \* kernel counter: frames dropped since the last read
    chan,          \* the mpsc channel: events sent and not yet applied
    inv,           \* the inventory: the events applied so far, in order
    KERNEL_DROPS,  \* process-wide accumulator of the counters read
    captured,      \* history: every event the rx thread sent, in order
    lost,          \* history: every frame the kernel dropped
    arrived        \* history: how many frames were delivered (bounds the run)

captureVars == <<rx, coll, queue, drops, chan, inv, KERNEL_DROPS,
                 captured, lost, arrived>>

(* off: no socket.  open: socket bound, thread not spawned.  check: at the *)
(* loop head.  recv: inside recv().  flush: left the loop, last counters   *)
(* not read.  close: counters read, socket and Sender not yet dropped.     *)
RxStates   == {"off", "open", "check", "recv", "flush", "close", "done"}
SocketOpen == {"open", "check", "recv", "flush", "close"}
RxLive     == {"check", "recv", "flush", "close"}
CollStates == {"off", "run", "done"}

CaptureTypeOK ==
    /\ rx \in [Scans -> RxStates]
    /\ coll \in [Scans -> CollStates]
    /\ queue \in [Scans -> Seq(Frames)]
    /\ drops \in [Scans -> Nat]
    /\ chan \in [Scans -> Seq(Events)]
    /\ inv \in [Scans -> Seq(Events)]
    /\ KERNEL_DROPS \in Nat
    /\ captured \in [Scans -> Seq(Events)]
    /\ lost \in [Scans -> Nat]
    /\ arrived \in [Scans -> Nat]

CaptureInit ==
    /\ rx = [s \in Scans |-> "off"]
    /\ coll = [s \in Scans |-> "off"]
    /\ queue = [s \in Scans |-> <<>>]
    /\ drops = [s \in Scans |-> 0]
    /\ chan = [s \in Scans |-> <<>>]
    /\ inv = [s \in Scans |-> <<>>]
    /\ KERNEL_DROPS = 0
    /\ captured = [s \in Scans |-> <<>>]
    /\ lost = [s \in Scans |-> 0]
    /\ arrived = [s \in Scans |-> 0]

-----------------------------------------------------------------------------
(* The network delivers frame f while the socket of scan s is bound.       *)
Enqueue(s, f) ==
    /\ Len(queue[s]) < QueueCap
    /\ queue' = [queue EXCEPT ![s] = Append(@, f)]
    /\ UNCHANGED <<drops, lost>>

Overflow(s) ==
    /\ Len(queue[s]) = QueueCap
    /\ drops' = [drops EXCEPT ![s] = @ + 1]
    /\ lost' = [lost EXCEPT ![s] = @ + 1]
    /\ UNCHANGED queue

Arrive(s, f) ==
    /\ rx[s] \in SocketOpen
    /\ arrived[s] < MaxFrames
    /\ arrived' = [arrived EXCEPT ![s] = @ + 1]
    /\ Enqueue(s, f) \/ Overflow(s)
    /\ UNCHANGED <<STOP, rx, coll, chan, inv, KERNEL_DROPS, captured>>

-----------------------------------------------------------------------------
(* rx.stats() followed by the fetch_add: the kernel resets its counter.    *)
ReadStats(s) ==
    /\ KERNEL_DROPS' = KERNEL_DROPS + drops[s]
    /\ drops' = [drops EXCEPT ![s] = 0]

(* Loop head with STOP clear.  The counters are read once every 2048       *)
(* iterations; which iterations those are is left open.                    *)
RxCheck(s) ==
    /\ rx[s] = "check"
    /\ ~STOP
    /\ rx' = [rx EXCEPT ![s] = "recv"]
    /\ ReadStats(s) \/ UNCHANGED <<KERNEL_DROPS, drops>>
    /\ UNCHANGED <<STOP, coll, queue, chan, inv, captured, lost, arrived>>

(* Fault: a bounded channel and try_send, whose error is ignored.          *)
RxRecvTrySend(s) ==
    /\ rx[s] = "recv"
    /\ queue[s] # <<>>
    /\ queue' = [queue EXCEPT ![s] = Tail(@)]
    /\ chan' = [chan EXCEPT ![s] = IF @ = <<>> THEN Parse[Head(queue[s])] ELSE @]
    /\ captured' = [captured EXCEPT ![s] = @ \o Parse[Head(queue[s])]]
    /\ rx' = [rx EXCEPT ![s] = "check"]
    /\ UNCHANGED <<STOP, coll, drops, inv, KERNEL_DROPS, lost, arrived>>

(* recv() returned the oldest frame; its events go out on the channel.     *)
RxRecv(s) ==
    /\ rx[s] = "recv"
    /\ queue[s] # <<>>
    /\ queue' = [queue EXCEPT ![s] = Tail(@)]
    /\ chan' = [chan EXCEPT ![s] = @ \o Parse[Head(queue[s])]]
    /\ captured' = [captured EXCEPT ![s] = @ \o Parse[Head(queue[s])]]
    /\ rx' = [rx EXCEPT ![s] = "check"]
    /\ UNCHANGED <<STOP, coll, drops, inv, KERNEL_DROPS, lost, arrived>>

(* recv() timed out with nothing queued (SO_RCVTIMEO, 200 ms).             *)
RxTimeout(s) ==
    /\ rx[s] = "recv"
    /\ queue[s] = <<>>
    /\ rx' = [rx EXCEPT ![s] = "check"]
    /\ UNCHANGED <<STOP, coll, queue, drops, chan, inv, KERNEL_DROPS,
                   captured, lost, arrived>>

(* Loop head with STOP raised: the loop ends.  Frames still queued in the  *)
(* kernel will never be read.                                              *)
RxLeave(s) ==
    /\ rx[s] = "check"
    /\ STOP
    /\ rx' = [rx EXCEPT ![s] = "flush"]
    /\ UNCHANGED <<STOP, coll, queue, drops, chan, inv, KERNEL_DROPS,
                   captured, lost, arrived>>

(* Fault: the counters are not read once more after the loop.              *)
RxFlushWithoutStats(s) ==
    /\ rx[s] = "flush"
    /\ rx' = [rx EXCEPT ![s] = "close"]
    /\ UNCHANGED <<STOP, coll, queue, drops, chan, inv, KERNEL_DROPS, captured,
                   lost, arrived>>

(* The last read of the counters, after the loop.                          *)
RxFlush(s) ==
    /\ rx[s] = "flush"
    /\ ReadStats(s)
    /\ rx' = [rx EXCEPT ![s] = "close"]
    /\ UNCHANGED <<STOP, coll, queue, chan, inv, captured, lost, arrived>>

(* rx_loop returns: the socket is closed and the Sender dropped.           *)
RxClose(s) ==
    /\ rx[s] = "close"
    /\ rx' = [rx EXCEPT ![s] = "done"]
    /\ queue' = [queue EXCEPT ![s] = <<>>]
    /\ UNCHANGED <<STOP, coll, drops, chan, inv, KERNEL_DROPS,
                   captured, lost, arrived>>

RxStep(s) == \/ RxCheck(s) \/ RxRecv(s) \/ RxTimeout(s)
             \/ RxLeave(s) \/ RxFlush(s) \/ RxClose(s)

-----------------------------------------------------------------------------
(* `for ev in evt_rx { inv.lock().apply(ev) }`: one event at a time.       *)
CollectorApply(s) ==
    /\ coll[s] = "run"
    /\ chan[s] # <<>>
    /\ inv' = [inv EXCEPT ![s] = Append(@, Head(chan[s]))]
    /\ chan' = [chan EXCEPT ![s] = Tail(@)]
    /\ UNCHANGED <<STOP, rx, coll, queue, drops, KERNEL_DROPS,
                   captured, lost, arrived>>

(* Fault: the collector polls and ends as soon as the Sender is gone.      *)
CollectorEndEarly(s) ==
    /\ coll[s] = "run"
    /\ rx[s] = "done"
    /\ coll' = [coll EXCEPT ![s] = "done"]
    /\ UNCHANGED <<STOP, rx, queue, drops, chan, inv, KERNEL_DROPS,
                   captured, lost, arrived>>

(* The iterator ends once the Sender is gone and the channel is empty.     *)
CollectorEnd(s) ==
    /\ coll[s] = "run"
    /\ chan[s] = <<>>
    /\ rx[s] = "done"
    /\ coll' = [coll EXCEPT ![s] = "done"]
    /\ UNCHANGED <<STOP, rx, queue, drops, chan, inv, KERNEL_DROPS,
                   captured, lost, arrived>>

CollectorStep(s) == CollectorApply(s) \/ CollectorEnd(s)
=============================================================================
