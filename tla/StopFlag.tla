------------------------------ MODULE StopFlag ------------------------------
(***************************************************************************)
(* The process-wide stop flag of ipscan, `static STOP: AtomicBool`, and    *)
(* the identifiers of the scans that share it.  Every thread of every scan *)
(* polls this one flag: the capture loop, the driver and its sleeps, and   *)
(* the command line's watch loop.  Scan s is the s-th call of              *)
(* ScanHandle::start; there is no flag per scan.                           *)
(***************************************************************************)
EXTENDS Naturals

CONSTANT MaxScans    \* bound: how many times ScanHandle::start is called

ASSUME MaxScansAssumption == MaxScans \in Nat \ {0}

Scans == 1..MaxScans

VARIABLE STOP

StopInit == STOP = FALSE

StopTypeOK == STOP \in BOOLEAN

\* STOP.store(true), by the signal handler, by `stop` and by `drop`.
RaiseStop == STOP' = TRUE
=============================================================================
