-------------------------- MODULE ScanHandle_proofs --------------------------
(***************************************************************************)
(* Proofs about ScanHandle and its two clients, CliMain and TuiApp, for    *)
(* any number of scans, frames, blocks and passes, any capacity of the     *)
(* kernel's queue, any forms and any keys.  The clients use the handle as  *)
(* ScanHandle allows, so that everything proved of it holds for them, and  *)
(* they leave nothing behind; the warning of the command line covers what  *)
(* its report may lack; in the interactive front end a launch never waits  *)
(* for a sweep, and the form and the table belong to the scan that runs.   *)
(***************************************************************************)
EXTENDS CliMain, TuiApp, SequenceTheorems, TLAPS

-----------------------------------------------------------------------------
(* Type correctness, one lemma per component.                              *)

(* The step that sends a pass is reached only with a pass left to count.   *)
SendHasPass == \A s \in Scans : driver[s] = "send" => passes[s] # 0

TypeInv == TypeOK /\ SendHasPass

LEMMA InitType == Init => TypeInv
<1> SUFFICES ASSUME Init PROVE TypeInv
  OBVIOUS
<1> USE DEF Init
<1>1. CaptureTypeOK
  BY DEF CaptureInit, CaptureTypeOK, RxStates, CollStates
<1>2. DriverTypeOK
  <2>1. NoConfig \in ConfigType
    BY DEF NoConfig, ConfigType
  <2>2. 0 \in 0..MaxBlocks
    BY DriverAssumption
  <2>3. QED
    BY <2>1, <2>2 DEF DriverInit, DriverTypeOK, DriverStates, Phases
<1>3. cur \in 0..MaxScans
  BY MaxScansAssumption
<1>4. SendHasPass
  BY DEF DriverInit, SendHasPass
<1>5. QED
  BY <1>1, <1>2, <1>3, <1>4 DEF StopInit, StopTypeOK, TypeOK, Owners, TypeInv

LEMMA ArriveType ==
  ASSUME TypeOK, NEW s \in Scans, NEW f \in Frames, Arrive(s, f)
  PROVE  StopTypeOK' /\ CaptureTypeOK'
<1> USE DEF TypeOK, CaptureTypeOK, StopTypeOK
<1>1. CASE Enqueue(s, f)
  BY <1>1 DEF Arrive, Enqueue
<1>2. CASE Overflow(s)
  BY <1>2 DEF Arrive, Overflow
<1>3. QED  BY <1>1, <1>2 DEF Arrive

LEMMA RxType ==
  ASSUME TypeOK, NEW s \in Scans, RxStep(s)
  PROVE  StopTypeOK' /\ CaptureTypeOK'
<1> USE DEF TypeOK, CaptureTypeOK, StopTypeOK, RxStates
<1>1. CASE RxCheck(s)
  <2>1. KERNEL_DROPS' \in Nat /\ drops' \in [Scans -> Nat]
    <3>1. CASE ReadStats(s)  BY <3>1 DEF ReadStats
    <3>2. CASE UNCHANGED <<KERNEL_DROPS, drops>>  BY <3>2
    <3>3. QED  BY <1>1, <3>1, <3>2 DEF RxCheck
  <2>2. QED  BY <1>1, <2>1 DEF RxCheck
<1>2. CASE RxRecv(s)
  <2>1. Head(queue[s]) \in Frames /\ Tail(queue[s]) \in Seq(Frames)
    BY <1>2, HeadTailProperties DEF RxRecv
  <2>2. Parse[Head(queue[s])] \in Seq(Events)
    BY <2>1, CaptureAssumption
  <2>3. /\ chan[s] \o Parse[Head(queue[s])] \in Seq(Events)
        /\ captured[s] \o Parse[Head(queue[s])] \in Seq(Events)
    BY <2>2, ConcatProperties
  <2>4. QED  BY <1>2, <2>1, <2>3 DEF RxRecv
<1>3. CASE RxTimeout(s)  BY <1>3 DEF RxTimeout
<1>4. CASE RxLeave(s)  BY <1>4 DEF RxLeave
<1>5. CASE RxFlush(s)  BY <1>5 DEF RxFlush, ReadStats
<1>6. CASE RxClose(s)  BY <1>6 DEF RxClose
<1>7. QED  BY <1>1, <1>2, <1>3, <1>4, <1>5, <1>6 DEF RxStep

LEMMA CollectorType ==
  ASSUME TypeOK, NEW s \in Scans, CollectorStep(s)
  PROVE  StopTypeOK' /\ CaptureTypeOK'
<1> USE DEF TypeOK, CaptureTypeOK, StopTypeOK, CollStates
<1>1. CASE CollectorApply(s)
  <2>1. Head(chan[s]) \in Events /\ Tail(chan[s]) \in Seq(Events)
    BY <1>1, HeadTailProperties DEF CollectorApply
  <2>2. QED  BY <1>1, <2>1 DEF CollectorApply
<1>2. CASE CollectorEnd(s)  BY <1>2 DEF CollectorEnd
<1>3. QED  BY <1>1, <1>2 DEF CollectorStep

LEMMA DriverType ==
  ASSUME TypeInv, NEW s \in Scans, DriverStep(s)
  PROVE  StopTypeOK' /\ DriverTypeOK' /\ SendHasPass'
<1> USE DriverAssumption DEF TypeInv, SendHasPass, TypeOK, DriverTypeOK, StopTypeOK, DriverStates, DriverLive,
        DriverEnded, Phases, Goto, SetPhase, SweepUnchanged
<1>1. CASE DriverPassive(s)  BY <1>1 DEF DriverPassive
<1>2. CASE DriverWake(s)  BY <1>2 DEF DriverWake
<1>3. CASE DriverGate(s)  BY <1>3 DEF DriverGate
<1>4. CASE DriverPing(s)  BY <1>4 DEF DriverPing, Transmit
<1>5. CASE DriverTargets(s)  BY <1>5 DEF DriverTargets
<1>6. CASE DriverSweep(s)  BY <1>6 DEF DriverSweep
<1>7. CASE DriverBlock(s)
  <2>1. CASE STOP \/ blocks[s] = 0
    BY <1>7, <2>1 DEF DriverBlock
  <2>2. CASE ~(STOP \/ blocks[s] = 0)
    <3>1. cfg[s].passes \in Nat
      BY DEF ConfigType
    <3>2. passes' \in [Scans -> Nat]
      BY <1>7, <2>2, <3>1 DEF DriverBlock
    <3>3. blocks[s] - 1 \in 0..MaxBlocks
      BY <2>2
    <3>4. blocks' \in [Scans -> 0..MaxBlocks]
      BY <1>7, <2>2, <3>3 DEF DriverBlock
    <3>5. driver' = [driver EXCEPT ![s] = "pass"]
      BY <1>7, <2>2 DEF DriverBlock
    <3>6. SendHasPass'
      BY <1>7, <2>2, <3>5 DEF DriverBlock
    <3>7. QED
      BY <1>7, <3>2, <3>4, <3>5, <3>6 DEF DriverBlock
  <2>3. QED  BY <2>1, <2>2
<1>8. CASE DriverPass(s)  BY <1>8 DEF DriverPass
<1>9. CASE DriverSend(s)  BY <1>9 DEF DriverSend, Transmit
<1>10. CASE DriverWindow(s)  BY <1>10 DEF DriverWindow
<1>11. CASE DriverFinish(s)  BY <1>11 DEF DriverFinish
<1> HIDE DEF TypeInv, SendHasPass, TypeOK, DriverTypeOK, StopTypeOK
<1>12. QED
  BY <1>1, <1>2, <1>3, <1>4, <1>5, <1>6, <1>7, <1>8, <1>9, <1>10, <1>11 DEF DriverStep

(* The steps of the owner of the handle.                                   *)
OwnerStep == \/ Begin \/ StartStep
             \/ Stop \/ Signal \/ DropSignal \/ DropJoined

LEMMA CurIsScan ==
  ASSUME TypeOK, cur # 0
  PROVE  cur \in Scans
  BY MaxScansAssumption DEF TypeOK, Scans

LEMMA OwnerType ==
  ASSUME TypeInv, OwnerStep
  PROVE  TypeInv'
<1> USE DEF TypeInv, SendHasPass, TypeOK, StopTypeOK, CaptureTypeOK, DriverTypeOK, Owners
<1>1. CASE Begin
  <2>1. cur' \in 0..MaxScans
    BY <1>1, MaxScansAssumption DEF Begin, StartReset
  <2>2. DriverTypeOK' /\ SendHasPass'
    BY <1>1 DEF Begin, StartReset, driverVars
  <2>3. CaptureTypeOK'
    BY <1>1 DEF Begin, StartReset
  <2>4. QED
    BY <1>1, <2>1, <2>2, <2>3 DEF Begin, StartReset
<1>2. CASE StartOpen
  <2>1. rx' \in [Scans -> RxStates]
    BY <1>2 DEF StartOpen, RxStates
  <2>2. QED
    BY <1>2, <2>1 DEF StartOpen, driverVars, handleVars
<1>3. CASE StartFail
  <2>1. rx' \in [Scans -> RxStates]
    BY <1>3 DEF StartFail, RxStates
  <2>2. queue' \in [Scans -> Seq(Frames)]
    <3>1. queue' = [queue EXCEPT ![cur] = <<>>]
      BY <1>3 DEF StartFail
    <3>2. <<>> \in Seq(Frames) /\ queue \in [Scans -> Seq(Frames)]
      BY EmptySeq
    <3> HIDE DEF TypeInv, TypeOK
    <3>3. QED  BY <3>1, <3>2
  <2>3. QED
    BY <1>3, <2>1, <2>2 DEF StartFail, driverVars
<1>4. ASSUME NEW c \in Configs, StartSpawn(c)
      PROVE  TypeInv'
  <2>1. /\ rx' \in [Scans -> RxStates]
        /\ coll' \in [Scans -> CollStates]
        /\ driver' \in [Scans -> DriverStates]
        /\ SendHasPass'
    BY <1>4 DEF StartSpawn, RxStates, CollStates, DriverStates, DriverLive
  <2>2. cfg' \in [Scans -> ConfigType]
    BY <1>4, DriverAssumption DEF StartSpawn
  <2>3. QED
    BY <1>4, <2>1, <2>2 DEF StartSpawn
<1>5. CASE Stop
  BY <1>5 DEF Stop, RaiseStop, captureVars, driverVars, handleVars
<1>6. CASE Signal
  BY <1>6 DEF Signal, RaiseStop, captureVars, driverVars, handleVars
<1>7. CASE DropSignal
  BY <1>7 DEF DropSignal, RaiseStop, captureVars, driverVars
<1>8. CASE DropJoined
  BY <1>8 DEF DropJoined, captureVars, driverVars
<1> HIDE DEF TypeInv
<1>9. QED
  BY <1>1, <1>2, <1>3, <1>4, <1>5, <1>6, <1>7, <1>8 DEF OwnerStep, StartStep

(* A step of a thread or of the kernel leaves the owner alone, and each    *)
(* half of the scan leaves the other alone.                                *)
LEMMA ThreadType ==
  ASSUME TypeInv, ThreadNext
  PROVE  TypeInv'
<1>1. PICK s \in Scans :
        \/ \E f \in Frames : Arrive(s, f) /\ UNCHANGED <<driverVars, handleVars>>
        \/ RxStep(s) /\ UNCHANGED <<driverVars, handleVars>>
        \/ CollectorStep(s) /\ UNCHANGED <<driverVars, handleVars>>
        \/ DriverStep(s) /\ UNCHANGED <<captureVars, handleVars>>
  BY DEF ThreadNext
<1>2. ASSUME UNCHANGED <<driverVars, handleVars>>, StopTypeOK' /\ CaptureTypeOK'
      PROVE  TypeInv'
  BY <1>2 DEF TypeInv, SendHasPass, TypeOK, DriverTypeOK, driverVars, handleVars
<1>3. ASSUME UNCHANGED <<captureVars, handleVars>>,
             StopTypeOK' /\ DriverTypeOK' /\ SendHasPass'
      PROVE  TypeInv'
  BY <1>3 DEF TypeInv, TypeOK, CaptureTypeOK, captureVars, handleVars
<1>4. TypeOK
  BY DEF TypeInv
<1>5. QED
  BY <1>1, <1>2, <1>3, <1>4, ArriveType, RxType, CollectorType, DriverType

LEMMA StutterType ==
  ASSUME TypeInv, UNCHANGED vars
  PROVE  TypeInv'
  BY DEF TypeInv, SendHasPass, TypeOK, StopTypeOK, CaptureTypeOK, DriverTypeOK,
         vars, captureVars, driverVars, handleVars

(* Every step is one of the owner, one of a thread or the kernel, or none. *)
LEMMA NextType == TypeInv /\ [Next]_vars => TypeInv'
  BY OwnerType, ThreadType, StutterType DEF Next, OwnerStep

(* Every variable keeps its type, and the pass that is sent is one that    *)
(* was still due.                                                          *)
THEOREM TypeCorrect == SafetySpec => []TypeInv
<1>1. QED
  BY InitType, NextType, PTL DEF SafetySpec

(* The handle, its threads and their counters have their types.            *)
THEOREM TypeOKHolds == SafetySpec => []TypeOK
<1>1. TypeInv => TypeOK
  BY DEF TypeInv
<1>2. QED
  BY <1>1, TypeCorrect, PTL

-----------------------------------------------------------------------------
(* No thread outlives its handle, and STOP stays up while one is alive.    *)

(* A thread or the kernel never brings a thread to life, never clears the  *)
(* flag and never touches the handle.                                      *)
LEMMA ThreadKeepsLive ==
  ASSUME TypeInv, ThreadNext
  PROVE  /\ \A s \in Scans : ThreadsLive(s)' => ThreadsLive(s)
         /\ UNCHANGED <<STOP, handleVars>>
<1>1. PICK r \in Scans :
        \/ \E f \in Frames : Arrive(r, f) /\ UNCHANGED <<driverVars, handleVars>>
        \/ RxStep(r) /\ UNCHANGED <<driverVars, handleVars>>
        \/ CollectorStep(r) /\ UNCHANGED <<driverVars, handleVars>>
        \/ DriverStep(r) /\ UNCHANGED <<captureVars, handleVars>>
  BY DEF ThreadNext
<1> USE DEF ThreadsLive, driverVars, handleVars, captureVars
<1>2. ASSUME NEW f \in Frames, Arrive(r, f), UNCHANGED <<driverVars, handleVars>>
      PROVE  UNCHANGED <<rx, coll, driver, STOP, handleVars>>
  BY <1>2 DEF Arrive
<1>3. ASSUME RxStep(r), UNCHANGED <<driverVars, handleVars>>
      PROVE  /\ rx[r] \in RxLive
             /\ \E state \in RxStates : rx' = [rx EXCEPT ![r] = state]
             /\ UNCHANGED <<coll, driver, STOP, handleVars>>
  BY <1>3 DEF RxStep, RxCheck, RxRecv, RxTimeout, RxLeave, RxFlush, RxClose,
              RxLive, RxStates
<1>4. ASSUME CollectorStep(r), UNCHANGED <<driverVars, handleVars>>
      PROVE  /\ coll[r] = "run"
             /\ coll' = coll \/ coll' = [coll EXCEPT ![r] = "done"]
             /\ UNCHANGED <<rx, driver, STOP, handleVars>>
  BY <1>4 DEF CollectorStep, CollectorApply, CollectorEnd
<1>5. ASSUME DriverStep(r), UNCHANGED <<captureVars, handleVars>>
      PROVE  /\ driver[r] \in DriverLive
             /\ \E state \in DriverStates : driver' = [driver EXCEPT ![r] = state]
             /\ UNCHANGED <<rx, coll, STOP, handleVars>>
  BY <1>5 DEF DriverStep, DriverPassive, DriverWake, DriverGate, DriverPing,
              DriverTargets, DriverSweep, DriverBlock, DriverPass, DriverSend,
              DriverWindow, DriverFinish, Goto, DriverLive, DriverStates, DriverEnded
<1>6. rx \in [Scans -> RxStates] /\ coll \in [Scans -> CollStates]
        /\ driver \in [Scans -> DriverStates]
  BY DEF TypeInv, TypeOK, CaptureTypeOK, DriverTypeOK
<1>7. CASE \E f \in Frames : Arrive(r, f) /\ UNCHANGED <<driverVars, handleVars>>
  BY <1>2, <1>7
<1>8. CASE RxStep(r) /\ UNCHANGED <<driverVars, handleVars>>
  BY <1>3, <1>6, <1>8
<1>9. CASE CollectorStep(r) /\ UNCHANGED <<driverVars, handleVars>>
  BY <1>4, <1>6, <1>9
<1>10. CASE DriverStep(r) /\ UNCHANGED <<captureVars, handleVars>>
  BY <1>5, <1>6, <1>10
<1>11. QED
  BY <1>1, <1>7, <1>8, <1>9, <1>10

LEMMA InitNoZombie == Init => NoZombie
  BY DEF Init, CaptureInit, DriverInit, NoZombie, ThreadsLive, RxLive, DriverLive

(* The only step that brings threads to life is the end of `start`, and    *)
(* the only step that lets go of a handle waits for all three of them.     *)
LEMMA OwnerNoZombie ==
  ASSUME TypeInv, NoZombie, OwnerStep
  PROVE  NoZombie'
<1> USE DEF NoZombie, ThreadsLive
<1>0. rx \in [Scans -> RxStates] /\ coll \in [Scans -> CollStates]
        /\ driver \in [Scans -> DriverStates]
  BY DEF TypeInv, TypeOK, CaptureTypeOK, DriverTypeOK
<1>1. CASE Begin
  BY <1>1 DEF Begin, StartReset, driverVars
<1>2. CASE StartOpen
  BY <1>0, <1>2 DEF StartOpen, driverVars, handleVars, RxLive
<1>3. CASE StartFail
  BY <1>0, <1>3 DEF StartFail, driverVars, RxLive
<1>4. ASSUME NEW c \in Configs, StartSpawn(c)
      PROVE  NoZombie'
  BY <1>0, <1>4 DEF StartSpawn
<1>5. CASE Stop \/ Signal
  BY <1>5 DEF Stop, Signal, captureVars, driverVars, handleVars
<1>6. CASE DropSignal
  BY <1>6 DEF DropSignal, captureVars, driverVars
<1>7. CASE DropJoined
  BY <1>7 DEF DropJoined, captureVars, driverVars, RxLive, DriverLive, DriverEnded
<1> HIDE DEF NoZombie
<1>8. QED
  BY <1>1, <1>2, <1>3, <1>4, <1>5, <1>6, <1>7 DEF OwnerStep, StartStep

LEMMA NextNoZombie == TypeInv /\ NoZombie /\ [Next]_vars => NoZombie'
<1> SUFFICES ASSUME TypeInv, NoZombie, [Next]_vars PROVE NoZombie'
  OBVIOUS
<1>1. CASE ThreadNext
  BY <1>1, ThreadKeepsLive DEF NoZombie, handleVars
<1>2. CASE UNCHANGED vars
  BY <1>2 DEF NoZombie, ThreadsLive, vars, captureVars, driverVars, handleVars
<1>3. QED
  BY <1>1, <1>2, OwnerNoZombie DEF Next, OwnerStep

(* A scan without a held or dropping handle has no live thread.            *)
THEOREM NoZombieHolds == SafetySpec => []NoZombie
<1>1. QED
  BY InitNoZombie, NextNoZombie, TypeCorrect, PTL DEF SafetySpec

(* Only `start` clears STOP, and it runs when no thread is alive.          *)
THEOREM StopStickyHolds == SafetySpec => StopSticky
<1>1. ASSUME TypeInv, NoZombie, [Next]_vars,
             STOP, \E s \in Scans : ThreadsLive(s)
      PROVE  STOP'
  <2>1. CASE ThreadNext
    BY <1>1, <2>1, ThreadKeepsLive
  <2>2. CASE OwnerStep
    BY <1>1, <2>2 DEF OwnerStep, StartStep, Begin, StartReset, StartOpen, StartFail, StartSpawn,
        Stop, Signal, DropSignal, DropJoined, RaiseStop, NoZombie
  <2>3. CASE UNCHANGED vars
    BY <1>1, <2>3 DEF vars
  <2>4. QED
    BY <1>1, <2>1, <2>2, <2>3 DEF Next, OwnerStep
<1>2. TypeInv /\ NoZombie /\ [Next]_vars
        => [(STOP /\ \E s \in Scans : ThreadsLive(s)) => STOP']_vars
  BY <1>1
<1>3. QED
  BY <1>2, TypeCorrect, NoZombieHolds, PTL DEF SafetySpec, StopSticky

-----------------------------------------------------------------------------
(* The event stream is conserved.                                          *)

(* Moving the head of one sequence to the end of another leaves their      *)
(* concatenation alone.                                                    *)
LEMMA MoveHead ==
  ASSUME NEW S, NEW done \in Seq(S), NEW todo \in Seq(S), todo # <<>>
  PROVE  Append(done, Head(todo)) \o Tail(todo) = done \o todo
<1>1. /\ Head(todo) \in S
      /\ Tail(todo) \in Seq(S)
      /\ <<Head(todo)>> \o Tail(todo) = todo
  BY HeadTailProperties
<1>2. <<Head(todo)>> \in Seq(S)
  BY <1>1
<1>3. Append(done, Head(todo)) = done \o <<Head(todo)>>
  BY <1>1, AppendIsConcat
<1>4. (done \o <<Head(todo)>>) \o Tail(todo) = done \o (<<Head(todo)>> \o Tail(todo))
  BY <1>1, <1>2, ConcatAssociative
<1>5. QED
  BY <1>1, <1>3, <1>4

LEMMA StreamTypes ==
  ASSUME TypeInv, NEW s \in Scans
  PROVE  /\ chan[s] \in Seq(Events) /\ inv[s] \in Seq(Events)
         /\ captured[s] \in Seq(Events)
         /\ queue[s] # <<>> => Parse[Head(queue[s])] \in Seq(Events)
<1>1. queue[s] \in Seq(Frames)
  BY DEF TypeInv, TypeOK, CaptureTypeOK
<1>2. queue[s] # <<>> => Head(queue[s]) \in Frames
  BY <1>1, HeadTailProperties
<1>3. QED
  BY <1>2, CaptureAssumption DEF TypeInv, TypeOK, CaptureTypeOK

LEMMA InitStream == Init => StreamConserved
<1>1. <<>> \o <<>> = <<>>
  BY EmptySeq, ConcatEmptySeq
<1>2. QED
  BY <1>1 DEF Init, CaptureInit, StreamConserved

LEMMA RxStream ==
  ASSUME TypeInv, StreamConserved, NEW r \in Scans, RxStep(r)
  PROVE  StreamConserved'
<1> USE DEF StreamConserved
<1>0. /\ rx \in [Scans -> RxStates] /\ chan \in [Scans -> Seq(Events)]
      /\ captured \in [Scans -> Seq(Events)]
  BY DEF TypeInv, TypeOK, CaptureTypeOK
<1>1. CASE RxRecv(r)
  <2>1. rx[r] # "done" /\ coll' = coll /\ inv' = inv
    BY <1>1 DEF RxRecv
  <2>2. ASSUME NEW s \in Scans PROVE captured'[s] = inv[s] \o chan'[s]
    <3>1. CASE s = r
      <4> DEFINE events == Parse[Head(queue[r])]
      <4>1. captured'[r] = captured[r] \o events /\ chan'[r] = chan[r] \o events
        BY <1>0, <1>1 DEF RxRecv
      <4>2. /\ inv[r] \in Seq(Events) /\ chan[r] \in Seq(Events)
            /\ events \in Seq(Events)
        BY <1>1, StreamTypes DEF RxRecv
      <4> HIDE DEF events
      <4>3. (inv[r] \o chan[r]) \o events = inv[r] \o (chan[r] \o events)
        <5>1. \A x, y, z \in Seq(Events) : (x \o y) \o z = x \o (y \o z)
          BY ONLY ConcatAssociative
        <5>2. QED  BY ONLY <4>2, <5>1, Zenon
      <4>4. QED  BY <3>1, <4>1, <4>3
    <3>2. CASE s # r
      BY <1>0, <1>1, <3>2 DEF RxRecv
    <3>3. QED  BY <3>1, <3>2
  <2>3. ASSUME NEW s \in Scans, coll[s] = "done"
        PROVE  rx'[s] = "done" /\ chan'[s] = <<>>
    BY <1>0, <1>1, <2>1, <2>3 DEF RxRecv
  <2>4. QED  BY <2>1, <2>2, <2>3
<1>2. CASE RxCheck(r) \/ RxTimeout(r) \/ RxLeave(r) \/ RxFlush(r) \/ RxClose(r)
  <2>1. UNCHANGED <<coll, inv, chan, captured>> /\ rx[r] # "done"
    BY <1>2 DEF RxCheck, RxTimeout, RxLeave, RxFlush, RxClose
  <2>2. \A s \in Scans : rx[s] = "done" => rx'[s] = "done"
    BY <1>0, <1>2 DEF RxCheck, RxTimeout, RxLeave, RxFlush, RxClose
  <2>3. QED  BY <2>1, <2>2
<1>3. QED  BY <1>1, <1>2 DEF RxStep

LEMMA CollectorStream ==
  ASSUME TypeInv, StreamConserved, NEW r \in Scans, CollectorStep(r)
  PROVE  StreamConserved'
<1> USE DEF StreamConserved
<1>0. /\ coll \in [Scans -> CollStates] /\ chan \in [Scans -> Seq(Events)]
      /\ inv \in [Scans -> Seq(Events)]
  BY DEF TypeInv, TypeOK, CaptureTypeOK
<1>1. CASE CollectorApply(r)
  <2>1. UNCHANGED <<rx, coll, captured>> /\ coll[r] = "run"
    BY <1>1 DEF CollectorApply
  <2>2. /\ inv'[r] = Append(inv[r], Head(chan[r]))
        /\ chan'[r] = Tail(chan[r])
        /\ \A s \in Scans : s # r => inv'[s] = inv[s] /\ chan'[s] = chan[s]
    BY <1>0, <1>1 DEF CollectorApply
  <2>3. Append(inv[r], Head(chan[r])) \o Tail(chan[r]) = inv[r] \o chan[r]
    BY <1>1, StreamTypes, MoveHead DEF CollectorApply
  <2>4. QED  BY <2>1, <2>2, <2>3
<1>2. CASE CollectorEnd(r)
  BY <1>0, <1>2 DEF CollectorEnd
<1>3. QED  BY <1>1, <1>2 DEF CollectorStep

LEMMA OwnerStream ==
  ASSUME TypeInv, StreamConserved, OwnerStep
  PROVE  StreamConserved'
<1>0. rx \in [Scans -> RxStates] /\ coll \in [Scans -> CollStates]
  BY DEF TypeInv, TypeOK, CaptureTypeOK
<1>1. UNCHANGED <<inv, chan, captured>>
  BY DEF OwnerStep, StartStep, Begin, StartReset, StartOpen, StartFail, StartSpawn, Stop,
         Signal, DropSignal, DropJoined, captureVars
<1>2. ASSUME NEW s \in Scans, coll'[s] = "done"
      PROVE  coll[s] = "done" /\ (rx[s] = "done" => rx'[s] = "done")
  BY <1>0, <1>2 DEF OwnerStep, StartStep, Begin, StartReset, StartOpen, StartFail, StartSpawn,
         Stop, Signal, DropSignal, DropJoined, captureVars
<1>3. QED
  BY <1>1, <1>2 DEF StreamConserved

LEMMA NextStream == TypeInv /\ StreamConserved /\ [Next]_vars => StreamConserved'
<1> SUFFICES ASSUME TypeInv, StreamConserved, [Next]_vars PROVE StreamConserved'
  OBVIOUS
<1>1. CASE ThreadNext
  <2>1. PICK r \in Scans :
          \/ \E f \in Frames : Arrive(r, f)
          \/ RxStep(r)
          \/ CollectorStep(r)
          \/ UNCHANGED captureVars
    BY <1>1 DEF ThreadNext
  <2>2. CASE UNCHANGED captureVars
    BY <2>2 DEF captureVars, StreamConserved
  <2>3. ASSUME NEW f \in Frames, Arrive(r, f) PROVE StreamConserved'
    BY <2>3 DEF Arrive, StreamConserved
  <2>4. QED
    BY <2>1, <2>2, <2>3, RxStream, CollectorStream
<1>2. CASE UNCHANGED vars
  BY <1>2 DEF vars, captureVars, StreamConserved
<1>3. QED
  BY <1>1, <1>2, OwnerStream DEF Next, OwnerStep

(* No event is lost, duplicated or reordered on the way to the inventory.  *)
THEOREM StreamConservedHolds == SafetySpec => []StreamConserved
<1>1. QED
  BY InitStream, NextStream, TypeCorrect, PTL DEF SafetySpec

-----------------------------------------------------------------------------
(* The drop counter: one static for all scans, but only the current scan   *)
(* has a socket, and a scan not yet started has lost nothing.              *)
DropsInv ==
  /\ owner # "none" => cur # 0 /\ KERNEL_DROPS + drops[cur] = lost[cur]
  /\ \A s \in Scans : s > cur => drops[s] = 0 /\ lost[s] = 0
  /\ \A s \in Scans : rx[s] \in SocketOpen => s = cur /\ owner # "none"

LEMMA InitDrops == Init => DropsInv
  BY DEF Init, CaptureInit, DropsInv, SocketOpen

LEMMA ThreadDrops ==
  ASSUME TypeInv, DropsInv, NEW r \in Scans,
         (\E f \in Frames : Arrive(r, f)) \/ RxStep(r) \/ CollectorStep(r),
         UNCHANGED handleVars
  PROVE  DropsInv'
<1> USE DEF DropsInv, handleVars
<1>0. /\ rx \in [Scans -> RxStates] /\ KERNEL_DROPS \in Nat
      /\ drops \in [Scans -> Nat] /\ lost \in [Scans -> Nat]
  BY DEF TypeInv, TypeOK, CaptureTypeOK
<1>1. ASSUME NEW f \in Frames, Arrive(r, f) PROVE DropsInv'
  <2>1. r = cur /\ owner # "none"
    BY <1>1 DEF Arrive
  <2>2. CASE Enqueue(r, f)
    BY <1>1, <2>2 DEF Arrive, Enqueue
  <2>3. CASE Overflow(r)
    <3>1. /\ drops'[cur] = drops[cur] + 1 /\ lost'[cur] = lost[cur] + 1
          /\ \A s \in Scans : s > cur => drops'[s] = drops[s] /\ lost'[s] = lost[s]
      BY <1>0, <2>1, <2>3 DEF Overflow, Scans
    <3>2. UNCHANGED <<owner, cur, rx, KERNEL_DROPS>>
      BY <1>1 DEF Arrive
    <3>3. drops[cur] \in Nat /\ lost[cur] \in Nat
      BY <1>0, <2>1
    <3>4. KERNEL_DROPS' + drops'[cur'] = lost'[cur']
      BY <1>0, <2>1, <3>1, <3>2, <3>3
    <3>5. QED  BY <3>1, <3>2, <3>4
  <2>4. QED  BY <1>1, <2>2, <2>3 DEF Arrive
<1>2. CASE RxStep(r)
  <2>1. r = cur /\ owner # "none"
    BY <1>2 DEF RxStep, RxCheck, RxRecv, RxTimeout, RxLeave, RxFlush, RxClose, SocketOpen
  <2>2. /\ \A s \in Scans : s # r => rx'[s] = rx[s]
        /\ UNCHANGED lost
        /\ ReadStats(r) \/ UNCHANGED <<KERNEL_DROPS, drops>>
    BY <1>0, <1>2 DEF RxStep, RxCheck, RxRecv, RxTimeout, RxLeave, RxFlush, RxClose
  <2>3. CASE ReadStats(r)
    BY <1>0, <2>1, <2>2, <2>3 DEF ReadStats
  <2>4. CASE UNCHANGED <<KERNEL_DROPS, drops>>
    BY <1>0, <2>1, <2>2, <2>4
  <2>5. QED  BY <2>2, <2>3, <2>4
<1>3. CASE CollectorStep(r)
  BY <1>3 DEF CollectorStep, CollectorApply, CollectorEnd
<1>4. QED  BY <1>1, <1>2, <1>3

LEMMA OwnerDrops ==
  ASSUME TypeInv, NoZombie, DropsInv, OwnerStep
  PROVE  DropsInv'
<1> USE DEF DropsInv
<1>0. /\ rx \in [Scans -> RxStates] /\ KERNEL_DROPS \in Nat /\ cur \in 0..MaxScans
      /\ drops \in [Scans -> Nat] /\ lost \in [Scans -> Nat]
  BY DEF TypeInv, TypeOK, CaptureTypeOK
<1>1. CASE Begin
  <2>1. cur' = cur + 1 /\ cur' \in Scans /\ KERNEL_DROPS' = 0 /\ UNCHANGED <<rx, drops, lost>>
    BY <1>0, <1>1, MaxScansAssumption DEF Begin, StartReset, Scans
  <2>2. owner = "none" /\ owner' = "starting"
    BY <1>1 DEF Begin, StartReset
  <2>3. drops[cur'] = 0 /\ lost[cur'] = 0
    BY <1>0, <2>1
  <2>4. \A s \in Scans : s > cur' => s > cur
    BY <1>0, <2>1 DEF Scans
  <2>5. QED  BY <1>0, <2>1, <2>2, <2>3, <2>4
<1>2. CASE StartOpen
  BY <1>0, <1>2 DEF StartOpen, handleVars
<1>3. CASE StartFail
  <2>1. owner = "starting" /\ owner' = "none"
    BY <1>3 DEF StartFail
  <2>2. ASSUME NEW s \in Scans PROVE rx'[s] \notin SocketOpen
    BY <1>0, <1>3, <2>1 DEF StartFail, SocketOpen, NoZombie, ThreadsLive, RxLive, RxStates
  <2>3. QED  BY <1>3, <2>1, <2>2 DEF StartFail
<1>4. ASSUME NEW c \in Configs, StartSpawn(c)
      PROVE  DropsInv'
  BY <1>0, <1>4 DEF StartSpawn
<1>5. CASE Stop \/ Signal
  BY <1>5 DEF Stop, Signal, captureVars, handleVars
<1>6. CASE DropSignal
  BY <1>6 DEF DropSignal, captureVars
<1>7. CASE DropJoined
  BY <1>7 DEF DropJoined, captureVars, SocketOpen
<1>8. QED
  BY <1>1, <1>2, <1>3, <1>4, <1>5, <1>6, <1>7 DEF OwnerStep, StartStep

LEMMA NextDrops == TypeInv /\ NoZombie /\ DropsInv /\ [Next]_vars => DropsInv'
<1> SUFFICES ASSUME TypeInv, NoZombie, DropsInv, [Next]_vars PROVE DropsInv'
  OBVIOUS
<1>1. CASE ThreadNext
  <2>1. PICK r \in Scans :
          \/ /\ (\E f \in Frames : Arrive(r, f)) \/ RxStep(r) \/ CollectorStep(r)
             /\ UNCHANGED handleVars
          \/ UNCHANGED <<captureVars, handleVars>>
    BY <1>1 DEF ThreadNext
  <2>2. CASE UNCHANGED <<captureVars, handleVars>>
    BY <2>2 DEF captureVars, handleVars, DropsInv
  <2>3. QED  BY <2>1, <2>2, ThreadDrops
<1>2. CASE UNCHANGED vars
  BY <1>2 DEF vars, captureVars, handleVars, DropsInv
<1>3. QED
  BY <1>1, <1>2, OwnerDrops DEF Next, OwnerStep

(* Every frame the kernel drops is charged once, and to its own scan.      *)
THEOREM DropsAccountedHolds == SafetySpec => []DropsAccounted
<1>1. DropsInv => DropsAccounted
  BY DEF DropsInv, DropsAccounted
<1>2. QED
  BY <1>1, InitDrops, NextDrops, TypeCorrect, NoZombieHolds, PTL DEF SafetySpec

-----------------------------------------------------------------------------
(* What the driver sends.  A unit sent with STOP raised leaves the driver  *)
(* where it cannot send another: it looks at STOP first, and STOP is still *)
(* raised because the driver is alive.                                     *)
LateOf(s) ==
  /\ late[s] <= 1
  /\ late[s] = 1 => /\ driver[s] \notin {"ping", "send"}
                    /\ driver[s] \in DriverLive => STOP
  /\ driver[s] = "off" => late[s] = 0 /\ sent[s] = 0

SilentOf(s) ==
  cfg[s].passive_only => /\ sent[s] = 0
                         /\ driver[s] \in {"off", "start", "listen", "gate", "finish", "ok"}

UnspawnedOf(s) ==
  s > cur \/ (s = cur /\ owner = "starting") => driver[s] = "off"

SendInv == \A s \in Scans : LateOf(s) /\ SilentOf(s) /\ UnspawnedOf(s)

LEMMA InitSend == Init => SendInv
  BY DEF Init, DriverInit, SendInv, LateOf, SilentOf, UnspawnedOf, DriverLive

(* The scan whose driver moves.                                            *)
LEMMA MovedSend ==
  ASSUME TypeInv, NEW s \in Scans, LateOf(s), SilentOf(s), DriverStep(s)
  PROVE  LateOf(s)' /\ SilentOf(s)' /\ driver[s] # "off"
<1> USE DEF LateOf, SilentOf, DriverLive, Goto, SweepUnchanged
<1>0. /\ driver \in [Scans -> DriverStates] /\ sent \in [Scans -> Nat]
      /\ late \in [Scans -> Nat] /\ cfg \in [Scans -> ConfigType]
  BY DEF TypeInv, TypeOK, DriverTypeOK
<1>1. CASE DriverPassive(s)  BY <1>0, <1>1 DEF DriverPassive
<1>2. CASE DriverWake(s)  BY <1>0, <1>2 DEF DriverWake
<1>3. CASE DriverGate(s)  BY <1>0, <1>3 DEF DriverGate
<1>4. CASE DriverPing(s)
  <2>1. late'[s] <= 1 /\ (late'[s] = 1 => STOP)
    BY <1>0, <1>4 DEF DriverPing, Transmit
  <2>2. driver'[s] \in {"pause", "err"} /\ UNCHANGED <<STOP, cfg>>
    BY <1>0, <1>4 DEF DriverPing
  <2>3. ~cfg[s].passive_only /\ driver[s] = "ping"
    BY <1>4 DEF DriverPing
  <2>4. QED  BY <2>1, <2>2, <2>3
<1>5. CASE DriverTargets(s)
  <2>1. driver'[s] \in {"finish", "sweep"} /\ UNCHANGED <<STOP, cfg, sent, late>>
    BY <1>0, <1>5 DEF DriverTargets
  <2>2. ~cfg[s].passive_only /\ driver[s] = "targets"
    BY <1>5 DEF DriverTargets
  <2>3. QED  BY <2>1, <2>2
<1>6. CASE DriverSweep(s)  BY <1>0, <1>6 DEF DriverSweep
<1>7. CASE DriverBlock(s)
  <2>1. driver'[s] \in {"window", "pass"} /\ UNCHANGED <<STOP, cfg, sent, late>>
    BY <1>0, <1>7 DEF DriverBlock
  <2>2. ~cfg[s].passive_only /\ driver[s] = "block"
    BY <1>7 DEF DriverBlock
  <2>3. QED  BY <2>1, <2>2
<1>8. CASE DriverPass(s)  BY <1>0, <1>8 DEF DriverPass
<1>9. CASE DriverSend(s)
  <2>1. late'[s] <= 1 /\ (late'[s] = 1 => STOP)
    BY <1>0, <1>9 DEF DriverSend, Transmit
  <2>2. driver'[s] \in {"pass", "err"} /\ UNCHANGED <<STOP, cfg>>
    BY <1>0, <1>9 DEF DriverSend
  <2>3. ~cfg[s].passive_only /\ driver[s] = "send"
    BY <1>9 DEF DriverSend
  <2>4. QED  BY <2>1, <2>2, <2>3
<1>10. CASE DriverWindow(s)  BY <1>0, <1>10 DEF DriverWindow
<1>11. CASE DriverFinish(s)  BY <1>0, <1>11 DEF DriverFinish
<1> HIDE DEF LateOf, SilentOf
<1>12. QED
  BY <1>1, <1>2, <1>3, <1>4, <1>5, <1>6, <1>7, <1>8, <1>9, <1>10, <1>11 DEF DriverStep

(* The other scans do not notice.                                          *)
LEMMA DriverFrame ==
  ASSUME TypeInv, NEW s \in Scans, DriverStep(s), NEW t \in Scans, t # s
  PROVE  /\ UNCHANGED STOP
         /\ driver'[t] = driver[t] /\ cfg'[t] = cfg[t]
         /\ sent'[t] = sent[t] /\ late'[t] = late[t]
<1>0. /\ driver \in [Scans -> DriverStates] /\ sent \in [Scans -> Nat]
      /\ late \in [Scans -> Nat]
  BY DEF TypeInv, TypeOK, DriverTypeOK
<1> USE <1>0 DEF Goto, SweepUnchanged
<1>1. CASE DriverPing(s) \/ DriverSend(s)
  BY <1>1 DEF DriverPing, DriverSend, Transmit
<1>2. CASE DriverTargets(s) \/ DriverBlock(s)
  BY <1>2 DEF DriverTargets, DriverBlock
<1>3. CASE \/ DriverPassive(s) \/ DriverWake(s) \/ DriverGate(s) \/ DriverSweep(s)
           \/ DriverPass(s) \/ DriverWindow(s) \/ DriverFinish(s)
  BY <1>3 DEF DriverPassive, DriverWake, DriverGate, DriverSweep, DriverPass,
              DriverWindow, DriverFinish
<1>4. QED  BY <1>1, <1>2, <1>3 DEF DriverStep

LEMMA DriverSends ==
  ASSUME TypeInv, SendInv, NEW s \in Scans, DriverStep(s), UNCHANGED handleVars
  PROVE  SendInv'
<1>1. LateOf(s)' /\ SilentOf(s)' /\ driver[s] # "off"
  BY MovedSend DEF SendInv
<1>2. UnspawnedOf(s)'
  BY <1>1 DEF SendInv, UnspawnedOf, handleVars
<1>3. ASSUME NEW t \in Scans, t # s
      PROVE  LateOf(t)' /\ SilentOf(t)' /\ UnspawnedOf(t)'
  BY <1>3, DriverFrame DEF SendInv, LateOf, SilentOf, UnspawnedOf, handleVars
<1>4. QED  BY <1>1, <1>2, <1>3 DEF SendInv

LEMMA OwnerSend ==
  ASSUME TypeInv, NoZombie, SendInv, OwnerStep
  PROVE  SendInv'
<1> USE DEF SendInv, LateOf, SilentOf, UnspawnedOf
<1>0. /\ cur \in 0..MaxScans /\ driver \in [Scans -> DriverStates]
      /\ cfg \in [Scans -> ConfigType]
  BY DEF TypeInv, TypeOK, DriverTypeOK
<1>1. CASE Begin
  <2>1. \A s \in Scans : driver[s] \notin DriverLive
    BY <1>1 DEF Begin, StartReset, NoZombie, ThreadsLive
  <2>2. UNCHANGED <<driver, cfg, sent, late>> /\ cur' = cur + 1
    BY <1>1 DEF Begin, StartReset, driverVars
  <2>3. \A s \in Scans : s > cur' \/ s = cur' => s > cur
    BY <1>0, <2>2 DEF Scans
  <2>4. QED  BY <2>1, <2>2, <2>3
<1>2. CASE StartOpen \/ StartFail \/ Stop \/ Signal \/ DropSignal \/ DropJoined
  <2>1. UNCHANGED <<driver, cfg, sent, late, cur>> /\ (STOP => STOP')
    BY <1>2 DEF StartOpen, StartFail, Stop, Signal, DropSignal, DropJoined, RaiseStop,
                driverVars, handleVars
  <2>2. owner' = "starting" => owner = "starting"
    BY <1>2 DEF StartOpen, StartFail, Stop, Signal, DropSignal, DropJoined, handleVars
  <2>3. QED  BY <2>1, <2>2
<1>3. ASSUME NEW c \in Configs, StartSpawn(c) PROVE SendInv'
  <2>2. /\ driver' = [driver EXCEPT ![cur] = "start"] /\ cfg' = [cfg EXCEPT ![cur] = c]
        /\ UNCHANGED <<STOP, sent, late, cur>> /\ owner' = "held" /\ owner = "starting"
    BY <1>3 DEF StartSpawn
  <2>3. cur \in Scans => late[cur] = 0 /\ sent[cur] = 0
    BY <2>2
  <2>4. ASSUME NEW s \in Scans, s # cur PROVE LateOf(s)' /\ SilentOf(s)' /\ UnspawnedOf(s)'
    BY <1>0, <2>2, <2>4
  <2>5. cur \in Scans => LateOf(cur)' /\ SilentOf(cur)' /\ UnspawnedOf(cur)'
    BY <1>0, <2>2, <2>3
  <2>6. QED  BY <2>2, <2>4, <2>5
<1>4. QED
  BY <1>1, <1>2, <1>3 DEF OwnerStep, StartStep

LEMMA NextSend == TypeInv /\ NoZombie /\ SendInv /\ [Next]_vars => SendInv'
<1> SUFFICES ASSUME TypeInv, NoZombie, SendInv, [Next]_vars PROVE SendInv'
  OBVIOUS
<1>1. CASE ThreadNext
  <2>1. PICK r \in Scans :
          \/ DriverStep(r) /\ UNCHANGED handleVars
          \/ /\ (\E f \in Frames : Arrive(r, f)) \/ RxStep(r) \/ CollectorStep(r)
             /\ UNCHANGED <<driverVars, handleVars>>
    BY <1>1 DEF ThreadNext
  <2>2. CASE DriverStep(r) /\ UNCHANGED handleVars
    BY <2>2, DriverSends
  <2>3. CASE /\ (\E f \in Frames : Arrive(r, f)) \/ RxStep(r) \/ CollectorStep(r)
             /\ UNCHANGED <<driverVars, handleVars>>
    <3>1. UNCHANGED STOP
      BY <2>3 DEF Arrive, RxStep, RxCheck, RxRecv, RxTimeout, RxLeave, RxFlush, RxClose,
                  CollectorStep, CollectorApply, CollectorEnd
    <3>2. QED
      BY <2>3, <3>1 DEF SendInv, LateOf, SilentOf, UnspawnedOf, driverVars, handleVars
  <2>4. QED  BY <2>1, <2>2, <2>3
<1>2. CASE UNCHANGED vars
  BY <1>2 DEF vars, driverVars, handleVars, SendInv, LateOf, SilentOf, UnspawnedOf
<1>3. QED
  BY <1>1, <1>2, OwnerSend DEF Next, OwnerStep

LEMMA SendInvHolds == SafetySpec => []SendInv
<1>1. QED
  BY InitSend, NextSend, TypeCorrect, NoZombieHolds, PTL DEF SafetySpec

(* After STOP the driver sends at most the unit it had decided to send.    *)
THEOREM AtMostOneLateUnitHolds == SafetySpec => []AtMostOneLateUnit
<1>1. SendInv => AtMostOneLateUnit
  BY DEF SendInv, LateOf, AtMostOneLateUnit
<1>2. QED
  BY <1>1, SendInvHolds, PTL

(* A passive-only scan sends nothing, whatever else it is configured to.   *)
THEOREM SilentWhenPassiveHolds == SafetySpec => []SilentWhenPassive
<1>1. SendInv => SilentWhenPassive
  BY DEF SendInv, SilentOf, SilentWhenPassive
<1>2. QED
  BY <1>1, SendInvHolds, PTL

-----------------------------------------------------------------------------
(* The refinement: every step is one of the abstract stream, or stutters.  *)
IsOpen == [s \in Scans |-> coll[s] # "done"]

LEMMA StreamInit == Init => Stream!Init
  BY DEF Init, CaptureInit, Stream!Init

LEMMA SameCollSameOpen ==
  ASSUME \A s \in Scans : coll'[s] = "done" <=> coll[s] = "done"
  PROVE  IsOpen' = IsOpen
<1>1. IsOpen' = [s \in Scans |-> coll'[s] # "done"]
  BY DEF IsOpen
<1>2. \A s \in Scans : (coll'[s] # "done") = (coll[s] # "done")
  OBVIOUS
<1>3. QED  BY <1>1, <1>2, Zenon DEF IsOpen

LEMMA RecvDelivers ==
  ASSUME TypeInv, StreamConserved, NEW s \in Scans, RxRecv(s)
  PROVE  Stream!Next
<1>1. Head(queue[s]) \in Frames
  BY HeadTailProperties DEF RxRecv, TypeInv, TypeOK, CaptureTypeOK
<1>2. IsOpen' = IsOpen
  BY SameCollSameOpen DEF RxRecv
<1>3. IsOpen[s]
  BY DEF IsOpen, StreamConserved, RxRecv
<1>4. Stream!Deliver(s, Parse[Head(queue[s])])
  BY <1>2, <1>3 DEF Stream!Deliver, RxRecv, IsOpen
<1>5. QED  BY <1>1, <1>4 DEF Stream!Next

LEMMA ApplyFolds ==
  ASSUME TypeInv, StreamConserved, NEW s \in Scans, CollectorApply(s)
  PROVE  Stream!Next
<1>1. chan[s] \in Seq(Events) /\ inv[s] \in Seq(Events) /\ chan[s] # <<>>
  BY DEF TypeInv, TypeOK, CaptureTypeOK, CollectorApply
<1>2. captured[s] = inv[s] \o chan[s]
  BY DEF StreamConserved
<1>3. Len(chan[s]) \in Nat \ {0} /\ Len(inv[s]) \in Nat
  BY <1>1, EmptySeq, LenProperties
<1>4. /\ Len(inv[s]) < Len(captured[s])
      /\ captured[s][Len(inv[s]) + 1] = Head(chan[s])
  <2>1. Len(inv[s] \o chan[s]) = Len(inv[s]) + Len(chan[s])
    BY <1>1, ConcatProperties
  <2>2. /\ Len(inv[s]) + 1 \in 1..(Len(inv[s]) + Len(chan[s]))
        /\ Len(inv[s]) < Len(inv[s]) + Len(chan[s])
    <3>1. \A m \in Nat, n \in Nat \ {0} : m + 1 \in 1..(m + n) /\ m < m + n
      OBVIOUS
    <3>2. QED  BY <1>3, <3>1, Zenon
  <2>3. (inv[s] \o chan[s])[Len(inv[s]) + 1] = chan[s][1]
    <3>1. \A i \in 1..(Len(inv[s]) + Len(chan[s])) :
            (inv[s] \o chan[s])[i] = IF i <= Len(inv[s]) THEN inv[s][i]
                                     ELSE chan[s][i - Len(inv[s])]
      BY <1>1, ConcatProperties
    <3>2. ~(Len(inv[s]) + 1 <= Len(inv[s])) /\ (Len(inv[s]) + 1) - Len(inv[s]) = 1
      BY <1>3
    <3>3. QED  BY <2>2, <3>1, <3>2
  <2>4. Head(chan[s]) = chan[s][1]
    BY <1>1
  <2>5. QED  BY <1>2, <2>1, <2>2, <2>3, <2>4
<1>5. IsOpen' = IsOpen
  BY SameCollSameOpen DEF CollectorApply
<1>6. IsOpen[s]
  BY DEF IsOpen, CollectorApply
<1>7. inv' = [inv EXCEPT ![s] = Append(@, captured[s][Len(@) + 1])]
  BY <1>4 DEF CollectorApply
<1>8. Stream!Fold(s)
  BY <1>4, <1>5, <1>6, <1>7 DEF Stream!Fold, CollectorApply, IsOpen
<1>9. QED  BY <1>8 DEF Stream!Next

LEMMA EndCloses ==
  ASSUME TypeInv, StreamConserved, NEW s \in Scans, CollectorEnd(s)
  PROVE  Stream!Next
<1>0. coll \in [Scans -> CollStates]
  BY DEF TypeInv, TypeOK, CaptureTypeOK
<1>1. inv[s] \in Seq(Events)
  BY DEF TypeInv, TypeOK, CaptureTypeOK
<1>2. inv[s] = captured[s]
  BY <1>1, ConcatEmptySeq DEF StreamConserved, CollectorEnd
<1>3. IsOpen[s]
  BY DEF IsOpen, CollectorEnd
<1>4. IsOpen' = [IsOpen EXCEPT ![s] = FALSE]
  <2>1. IsOpen' = [t \in Scans |-> coll'[t] # "done"]
    BY DEF IsOpen
  <2>2. \A t \in Scans : t # s => coll'[t] = coll[t]
    BY <1>0 DEF CollectorEnd
  <2>3. coll'[s] = "done"
    BY <1>0 DEF CollectorEnd
  <2>4. [IsOpen EXCEPT ![s] = FALSE]
          = [t \in Scans |-> IF t = s THEN FALSE ELSE coll[t] # "done"]
    BY Zenon DEF IsOpen
  <2>5. \A t \in Scans : (coll'[t] # "done") = IF t = s THEN FALSE ELSE coll[t] # "done"
    BY <2>2, <2>3
  <2>6. QED  BY <2>1, <2>4, <2>5, Zenon
<1>5. Stream!Close(s)
  BY <1>2, <1>3, <1>4 DEF Stream!Close, CollectorEnd, IsOpen
<1>6. QED  BY <1>5 DEF Stream!Next

LEMMA OthersStutter ==
  ASSUME TypeInv, StreamConserved,
         UNCHANGED <<captured, inv>>,
         \/ UNCHANGED coll
         \/ \E c \in Configs : StartSpawn(c)
  PROVE  UNCHANGED Stream!vars
<1>0. coll \in [Scans -> CollStates]
  BY DEF TypeInv, TypeOK, CaptureTypeOK
<1>1. ASSUME NEW s \in Scans PROVE coll'[s] = "done" <=> coll[s] = "done"
  <2>1. CASE UNCHANGED coll
    BY <2>1
  <2>2. CASE \E c \in Configs : StartSpawn(c)
    <3>1. rx[cur] = "open" /\ coll' = [coll EXCEPT ![cur] = "run"]
      BY <2>2 DEF StartSpawn
    <3>2. s = cur => coll[s] # "done"
      BY <3>1 DEF StreamConserved
    <3>3. QED  BY <1>0, <3>1, <3>2
  <2>3. QED  BY <2>1, <2>2
<1>2. IsOpen' = IsOpen
  BY <1>1, SameCollSameOpen
<1>3. QED  BY <1>2 DEF Stream!vars, IsOpen

LEMMA NextRefines ==
  TypeInv /\ StreamConserved /\ [Next]_vars => [Stream!Next]_(Stream!vars)
<1> SUFFICES ASSUME TypeInv, StreamConserved, [Next]_vars
             PROVE  Stream!Next \/ UNCHANGED Stream!vars
  OBVIOUS
<1>1. CASE ThreadNext
  <2>1. PICK s \in Scans :
          \/ \E f \in Frames : Arrive(s, f)
          \/ RxStep(s)
          \/ CollectorStep(s)
          \/ UNCHANGED captureVars
    BY <1>1 DEF ThreadNext
  <2>2. CASE RxRecv(s)  BY <2>2, RecvDelivers
  <2>3. CASE CollectorApply(s)  BY <2>3, ApplyFolds
  <2>4. CASE CollectorEnd(s)  BY <2>4, EndCloses
  <2>5. CASE \/ \E f \in Frames : Arrive(s, f)
             \/ RxCheck(s) \/ RxTimeout(s) \/ RxLeave(s) \/ RxFlush(s) \/ RxClose(s)
             \/ UNCHANGED captureVars
    <3>1. UNCHANGED <<captured, inv, coll>>
      BY <2>5 DEF Arrive, RxCheck, RxTimeout, RxLeave, RxFlush, RxClose, captureVars
    <3>2. QED  BY <3>1, OthersStutter
  <2>6. QED  BY <2>1, <2>2, <2>3, <2>4, <2>5 DEF RxStep, CollectorStep
<1>2. CASE OwnerStep
  <2>1. /\ UNCHANGED <<captured, inv>>
        /\ UNCHANGED coll \/ \E c \in Configs : StartSpawn(c)
    BY <1>2 DEF OwnerStep, StartStep, Begin, StartReset, StartOpen, StartFail, StartSpawn, Stop,
                Signal, DropSignal, DropJoined, captureVars
  <2>2. QED  BY <2>1, OthersStutter
<1>3. CASE UNCHANGED vars
  <2>1. UNCHANGED <<captured, inv, coll>>
    BY <1>3 DEF vars, captureVars
  <2>2. QED  BY <2>1, OthersStutter
<1>4. QED
  BY <1>1, <1>2, <1>3 DEF Next, OwnerStep

(* The threads, the channel and the flag implement the event stream: the   *)
(* inventory follows the capture in order and is closed with nothing left. *)
THEOREM StreamSafetyHolds == SafetySpec => StreamSafety
<1>1. QED
  BY StreamInit, NextRefines, TypeCorrect, StreamConservedHolds, PTL
     DEF SafetySpec, StreamSafety, Stream!SafetySpec


-----------------------------------------------------------------------------
(* The place `run` has reached determines the state of its handle.         *)
MainOwner ==
  /\ main \in {"ready", "report", "gap", "exit"} => owner = "none"
  /\ main = "start" => owner = "starting"
  /\ main \in {"join", "findings"} => owner = "held"
  /\ main \in {"drop", "unwind"} => owner \in {"held", "dropping"}

LEMMA InitOwner == CliInit => MainOwner
  BY DEF CliInit, Init, MainOwner

LEMMA NextOwner == MainOwner /\ [CliNext]_allVars => MainOwner'
<1> SUFFICES ASSUME MainOwner, [CliNext]_allVars PROVE MainOwner'
  OBVIOUS
<1> USE DEF MainOwner, MainGoto
<1>1. CASE MainBegin  BY <1>1 DEF MainBegin, StartReset, vars, handleVars
<1>2. CASE MainStart
  BY <1>2 DEF MainStart, StartOpen, StartFail, StartSpawn, handleVars
<1>3. CASE MainJoin  BY <1>3 DEF MainJoin, vars, handleVars
<1>4. CASE MainFindings  BY <1>4 DEF MainFindings, vars, handleVars
<1>5. CASE MainDrop  BY <1>5 DEF MainDrop, DropSignal, DropJoined
<1>6. CASE MainReport  BY <1>6 DEF MainReport, vars, handleVars
<1>7. CASE Interrupt  BY <1>7 DEF Interrupt, Signal, handleVars
<1>8. CASE ThreadNext /\ UNCHANGED cliVars
  BY <1>8 DEF ThreadNext, cliVars, handleVars
<1>9. CASE UNCHANGED allVars
  BY <1>9 DEF allVars, cliVars, vars, handleVars
<1>10. QED
  BY <1>1, <1>2, <1>3, <1>4, <1>5, <1>6, <1>7, <1>8, <1>9 DEF CliNext, MainStep

(* `run` starts a scan only where it holds no handle: there each of its    *)
(* steps on a handle is one of a front end that never has two.             *)
LEMMA CliStepAllowed == MainOwner /\ [CliNext]_allVars => [Next]_vars
<1> SUFFICES ASSUME MainOwner, [CliNext]_allVars PROVE [Next]_vars
  OBVIOUS
<1>1. CASE MainBegin
  BY <1>1 DEF MainBegin, MainOwner, Begin, Next
<1>2. CASE MainStart \/ MainJoin \/ MainFindings \/ MainDrop \/ MainReport
  BY <1>2 DEF MainStart, MainJoin, MainFindings, MainDrop, MainReport, Next, StartStep
<1>3. CASE Interrupt
  BY <1>3 DEF Interrupt, Next
<1>4. CASE ThreadNext
  BY <1>4 DEF Next
<1>5. CASE UNCHANGED allVars
  BY <1>5 DEF allVars
<1>6. QED
  BY <1>1, <1>2, <1>3, <1>4, <1>5 DEF CliNext, MainStep

LEMMA CliUsesHandle == CliSafetySpec => SafetySpec
<1>1. CliInit => Init
  BY DEF CliInit
<1>2. QED
  BY <1>1, InitOwner, NextOwner, CliStepAllowed, PTL DEF CliSafetySpec, SafetySpec

(* However `run` ends, no thread is left and every handle was dropped.     *)
THEOREM ExitLeavesNothingHolds == CliSafetySpec => []ExitLeavesNothing
<1>1. CliSafetySpec => []MainOwner
  BY InitOwner, NextOwner, PTL DEF CliSafetySpec
<1>2. CliSafetySpec => []NoZombie
  BY CliUsesHandle, NoZombieHolds, PTL
<1>3. MainOwner /\ NoZombie => ExitLeavesNothing
  BY DEF MainOwner, NoZombie, ExitLeavesNothing
<1>4. QED
  BY <1>1, <1>2, <1>3, PTL

-----------------------------------------------------------------------------
(* Type correctness, from that of ScanHandle.                              *)
CliOwnType ==
  /\ main \in MainStates
  /\ watch \in BOOLEAN /\ interrupted \in BOOLEAN /\ reported \in BOOLEAN
  /\ lostThen \in Nat /\ warned \in Nat

LEMMA LostIsNat == TypeInv /\ owner # "none" /\ DropsInv => lost[cur] \in Nat
  BY CurIsScan DEF TypeInv, TypeOK, CaptureTypeOK, DropsInv

LEMMA NextCliType ==
  TypeInv /\ DropsInv /\ MainOwner /\ CliOwnType /\ [CliNext]_allVars => CliOwnType'
<1> SUFFICES ASSUME TypeInv, DropsInv, MainOwner, CliOwnType, [CliNext]_allVars
             PROVE  CliOwnType'
  OBVIOUS
<1> USE DEF CliOwnType, MainStates, MainGoto
<1>1. CASE MainBegin  BY <1>1 DEF MainBegin
<1>2. CASE MainStart  BY <1>2 DEF MainStart
<1>3. CASE MainJoin  BY <1>3 DEF MainJoin
<1>4. CASE MainFindings
  BY <1>4, LostIsNat DEF MainFindings, MainOwner
<1>5. CASE MainDrop  BY <1>5 DEF MainDrop
<1>6. CASE MainReport
  BY <1>6 DEF MainReport, TypeInv, TypeOK, CaptureTypeOK
<1>7. CASE Interrupt  BY <1>7 DEF Interrupt
<1>8. CASE UNCHANGED cliVars
  BY <1>8 DEF cliVars
<1>9. QED
  BY <1>1, <1>2, <1>3, <1>4, <1>5, <1>6, <1>7, <1>8 DEF CliNext, MainStep, allVars

(* What holds of the handle's part, for the command line.                  *)
HandleInv == TypeInv /\ NoZombie /\ DropsInv

LEMMA HandleInvHolds == CliSafetySpec => []HandleInv
<1>1. SafetySpec => []DropsInv
  BY InitDrops, NextDrops, TypeCorrect, NoZombieHolds, PTL DEF SafetySpec
<1>2. QED
  BY <1>1, CliUsesHandle, TypeCorrect, NoZombieHolds, PTL DEF HandleInv

LEMMA InitCliType == CliInit => CliOwnType
<1> SUFFICES ASSUME CliInit PROVE CliOwnType
  OBVIOUS
<1>1. watch \in BOOLEAN /\ interrupted \in BOOLEAN /\ reported \in BOOLEAN
  <2>1. FALSE \in BOOLEAN
    OBVIOUS
  <2>2. QED  BY <2>1, Zenon DEF CliInit
<1>2. main \in MainStates /\ lostThen \in Nat /\ warned \in Nat
  BY DEF CliInit, MainStates
<1>3. QED  BY <1>1, <1>2 DEF CliOwnType

LEMMA CliOwnHolds == CliSafetySpec => []MainOwner /\ []CliOwnType
<1>1. CliSafetySpec => []MainOwner
  BY InitOwner, NextOwner, PTL DEF CliSafetySpec
<1>2. QED
  BY <1>1, InitCliType, NextCliType, HandleInvHolds, PTL DEF CliSafetySpec, HandleInv

(* The variables of the front end and of its handle have their types.      *)
THEOREM CliTypeCorrect == CliSafetySpec => []CliTypeOK
<1>1. HandleInv /\ CliOwnType => CliTypeOK
  BY DEF HandleInv, TypeInv, CliOwnType, CliTypeOK
<1>2. QED
  BY <1>1, CliOwnHolds, HandleInvHolds, PTL

-----------------------------------------------------------------------------
(* The warning.  As long as Ctrl-C was not pressed, STOP is down while the *)
(* handle is held, so the rx thread is still inside its loop when the      *)
(* findings are taken: its last read of the counters comes afterwards.     *)
StillCapturing ==
  /\ (owner \in {"starting", "held"} /\ ~interrupted) => ~STOP
  /\ (owner = "held" /\ ~interrupted) => rx[cur] \in {"check", "recv"}

Covered == 
  /\ main = "drop" => lostThen <= lost[cur]
  /\ (main = "drop" /\ ~interrupted /\ rx[cur] \in {"close", "done"})
       => lostThen <= KERNEL_DROPS
  /\ (main = "report" /\ ~interrupted) => lostThen <= KERNEL_DROPS
  /\ WarningCoversReport

WarnInv == StillCapturing /\ Covered

LEMMA InitWarn == CliInit => WarnInv
  BY DEF CliInit, Init, WarnInv, StillCapturing, Covered, WarningCoversReport

LEMMA ArriveWarn ==
  ASSUME HandleInv, CliOwnType, WarnInv, NEW s \in Scans, NEW f \in Frames, Arrive(s, f),
         UNCHANGED <<handleVars, cliVars>>
  PROVE  WarnInv'
<1>0. lost \in [Scans -> Nat] /\ lostThen \in Nat
  BY DEF HandleInv, TypeInv, TypeOK, CaptureTypeOK, CliOwnType
<1>1. UNCHANGED <<STOP, rx, KERNEL_DROPS, owner, cur, cliVars>>
  BY DEF Arrive, handleVars
<1>2. s = cur
  BY DEF Arrive, HandleInv, DropsInv
<1>3. lost[cur] \in Nat /\ (lost'[cur] = lost[cur] \/ lost'[cur] = lost[cur] + 1)
  BY <1>0, <1>2 DEF Arrive, Enqueue, Overflow
<1>4. StillCapturing'
  BY <1>1 DEF WarnInv, StillCapturing, cliVars
<1>5. (main = "drop" => lostThen <= lost[cur])'
  <2>1. main = "drop" => lostThen <= lost'[cur]
    BY <1>0, <1>3 DEF WarnInv, Covered
  <2>2. QED  BY <1>1, <2>1 DEF cliVars
<1>6. QED
  BY <1>1, <1>4, <1>5 DEF WarnInv, Covered, WarningCoversReport, cliVars

LEMMA RxWarn ==
  ASSUME HandleInv, CliOwnType, WarnInv, NEW s \in Scans, RxStep(s),
         UNCHANGED <<handleVars, cliVars>>
  PROVE  WarnInv'
<1>0. /\ rx \in [Scans -> RxStates] /\ drops \in [Scans -> Nat] /\ lost \in [Scans -> Nat]
      /\ KERNEL_DROPS \in Nat /\ lostThen \in Nat
  BY DEF HandleInv, TypeInv, TypeOK, CaptureTypeOK, CliOwnType
<1>1. s = cur /\ owner \in {"held", "dropping"}
  BY DEF RxStep, RxCheck, RxRecv, RxTimeout, RxLeave, RxFlush, RxClose, RxLive,
         HandleInv, NoZombie, ThreadsLive
<1>2. UNCHANGED <<STOP, lost, owner, cur, cliVars>>
  BY DEF RxStep, RxCheck, RxRecv, RxTimeout, RxLeave, RxFlush, RxClose, handleVars
<1>3. KERNEL_DROPS' \in Nat /\ KERNEL_DROPS <= KERNEL_DROPS'
  <2>1. ReadStats(s) \/ KERNEL_DROPS' = KERNEL_DROPS
    BY DEF RxStep, RxCheck, RxRecv, RxTimeout, RxLeave, RxFlush, RxClose
  <2>2. drops[s] \in Nat
    BY <1>0
  <2>3. QED  BY <1>0, <2>1, <2>2 DEF ReadStats
<1>4. ~STOP => (rx[s] \in {"check", "recv"} => rx'[s] \in {"check", "recv"})
  BY <1>0 DEF RxStep, RxCheck, RxRecv, RxTimeout, RxLeave, RxFlush, RxClose
<1>5. StillCapturing'
  BY <1>1, <1>2, <1>4 DEF WarnInv, StillCapturing, cliVars
<1>6. ASSUME main = "drop", ~interrupted, rx'[cur] \in {"close", "done"}
      PROVE  lostThen <= KERNEL_DROPS'
  <2>1. lostThen <= lost[cur] /\ lost[cur] \in Nat
    BY <1>0, <1>1, <1>6 DEF WarnInv, Covered
  <2>2. CASE RxFlush(s)
    <3>1. KERNEL_DROPS' = lost[cur]
      BY <1>1, <2>2 DEF RxFlush, ReadStats, HandleInv, DropsInv
    <3>2. QED  BY <2>1, <3>1
  <2>3. CASE RxClose(s)
    BY <1>0, <1>1, <1>3, <1>6, <2>3 DEF RxClose, WarnInv, Covered
  <2>4. rx'[cur] \in {"close", "done"} => RxFlush(s) \/ RxClose(s)
    BY <1>0, <1>1 DEF RxStep, RxCheck, RxRecv, RxTimeout, RxLeave
  <2>5. QED  BY <1>6, <2>2, <2>3, <2>4
<1>7. ASSUME main = "report", ~interrupted PROVE lostThen <= KERNEL_DROPS'
  BY <1>0, <1>3, <1>7 DEF WarnInv, Covered
<1>8. Covered'
  BY <1>2, <1>6, <1>7 DEF WarnInv, Covered, WarningCoversReport, cliVars
<1>9. QED  BY <1>5, <1>8 DEF WarnInv

LEMMA MainWarn ==
  ASSUME HandleInv, MainOwner, CliOwnType, WarnInv, MainStep
  PROVE  WarnInv'
<1> USE DEF WarnInv, StillCapturing, Covered, WarningCoversReport, MainGoto
<1>0. /\ rx \in [Scans -> RxStates] /\ lost \in [Scans -> Nat] /\ TypeOK
      /\ owner # "none" => cur # 0
  BY DEF HandleInv, TypeInv, TypeOK, CaptureTypeOK, DropsInv
<1>1. CASE MainBegin
  BY <1>1 DEF MainBegin, StartReset, vars, captureVars, handleVars
<1>2. CASE MainStart
  <2>1. main = "start" /\ owner = "starting" /\ cur \in Scans
    BY <1>0, <1>2, CurIsScan DEF MainStart, MainOwner
  <2>2. /\ UNCHANGED <<interrupted, reported, lostThen, warned, STOP, cur>>
        /\ main' \in {"start", "exit", "join"}
    BY <1>2 DEF MainStart, StartOpen, StartFail, StartSpawn, handleVars
  <2>3. owner' = "held" => rx'[cur] = "check"
    BY <1>0, <1>2, <2>1 DEF MainStart, StartOpen, StartFail, StartSpawn, handleVars
  <2>4. QED  BY <2>1, <2>2, <2>3
<1>3. CASE MainJoin  BY <1>3 DEF MainJoin, vars, captureVars, handleVars
<1>4. CASE MainFindings
  <2>1. owner = "held" /\ lost[cur] \in Nat
    BY <1>4, LostIsNat DEF MainFindings, MainOwner, HandleInv
  <2>2. /\ UNCHANGED <<STOP, rx, lost, KERNEL_DROPS, owner, cur, interrupted>>
        /\ main' = "drop" /\ lostThen' = lost[cur] /\ reported' = FALSE
    BY <1>4 DEF MainFindings, vars, captureVars, handleVars
  <2>3. QED  BY <2>1, <2>2
<1>5. CASE MainDrop
  BY <1>5 DEF MainDrop, DropSignal, DropJoined, captureVars
<1>6. CASE MainReport  BY <1>6 DEF MainReport, MainOwner, vars, captureVars, handleVars
<1>7. QED
  BY <1>1, <1>2, <1>3, <1>4, <1>5, <1>6 DEF MainStep

LEMMA NextWarn ==
  HandleInv /\ MainOwner /\ CliOwnType /\ WarnInv /\ [CliNext]_allVars => WarnInv'
<1> SUFFICES ASSUME HandleInv, MainOwner, CliOwnType, WarnInv, [CliNext]_allVars
             PROVE  WarnInv'
  OBVIOUS
<1>1. CASE MainStep  BY <1>1, MainWarn
<1>2. CASE Interrupt
  BY <1>2 DEF Interrupt, Signal, captureVars, handleVars, WarnInv, StillCapturing,
              Covered, WarningCoversReport
<1>3. CASE ThreadNext /\ UNCHANGED cliVars
  <2>1. PICK s \in Scans :
          \/ (\E f \in Frames : Arrive(s, f)) /\ UNCHANGED <<handleVars, cliVars>>
          \/ RxStep(s) /\ UNCHANGED <<handleVars, cliVars>>
          \/ CollectorStep(s) /\ UNCHANGED <<handleVars, cliVars>>
          \/ DriverStep(s) /\ UNCHANGED <<captureVars, handleVars, cliVars>>
    BY <1>3 DEF ThreadNext
  <2>2. CASE CollectorStep(s) /\ UNCHANGED <<handleVars, cliVars>>
    BY <2>2 DEF CollectorStep, CollectorApply, CollectorEnd, handleVars, cliVars, WarnInv,
                StillCapturing, Covered, WarningCoversReport
  <2>3. CASE DriverStep(s) /\ UNCHANGED <<captureVars, handleVars, cliVars>>
    <3>1. UNCHANGED STOP
      BY <2>3 DEF DriverStep, DriverPassive, DriverWake, DriverGate, DriverPing, DriverTargets,
                  DriverSweep, DriverBlock, DriverPass, DriverSend, DriverWindow, DriverFinish
    <3>2. QED
      BY <2>3, <3>1 DEF captureVars, handleVars, cliVars, WarnInv, StillCapturing, Covered,
                        WarningCoversReport
  <2>4. QED  BY <2>1, <2>2, <2>3, ArriveWarn, RxWarn
<1>4. CASE UNCHANGED allVars
  BY <1>4 DEF allVars, vars, captureVars, handleVars, cliVars, WarnInv, StillCapturing,
              Covered, WarningCoversReport
<1>5. QED  BY <1>1, <1>2, <1>3, <1>4 DEF CliNext

(* No report is printed without a warning for the frames lost before its   *)
(* findings were taken, unless Ctrl-C was pressed.                         *)
THEOREM WarningCoversReportHolds == CliSafetySpec => []WarningCoversReport
<1>1. CliSafetySpec => []WarnInv
  BY CliOwnHolds, InitWarn, NextWarn, HandleInvHolds, PTL DEF CliSafetySpec
<1>2. WarnInv => WarningCoversReport
  BY DEF WarnInv, Covered
<1>3. QED  BY <1>1, <1>2, PTL


-----------------------------------------------------------------------------
(* Types of the front end, and where in `launch` its request stands.       *)
TuiOwnType ==
  /\ ui \in {"loop", "drop", "start", "quit", "leave", "exit"}
  /\ mode \in {"keys", "editing", "perm"}
  /\ form \in Forms
  /\ request \in Configs \cup {NoConfig}
  /\ shown \in [scan : 0..MaxScans, seen : Nat]

(* The place the UI thread has reached determines the state of its handle. *)
UiOwner ==
  /\ ui \in {"loop", "quit"} => owner \in {"none", "held"}
  /\ ui = "drop" => owner \in {"held", "dropping"}
  /\ ui = "start" => owner \in {"none", "starting"}
  /\ ui = "leave" => owner \in {"none", "held", "dropping"}
  /\ ui = "exit" => owner = "none"
  /\ owner = "starting" => request # NoConfig

PlaceInv == TuiOwnType /\ UiOwner

(* The form is in order for Asked, and stays so.                           *)
LEMMA AskedAreConfigs ==
  ASSUME form \in Forms
  PROVE  Asked \subseteq Configs \cup {NoConfig}
  BY TuiAssumption DEF Asked, FormType

-----------------------------------------------------------------------------
(* The interface starts a scan only where UiOwner says it has no handle:   *)
(* there its steps are those of a front end that never has two.            *)
LEMMA TuiStepAllowed == PlaceInv /\ [TuiNext]_appVars => [Next]_vars
<1> SUFFICES ASSUME PlaceInv, [TuiNext]_appVars PROVE [Next]_vars
  OBVIOUS
<1>1. CASE Keys
  BY <1>1 DEF Keys, Edit, Cancel, Quit, TerminalFails, Launch, Next, vars
<1>2. CASE LaunchStart
  <2>1. CASE StartSpawn(request)
    <3>1. request \in Configs
      BY <2>1 DEF PlaceInv, TuiOwnType, UiOwner, StartSpawn
    <3>2. QED  BY <2>1, <3>1 DEF Next, StartStep
  <2>2. CASE StartOpen \/ StartFail \/ UNCHANGED vars
    BY <2>2 DEF Next, StartStep
  <2>3. CASE StartReset
    BY <1>2, <2>3 DEF PlaceInv, UiOwner, LaunchStart, StartReset, Begin, Next
  <2>4. QED  BY <1>2, <2>1, <2>2, <2>3 DEF LaunchStart
<1>3. CASE Refresh \/ LaunchDrop \/ QuitCancels \/ Leave
  BY <1>3 DEF Refresh, LaunchDrop, QuitCancels, Leave, Next
<1>4. CASE ThreadNext
  BY <1>4 DEF Next
<1>5. CASE UNCHANGED appVars
  BY <1>5 DEF appVars
<1>6. QED
  BY <1>1, <1>2, <1>3, <1>4, <1>5 DEF TuiNext, Works

LEMMA InitPlace == TuiInit => PlaceInv
  BY MaxScansAssumption DEF TuiInit, Init, PlaceInv, TuiOwnType, UiOwner, Nothing

(* Thread and kernel leave the handle alone, whatever else they do.        *)
LEMMA ThreadKeepsHandle == ThreadNext => UNCHANGED handleVars
  BY DEF ThreadNext

(* The place of the front end is proved together with what holds of the    *)
(* handle: types of the table rest on those of the inventory, and the      *)
(* handle's on a client that uses it correctly.                            *)
LEMMA HeldIsScan ==
  ASSUME HandleInv, owner # "none"
  PROVE  cur \in Scans /\ cur # 0 /\ inv \in [Scans -> Seq(Events)]
  BY CurIsScan DEF HandleInv, TypeInv, TypeOK, CaptureTypeOK, DropsInv

LEMMA NextPlace == HandleInv /\ PlaceInv /\ [TuiNext]_appVars => PlaceInv'
<1> SUFFICES ASSUME HandleInv, PlaceInv, [TuiNext]_appVars PROVE PlaceInv'
  OBVIOUS
<1> USE DEF PlaceInv, TuiOwnType, UiOwner
<1>1. CASE Edit  BY <1>1 DEF Edit, vars, handleVars
<1>2. CASE Cancel  BY <1>2 DEF Cancel, Stop, handleVars, tuiVars
<1>3. CASE Quit \/ TerminalFails
  BY <1>3 DEF Quit, TerminalFails, vars, handleVars
<1>4. CASE Launch
  <2>1. request' \in Configs \cup {NoConfig}
    BY <1>4, AskedAreConfigs DEF Launch
  <2>2. QED  BY <1>4, <2>1 DEF Launch, vars, handleVars
<1>5. CASE Refresh
  <2>1. cur \in Scans /\ inv \in [Scans -> Seq(Events)]
    BY <1>5, HeldIsScan DEF Refresh
  <2>2. shown' \in [scan : 0..MaxScans, seen : Nat]
    BY <1>5, <2>1 DEF Refresh, Latest, Scans
  <2>3. QED  BY <1>5, <2>2 DEF Refresh, vars, handleVars
<1>6. CASE LaunchDrop
  BY <1>6 DEF LaunchDrop, DropSignal, DropJoined
<1>7. CASE LaunchStart
  <2>1. Nothing \in [scan : 0..MaxScans, seen : Nat]
    BY MaxScansAssumption DEF Nothing
  <2>2. CASE /\ request # NoConfig /\ UNCHANGED <<ui, mode, form, request, shown>>
             /\ StartReset \/ StartOpen
    BY <1>7, <2>2 DEF LaunchStart, StartReset, StartOpen, handleVars
  <2>3. CASE /\ ui' = "loop" /\ request' = NoConfig /\ UNCHANGED <<form, mode, shown>>
             /\ request = NoConfig /\ UNCHANGED vars
    BY <1>7, <2>3 DEF LaunchStart, vars, handleVars
  <2>4. CASE /\ ui' = "loop" /\ request' = NoConfig /\ UNCHANGED <<form, shown>>
             /\ StartFail /\ mode' \in {"keys", "perm"}
    BY <2>4 DEF StartFail
  <2>5. CASE /\ ui' = "loop" /\ request' = NoConfig /\ UNCHANGED <<form, mode>>
             /\ StartSpawn(request) /\ shown' = Nothing
    BY <2>1, <2>5 DEF StartSpawn
  <2>6. QED  BY <1>7, <2>2, <2>3, <2>4, <2>5 DEF LaunchStart
<1>8. CASE QuitCancels
  BY <1>8 DEF QuitCancels, Stop, vars, handleVars
<1>9. CASE Leave
  BY <1>9 DEF Leave, DropSignal, DropJoined, vars, handleVars
<1>10. CASE ThreadNext /\ UNCHANGED tuiVars
  BY <1>10, ThreadKeepsHandle DEF tuiVars, handleVars
<1>11. CASE UNCHANGED appVars
  BY <1>11 DEF appVars, tuiVars, vars, handleVars
<1>12. QED
  BY <1>1, <1>2, <1>3, <1>4, <1>5, <1>6, <1>7, <1>8, <1>9, <1>10, <1>11
     DEF TuiNext, Keys, Works

LEMMA BaseHolds == TuiSafetySpec => [](HandleInv /\ PlaceInv)
<1>1. TuiInit => HandleInv /\ PlaceInv
  BY InitType, InitNoZombie, InitDrops, InitPlace DEF TuiInit, HandleInv
<1>2. HandleInv /\ PlaceInv /\ [TuiNext]_appVars => (HandleInv /\ PlaceInv)'
  BY TuiStepAllowed, NextType, NextNoZombie, NextDrops, NextPlace DEF HandleInv
<1>3. QED
  BY <1>1, <1>2, PTL DEF TuiSafetySpec

(* Whatever keys are pressed when, no thread of a scan is alive once the   *)
(* next one is being started: the old handle is dropped before.            *)
THEOREM TuiNoZombieHolds == TuiSafetySpec => []NoZombie
<1>1. QED
  BY BaseHolds, PTL DEF HandleInv

(* The variables of the interface and of its handle have their types.      *)
THEOREM TuiTypeCorrect == TuiSafetySpec => []TuiTypeOK
<1>1. HandleInv /\ PlaceInv => TuiTypeOK
  BY DEF HandleInv, TypeInv, PlaceInv, TuiOwnType, TuiTypeOK
<1>2. QED
  BY <1>1, BaseHolds, PTL

(* However the interface ends, no thread is left and no handle undropped.  *)
THEOREM TuiLeavesNothingHolds == TuiSafetySpec => []TuiLeavesNothing
<1>1. HandleInv /\ PlaceInv => TuiLeavesNothing
  BY DEF HandleInv, NoZombie, PlaceInv, UiOwner, TuiLeavesNothing
<1>2. QED
  BY <1>1, BaseHolds, PTL

-----------------------------------------------------------------------------
(* What threads and kernel do to the parts of a scan the interface sees:   *)
(* a driver that has ended stays so and none comes to life, configurations *)
(* stay, and an inventory only grows.                                      *)
Mellows ==
  /\ UNCHANGED <<owner, cur, cfg>>
  /\ \A s \in Scans : /\ driver[s] \in DriverEnded => driver'[s] \in DriverEnded
                      /\ driver[s] # "off" => driver'[s] # "off"
                      /\ driver'[s] \in DriverLive => driver[s] \in DriverLive
                      /\ Len(inv[s]) \in Nat /\ Len(inv'[s]) \in Nat
                      /\ Len(inv[s]) <= Len(inv'[s])

LEMMA SameMellows ==
  ASSUME TypeInv, UNCHANGED <<owner, cur, cfg, driver, inv>>
  PROVE  Mellows
<1>1. inv \in [Scans -> Seq(Events)]
  BY DEF TypeInv, TypeOK, CaptureTypeOK
<1>2. \A s \in Scans : Len(inv[s]) \in Nat /\ Len(inv[s]) <= Len(inv[s])
  BY <1>1
<1>3. QED  BY <1>2 DEF Mellows

LEMMA ThreadMellows ==
  ASSUME TypeInv, ThreadNext
  PROVE  Mellows
<1>1. PICK r \in Scans :
        \/ \E f \in Frames : Arrive(r, f) /\ UNCHANGED <<driverVars, handleVars>>
        \/ RxStep(r) /\ UNCHANGED <<driverVars, handleVars>>
        \/ CollectorStep(r) /\ UNCHANGED <<driverVars, handleVars>>
        \/ DriverStep(r) /\ UNCHANGED <<captureVars, handleVars>>
  BY DEF ThreadNext
<1>2. /\ inv \in [Scans -> Seq(Events)] /\ chan \in [Scans -> Seq(Events)]
      /\ driver \in [Scans -> DriverStates]
  BY DEF TypeInv, TypeOK, CaptureTypeOK, DriverTypeOK
<1>3. CASE /\ UNCHANGED <<driverVars, handleVars>>
           /\ (\E f \in Frames : Arrive(r, f)) \/ RxStep(r) \/ CollectorEnd(r)
  <2>1. UNCHANGED inv
    BY <1>3 DEF Arrive, RxStep, RxCheck, RxRecv, RxTimeout, RxLeave, RxFlush, RxClose,
                CollectorEnd
  <2>2. QED  BY <1>3, <2>1, SameMellows DEF driverVars, handleVars
<1>4. CASE UNCHANGED <<driverVars, handleVars>> /\ CollectorApply(r)
  <2>1. Head(chan[r]) \in Events
    BY <1>2, <1>4, HeadTailProperties DEF CollectorApply
  <2>2. inv' = [inv EXCEPT ![r] = Append(@, Head(chan[r]))]
    BY <1>4 DEF CollectorApply
  <2>3. ASSUME NEW s \in Scans
        PROVE  Len(inv[s]) \in Nat /\ Len(inv'[s]) \in Nat /\ Len(inv[s]) <= Len(inv'[s])
    <3>1. CASE s = r
      <4>1. inv'[s] = Append(inv[s], Head(chan[r])) /\ inv[s] \in Seq(Events)
        BY <1>2, <2>2, <3>1
      <4>2. Len(inv'[s]) = Len(inv[s]) + 1 /\ Len(inv[s]) \in Nat
        BY <2>1, <4>1
      <4>3. QED  BY <4>2
    <3>2. CASE s # r
      BY <1>2, <2>2, <3>2
    <3>3. QED  BY <3>1, <3>2
  <2>4. UNCHANGED <<driver, cfg, owner, cur>>
    BY <1>4 DEF driverVars, handleVars
  <2>5. QED  BY <2>3, <2>4 DEF Mellows
<1>5. CASE DriverStep(r) /\ UNCHANGED <<captureVars, handleVars>>
  <2>1. /\ driver[r] \in DriverLive /\ UNCHANGED cfg
        /\ \E state \in DriverLive \cup DriverEnded : driver' = [driver EXCEPT ![r] = state]
    BY <1>5 DEF DriverStep, DriverPassive, DriverWake, DriverGate, DriverPing,
                DriverTargets, DriverSweep, DriverBlock, DriverPass, DriverSend,
                DriverWindow, DriverFinish, Goto, SweepUnchanged, DriverLive, DriverEnded
  <2>2. UNCHANGED <<inv, owner, cur>>
    BY <1>5 DEF captureVars, handleVars
  <2>3. \A s \in Scans : Len(inv[s]) \in Nat /\ Len(inv[s]) <= Len(inv[s])
    BY <1>2
  <2>4. \A s \in Scans : /\ driver[s] \in DriverEnded => driver'[s] \in DriverEnded
                         /\ driver[s] # "off" => driver'[s] # "off"
                         /\ driver'[s] \in DriverLive => driver[s] \in DriverLive
    BY <1>2, <2>1 DEF DriverLive, DriverEnded
  <2>5. QED  BY <2>1, <2>2, <2>3, <2>4 DEF Mellows
<1>6. QED
  BY <1>1, <1>3, <1>4, <1>5 DEF CollectorStep

-----------------------------------------------------------------------------
(* The driver of a held handle has been spawned; one whose handle `launch` *)
(* drops has ended.  The form is locked from the key that asks for a scan  *)
(* to the end of that scan.                                                *)
Spawned == owner \in {"held", "dropping"} => driver[cur] # "off"

AsForm(c) == c \in {form.config, Single(form.config)}

FormLocked ==
  /\ mode = "editing" => ~Running /\ ui \notin {"drop", "start"}
  /\ ui \in {"drop", "start"} /\ request # NoConfig => AsForm(request)
  /\ FormIsRunning

LaunchInv == Spawned /\ LaunchNeverWaits /\ FormLocked

LEMMA InitLaunch == TuiInit => LaunchInv
  BY DEF TuiInit, Init, LaunchInv, Spawned, LaunchNeverWaits, FormLocked, FormIsRunning,
         Running, AsForm

LEMMA MellowsLaunch ==
  ASSUME HandleInv, PlaceInv, LaunchInv, Mellows, UNCHANGED tuiVars
  PROVE  LaunchInv'
<1> USE DEF LaunchInv, Spawned, LaunchNeverWaits, FormLocked, FormIsRunning, Running,
            AsForm, Mellows, tuiVars
<1>1. CASE owner = "none" /\ ui # "drop"
  BY <1>1
<1>2. CASE owner # "none"
  BY <1>2, HeldIsScan
<1>3. QED  BY <1>1, <1>2 DEF PlaceInv, UiOwner

LEMMA NextLaunch == HandleInv /\ PlaceInv /\ LaunchInv /\ [TuiNext]_appVars => LaunchInv'
<1> SUFFICES ASSUME HandleInv, PlaceInv, LaunchInv, [TuiNext]_appVars PROVE LaunchInv'
  OBVIOUS
<1> USE DEF LaunchInv, Spawned, LaunchNeverWaits, FormLocked, FormIsRunning, Running, AsForm
<1>0. driver \in [Scans -> DriverStates] /\ cfg \in [Scans -> ConfigType]
  BY DEF HandleInv, TypeInv, TypeOK, DriverTypeOK
<1>1. CASE Edit  BY <1>1 DEF Edit, vars, driverVars, handleVars
<1>2. CASE Cancel  BY <1>2 DEF Cancel, Stop, driverVars, handleVars, tuiVars
<1>3. CASE Quit \/ TerminalFails
  BY <1>3 DEF Quit, TerminalFails, vars, driverVars, handleVars
<1>4. CASE Launch
  <2>1. request' # NoConfig => AsForm(request')
    BY <1>4 DEF Launch, Asked
  <2>2. owner = "held" => driver[cur] \in DriverEnded
    BY <1>0, <1>4, HeldIsScan DEF Launch, DriverStates
  <2>3. QED
    BY <1>4, <2>1, <2>2 DEF Launch, vars, driverVars, handleVars
<1>5. CASE Refresh
  BY <1>5 DEF Refresh, vars, driverVars, handleVars
<1>6. CASE LaunchDrop
  BY <1>6 DEF LaunchDrop, DropSignal, DropJoined, driverVars
<1>7. CASE LaunchStart
  <2>1. CASE /\ UNCHANGED <<ui, mode, form, request>>
             /\ StartReset \/ StartOpen
    BY <1>7, <2>1 DEF LaunchStart, StartReset, StartOpen, driverVars, handleVars
  <2>2. CASE /\ ui' = "loop" /\ UNCHANGED <<form, mode>> /\ UNCHANGED vars
    BY <1>7, <2>2 DEF LaunchStart, vars, driverVars, handleVars
  <2>3. CASE /\ ui' = "loop" /\ UNCHANGED form
             /\ StartFail /\ mode' \in {"keys", "perm"}
    BY <2>3 DEF StartFail, driverVars
  <2>4. CASE /\ ui' = "loop" /\ UNCHANGED <<form, mode>> /\ StartSpawn(request)
    <3>1. cur \in Scans /\ owner = "starting"
      BY <2>4, HeldIsScan DEF StartSpawn
    <3>2. AsForm(request) /\ mode # "editing"
      BY <1>7, <3>1 DEF LaunchStart, PlaceInv, UiOwner
    <3>3. cfg'[cur] = request /\ driver'[cur] = "start" /\ owner' = "held" /\ cur' = cur
      BY <1>0, <2>4, <3>1 DEF StartSpawn
    <3>4. QED  BY <2>4, <3>2, <3>3
  <2>5. QED  BY <1>7, <2>1, <2>2, <2>3, <2>4 DEF LaunchStart
<1>8. CASE QuitCancels
  BY <1>8 DEF QuitCancels, Stop, vars, driverVars, handleVars
<1>9. CASE Leave
  BY <1>9 DEF Leave, DropSignal, DropJoined, vars, driverVars, handleVars
<1>10. CASE ThreadNext /\ UNCHANGED tuiVars
  BY <1>10, ThreadMellows, MellowsLaunch DEF HandleInv
<1>11. CASE UNCHANGED appVars
  BY <1>11 DEF appVars, tuiVars, vars, driverVars, handleVars
<1>12. QED
  BY <1>1, <1>2, <1>3, <1>4, <1>5, <1>6, <1>7, <1>8, <1>9, <1>10, <1>11
     DEF TuiNext, Keys, Works

LEMMA LaunchHolds == TuiSafetySpec => []LaunchInv
  BY BaseHolds, InitLaunch, NextLaunch, PTL DEF TuiSafetySpec

(* A handle is dropped by `launch` only after its driver has ended: the    *)
(* interface waits for two short joins, not for a sweep.                   *)
THEOREM LaunchNeverWaitsHolds == TuiSafetySpec => []LaunchNeverWaits
<1>1. LaunchInv => LaunchNeverWaits
  BY DEF LaunchInv
<1>2. QED  BY <1>1, LaunchHolds, PTL

(* The form shows what the running scan was started with.                  *)
THEOREM FormIsRunningHolds == TuiSafetySpec => []FormIsRunning
<1>1. LaunchInv => FormIsRunning
  BY DEF LaunchInv, FormLocked
<1>2. QED  BY <1>1, LaunchHolds, PTL

-----------------------------------------------------------------------------
(* The table is empty or of some scan that has been started, of the latest *)
(* one while its handle exists, and reflects no more than was collected.   *)
TableInv ==
  /\ owner \in {"held", "dropping"} => shown.scan \in {0, cur}
  /\ shown.scan <= cur
  /\ shown.scan = 0 => shown.seen = 0
  /\ cur # 0 /\ shown.scan = cur => shown.seen <= Len(inv[cur])

LEMMA InitTable == TuiInit => TableInv
  BY DEF TuiInit, Init, Nothing, TableInv

(* Steps that leave both the table and the number of the scan alone.       *)
LEMMA SameTable ==
  ASSUME HandleInv, PlaceInv, TableInv, UNCHANGED <<shown, cur>>,
         owner' \in {"held", "dropping"} => owner \in {"held", "dropping"},
         \A s \in Scans : /\ Len(inv[s]) \in Nat /\ Len(inv'[s]) \in Nat
                         /\ Len(inv[s]) <= Len(inv'[s])
  PROVE  TableInv'
<1>1. shown.seen \in Nat /\ shown.scan \in Nat
  BY DEF PlaceInv, TuiOwnType
<1>2. cur # 0 => cur \in Scans
  BY CurIsScan DEF HandleInv, TypeInv
<1>3. QED
  BY <1>1, <1>2 DEF TableInv

LEMMA NextTable ==
  ASSUME HandleInv, PlaceInv, TableInv, [TuiNext]_appVars
  PROVE  /\ TableInv'
         /\ shown' # shown =>
               \/ shown' = Nothing /\ owner = "starting" /\ owner' = "held"
               \/ shown'.scan = cur /\ shown'.seen >= shown.seen /\ shown.scan \in {0, cur}
<1>0. /\ inv \in [Scans -> Seq(Events)] /\ cur \in Nat
      /\ shown.seen \in Nat /\ shown.scan \in Nat
  BY MaxScansAssumption DEF HandleInv, TypeInv, TypeOK, CaptureTypeOK, PlaceInv, TuiOwnType
<1>1. \A s \in Scans : Len(inv[s]) \in Nat /\ Len(inv[s]) <= Len(inv[s])
  BY <1>0
<1>2. CASE /\ UNCHANGED <<shown, cur, inv>>
           /\ owner' \in {"held", "dropping"} => owner \in {"held", "dropping"}
  BY <1>1, <1>2, SameTable
<1>3. CASE Edit \/ Cancel \/ Quit \/ TerminalFails \/ Launch \/ LaunchDrop \/ QuitCancels
           \/ Leave \/ UNCHANGED appVars
  <2>1. /\ UNCHANGED <<shown, cur, inv>>
        /\ owner' \in {"held", "dropping"} => owner \in {"held", "dropping"}
    BY <1>3 DEF Edit, Cancel, Quit, TerminalFails, Launch, LaunchDrop, QuitCancels, Leave,
                Stop, DropSignal, DropJoined, appVars, tuiVars, vars, captureVars, handleVars
  <2>2. QED  BY <1>2, <2>1
<1>4. CASE Refresh
  <2>1. /\ owner = "held" /\ cur \in Scans /\ cur # 0 /\ UNCHANGED <<owner, cur, inv>>
        /\ shown' = [scan |-> cur, seen |-> Len(inv[cur])]
    BY <1>4, HeldIsScan DEF Refresh, Latest, vars, captureVars, handleVars
  <2>2. Len(inv[cur]) \in Nat /\ shown.seen <= Len(inv[cur]) /\ shown.scan \in {0, cur}
    BY <1>0, <1>1, <2>1 DEF TableInv
  <2>3. QED  BY <1>0, <2>1, <2>2 DEF TableInv
<1>5. CASE LaunchStart
  <2>1. CASE StartReset /\ UNCHANGED shown
    <3>1. cur' = cur + 1 /\ owner' = "starting"
      BY <2>1 DEF StartReset
    <3>2. shown.scan < cur'
      BY <1>0, <3>1 DEF TableInv
    <3>3. QED  BY <1>0, <2>1, <3>1, <3>2 DEF TableInv
  <2>2. CASE UNCHANGED shown /\ (StartOpen \/ StartFail \/ UNCHANGED vars)
    <3>1. /\ UNCHANGED <<shown, cur, inv>>
          /\ owner' \in {"held", "dropping"} => owner \in {"held", "dropping"}
      BY <2>2 DEF StartOpen, StartFail, vars, captureVars, handleVars
    <3>2. QED  BY <1>2, <3>1
  <2>3. CASE StartSpawn(request) /\ shown' = Nothing
    <3>1. owner = "starting" /\ owner' = "held" /\ UNCHANGED <<cur, inv>>
      BY <2>3 DEF StartSpawn
    <3>2. QED  BY <1>0, <2>3, <3>1 DEF TableInv, Nothing
  <2>4. QED  BY <1>5, <2>1, <2>2, <2>3 DEF LaunchStart
<1>6. CASE ThreadNext /\ UNCHANGED tuiVars
  <2>1. Mellows /\ UNCHANGED shown
    BY <1>6, ThreadMellows DEF HandleInv, tuiVars
  <2>2. TableInv'
    BY <2>1, SameTable DEF Mellows
  <2>3. QED  BY <2>1, <2>2
<1>7. QED
  BY <1>3, <1>4, <1>5, <1>6 DEF TuiNext, Keys, Works

(* Neither cancelling nor a start that fails takes anything off the table, *)
(* and no table mixes two scans.                                           *)
THEOREM TableGrowsHolds == TuiSafetySpec => TableGrows
<1>1. TuiSafetySpec => []TableInv
  <2>1. HandleInv /\ PlaceInv /\ TableInv /\ [TuiNext]_appVars => TableInv'
    BY NextTable
  <2>2. QED  BY <2>1, BaseHolds, InitTable, PTL DEF TuiSafetySpec
<1>2. HandleInv /\ PlaceInv /\ TableInv /\ [TuiNext]_appVars =>
        [shown' # shown =>
           \/ shown' = Nothing /\ owner = "starting" /\ owner' = "held"
           \/ shown'.scan = cur /\ shown'.seen >= shown.seen
                                /\ shown.scan \in {0, cur}]_appVars
  BY NextTable
<1>3. QED  BY <1>1, <1>2, BaseHolds, PTL DEF TuiSafetySpec, TableGrows
=============================================================================
