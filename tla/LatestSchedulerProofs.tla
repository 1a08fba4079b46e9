------------------------ MODULE LatestSchedulerProofs ------------------------
(***************************************************************************)
(* LatestScheduler for any set of callers and any number of requests.      *)
(*                                                                         *)
(* Inv adds to the types and to NoLostWakeup what the newest request needs:*)
(* the one that waits is the last one scheduled.                           *)
(***************************************************************************)
EXTENDS LatestScheduler, TLAPS

PendingIsNewest == next # None => next = issued

Inv == TypeOK /\ NoLostWakeup /\ PendingIsNewest

\* Nothing is scheduled, nothing runs and nobody sleeps at the start.
LEMMA InitInv == Init => Inv
<1> SUFFICES ASSUME Init PROVE Inv
  OBVIOUS
<1> USE SchedulerAssumption DEF SchedulerAssumption, Init
<1>1. TypeOK
  <2>1. running \in BOOLEAN /\ closed \in BOOLEAN
    BY Zenon
  <2> QED
    BY <2>1 DEF TypeOK, Request, WorkerPlace, CallerPlace
<1>2. NoLostWakeup /\ PendingIsNewest
  BY DEF NoLostWakeup, PendingIsNewest
<1> QED
  BY <1>1, <1>2 DEF Inv

\* Every critical section keeps the types: the worker holds a request exactly
\* while it works, and the barrier is up from taking to releasing.
LEMMA TypeStep == TypeOK /\ [Next]_vars => TypeOK'
<1> SUFFICES ASSUME TypeOK, [Next]_vars PROVE TypeOK'
  OBVIOUS
<1> USE SchedulerAssumption
    DEF SchedulerAssumption, TypeOK, Request, WorkerPlace, CallerPlace, Awake,
        NotifyAll, queue
<1>1. CASE Schedule
  BY <1>1 DEF Schedule
<1>2. CASE InvalidatePending
  BY <1>2 DEF InvalidatePending
<1>3. CASE WorkerSleep
  BY <1>3 DEF WorkerSleep
<1>4. CASE WorkerExit
  BY <1>4 DEF WorkerExit
<1>5. CASE WorkerTake
  BY <1>5 DEF WorkerTake
<1>6. CASE WorkerApply
  BY <1>6 DEF WorkerApply
<1>7. CASE WorkerRelease
  BY <1>7 DEF WorkerRelease
<1>8. ASSUME NEW c \in Callers, Caller(c) PROVE TypeOK'
  BY <1>8 DEF Caller, FinishPending, BarrierSleep, BarrierReturn
<1>9. CASE SpuriousWake
  BY <1>9 DEF SpuriousWake
<1>10. CASE Drop
  BY <1>10 DEF Drop
<1>11. CASE Ended \/ UNCHANGED vars
  BY <1>11 DEF Ended, vars
<1> QED
  BY <1>1, <1>2, <1>3, <1>4, <1>5, <1>6, <1>7, <1>8, <1>9, <1>10,
     <1>11 DEF Next, Worker

\* Whoever changes what a sleeper waits for wakes it, and scheduling replaces
\* the request that waits.
LEMMA InvStep == Inv /\ [Next]_vars => Inv'
<1> SUFFICES ASSUME Inv, [Next]_vars PROVE Inv'
  OBVIOUS
<1>0. TypeOK /\ TypeOK' /\ NoLostWakeup /\ PendingIsNewest
  BY TypeStep DEF Inv
<1> SUFFICES NoLostWakeup' /\ PendingIsNewest'
  BY <1>0 DEF Inv
<1> USE <1>0, SchedulerAssumption
    DEF SchedulerAssumption, TypeOK, Request, NoLostWakeup, PendingIsNewest, Busy,
        Awake, NotifyAll, queue
<1>1. CASE Schedule
  BY <1>1 DEF Schedule
<1>2. CASE InvalidatePending
  BY <1>2 DEF InvalidatePending
<1>3. CASE WorkerSleep
  BY <1>3 DEF WorkerSleep
<1>4. CASE WorkerExit
  BY <1>4 DEF WorkerExit
<1>5. CASE WorkerTake
  BY <1>5 DEF WorkerTake
<1>6. CASE WorkerApply
  BY <1>6 DEF WorkerApply
<1>7. CASE WorkerRelease
  BY <1>7 DEF WorkerRelease
<1>8. ASSUME NEW c \in Callers, Caller(c)
     PROVE  NoLostWakeup' /\ PendingIsNewest'
  BY <1>8 DEF Caller, FinishPending, BarrierSleep, BarrierReturn
<1>9. CASE SpuriousWake
  BY <1>9 DEF SpuriousWake
<1>10. CASE Drop
  BY <1>10 DEF Drop
<1>11. CASE Ended \/ UNCHANGED vars
  BY <1>11 DEF Ended, vars
<1> QED
  BY <1>1, <1>2, <1>3, <1>4, <1>5, <1>6, <1>7, <1>8, <1>9, <1>10,
     <1>11 DEF Next, Worker

\* Inv holds throughout.
THEOREM Invariance == Spec => []Inv
<1>1. Init => Inv
  BY InitInv
<1>2. Inv /\ [Next]_vars => Inv'
  BY InvStep
<1> QED
  BY <1>1, <1>2, PTL DEF Spec

\* The types: in particular the worker holds a request exactly while `running`
\* says that finish_pending must wait.
THEOREM TypeCorrect == Spec => []TypeOK
<1>1. Inv => TypeOK
  BY DEF Inv
<1> QED
  BY <1>1, Invariance, PTL

\* No wakeup is lost, however many threads wait at the barrier.
THEOREM NoWakeupIsLost == Spec => []NoLostWakeup
<1>1. Inv => NoLostWakeup
  BY DEF Inv
<1> QED
  BY <1>1, Invariance, PTL

\* finish_pending returns over an empty queue and an idle worker.
THEOREM BarrierHolds == Spec => BarrierMeansApplied
<1>1. TypeOK /\ [Next]_vars =>
        [\A c \in Callers : caller[c] # "idle" /\ caller'[c] = "idle" =>
           next = None /\ taken = None]_vars
  <2> SUFFICES ASSUME TypeOK, Next,
                      NEW c \in Callers, caller[c] # "idle", caller'[c] = "idle"
               PROVE  next = None /\ taken = None
    BY DEF vars
  <2> USE DEF TypeOK, Awake, NotifyAll
  <2>1. ~(Schedule \/ InvalidatePending \/ Worker \/ SpuriousWake \/ Drop \/ Ended)
    BY DEF Schedule, InvalidatePending, Worker, WorkerSleep, WorkerExit, WorkerTake,
           WorkerApply, WorkerRelease, SpuriousWake, Drop, Ended, vars
  <2>2. PICK d \in Callers : Caller(d)
    BY <2>1 DEF Next
  <2>3. BarrierReturn(d)
    BY <2>2 DEF Caller, FinishPending, BarrierSleep
  <2> QED
    BY <2>3 DEF BarrierReturn, Busy
<1> QED
  BY <1>1, TypeCorrect, PTL DEF Spec, BarrierMeansApplied

\* The worker takes the last request scheduled, and none once it was dropped.
THEOREM TakesTheNewest == Spec => NewestOnly
<1>1. Inv /\ [Next]_vars =>
        [taken' \notin {None, taken} => taken' = issued /\ ~closed]_vars
  <2> SUFFICES ASSUME Inv, Next, taken' \notin {None, taken}
               PROVE  taken' = issued /\ ~closed
    BY DEF vars
  <2>1. WorkerTake
    BY DEF Next, Schedule, InvalidatePending, Caller, FinishPending, BarrierSleep,
           BarrierReturn, Worker, WorkerSleep, WorkerExit, WorkerApply,
           WorkerRelease, SpuriousWake, Drop, Ended, vars
  <2> QED
    BY <2>1 DEF WorkerTake, Inv, PendingIsNewest
<1> QED
  BY <1>1, Invariance, PTL DEF Spec, NewestOnly

\* One mutex, one condition variable and one thread implement the scheduler
\* that LatestRequest describes: every critical section is one of its steps or
\* changes nothing it speaks of.
THEOREM ImplementsPromise == Spec => PromiseSpec
<1>1. Init => Promise!Init
  BY DEF Init, Promise!Init
<1>2. TypeOK /\ TypeOK' /\ [Next]_vars => [Promise!Next]_(Promise!vars)
  <2> SUFFICES ASSUME TypeOK, TypeOK', [Next]_vars
               PROVE  Promise!Next \/ UNCHANGED <<next, taken>>
    BY DEF Promise!vars
  <2> USE SchedulerAssumption DEF SchedulerAssumption, TypeOK
  <2>1. CASE Schedule
    <3>1. issued + 1 \in Request
      BY <2>1 DEF Schedule, Request
    <3> QED
      BY <2>1, <3>1 DEF Schedule, Promise!Next, Promise!Schedule
  <2>2. CASE InvalidatePending \/ Drop
    BY <2>2 DEF InvalidatePending, Drop, Promise!Next, Promise!Invalidate
  <2>3. CASE WorkerTake
    BY <2>3 DEF WorkerTake, Promise!Next, Promise!Start
  <2>4. CASE WorkerApply
    BY <2>4 DEF WorkerApply, Request, queue, Promise!Next, Promise!Finish
  <2>5. CASE WorkerSleep \/ WorkerExit \/ WorkerRelease \/ SpuriousWake \/ Ended
    BY <2>5 DEF WorkerSleep, WorkerExit, WorkerRelease, SpuriousWake, Ended, queue, vars
  <2>6. ASSUME NEW c \in Callers, Caller(c) PROVE UNCHANGED <<next, taken>>
    BY <2>6 DEF Caller, FinishPending, BarrierSleep, BarrierReturn, queue
  <2>7. CASE UNCHANGED vars
    BY <2>7 DEF vars
  <2> QED
    BY <2>1, <2>2, <2>3, <2>4, <2>5, <2>6, <2>7 DEF Next, Worker
<1> QED
  BY <1>1, <1>2, TypeCorrect, PTL DEF Spec, PromiseSpec, Promise!Spec
=============================================================================
