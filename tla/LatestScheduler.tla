--------------------------- MODULE LatestScheduler ---------------------------
(***************************************************************************)
(* apps/desktop/src/state_tasks/scheduler.rs: one worker thread, one       *)
(* mutex, one condition variable.  Each action is one critical section: a  *)
(* thread runs from taking the mutex to releasing it or to sleeping on the *)
(* condition variable.  notify_all moves the sleepers back to their test;  *)
(* the condition variable may also wake a sleeper for no reason.           *)
(***************************************************************************)
EXTENDS Naturals

CONSTANTS Callers,       \* threads that hold a reference to the scheduler
          MaxRequests,   \* bound on the number of schedule calls
          None

Request == 1..MaxRequests      \* the n-th schedule call brings request n

ASSUME SchedulerAssumption == MaxRequests \in Nat /\ None \notin Request

VARIABLES next, running, closed,   \* struct Queue, guarded by the mutex
          worker,                  \* where the worker thread is
          taken,                   \* the worker's local `request`
          caller,                  \* where each caller of finish_pending is
          issued                   \* schedule calls so far

vars == <<next, running, closed, worker, taken, caller, issued>>
queue == <<next, running, closed>>

WorkerPlace == {"check", "asleep", "work", "done", "exited"}
CallerPlace == {"idle", "check", "asleep"}

TypeOK == /\ next \in Request \cup {None}
          /\ closed \in BOOLEAN
          /\ worker \in WorkerPlace
          /\ running \in BOOLEAN
          /\ running <=> worker \in {"work", "done"}
          /\ taken \in (IF worker = "work" THEN Request ELSE {None})
          /\ caller \in [Callers -> CallerPlace]
          /\ issued \in 0..MaxRequests

Init == /\ next = None
        /\ running = FALSE
        /\ closed = FALSE
        /\ worker = "check"
        /\ taken = None
        /\ caller = [c \in Callers |-> "idle"]
        /\ issued = 0

Awake(place) == IF place = "asleep" THEN "check" ELSE place

\* changed.notify_all(), for a section that moves nobody else.
NotifyAll == /\ worker' = Awake(worker)
             /\ caller' = [c \in Callers |-> Awake(caller[c])]

\* Wrong variants of the sections below stand before them, each the way a bug
\* would make it; the properties at the end must refute every one.

\* The callers and the job the worker runs may schedule.
Schedule == /\ ~closed
            /\ issued < MaxRequests
            /\ issued' = issued + 1
            /\ next' = issued + 1
            /\ NotifyAll
            /\ UNCHANGED <<running, closed, taken>>

InvalidateQuietly == /\ ~closed
                     /\ next' = None
                     /\ UNCHANGED <<running, closed, worker, caller, taken, issued>>

InvalidatePending == /\ ~closed
                     /\ next' = None
                     /\ NotifyAll
                     /\ UNCHANGED <<running, closed, taken, issued>>

\* A caller enters finish_pending; it has not taken the mutex yet.
FinishPending(c) == /\ ~closed
                    /\ caller[c] = "idle"
                    /\ caller' = [caller EXCEPT ![c] = "check"]
                    /\ UNCHANGED <<queue, worker, taken, issued>>

Busy == running \/ next # None

BarrierSleep(c) == /\ caller[c] = "check"
                   /\ Busy
                   /\ caller' = [caller EXCEPT ![c] = "asleep"]
                   /\ UNCHANGED <<queue, worker, taken, issued>>

BarrierReturn(c) == /\ caller[c] = "check"
                    /\ ~Busy
                    /\ caller' = [caller EXCEPT ![c] = "idle"]
                    /\ UNCHANGED <<queue, worker, taken, issued>>

WorkerSleep == /\ worker = "check"
               /\ next = None
               /\ ~closed
               /\ worker' = "asleep"
               /\ UNCHANGED <<queue, taken, caller, issued>>

WorkerExit == /\ worker = "check"
              /\ closed
              /\ worker' = "exited"
              /\ UNCHANGED <<queue, taken, caller, issued>>

WorkerTakeUnmarked == /\ worker = "check"
                      /\ next # None
                      /\ ~closed
                      /\ taken' = next
                      /\ next' = None
                      /\ worker' = "work"
                      /\ UNCHANGED <<running, closed, caller, issued>>

WorkerTakeCopies == /\ worker = "check"
                    /\ next # None
                    /\ ~closed
                    /\ running' = TRUE
                    /\ taken' = next
                    /\ worker' = "work"
                    /\ UNCHANGED <<next, closed, caller, issued>>

WorkerTake == /\ worker = "check"
              /\ next # None
              /\ ~closed
              /\ running' = TRUE
              /\ taken' = next
              /\ next' = None
              /\ worker' = "work"
              /\ UNCHANGED <<closed, caller, issued>>

\* worker(request) returns: its result is applied, the barrier still holds.
WorkerApply == /\ worker = "work"
               /\ worker' = "done"
               /\ taken' = None
               /\ UNCHANGED <<queue, caller, issued>>

WorkerReleaseQuietly == /\ worker = "done"
                        /\ running' = FALSE
                        /\ worker' = "check"
                        /\ UNCHANGED <<next, closed, caller, taken, issued>>

WorkerRelease == /\ worker = "done"
                 /\ running' = FALSE
                 /\ worker' = "check"
                 /\ caller' = [c \in Callers |-> Awake(caller[c])]
                 /\ UNCHANGED <<next, closed, taken, issued>>

\* A condition variable may wake a sleeper without a notification.
SpuriousWake == \/ /\ worker = "asleep"
                   /\ worker' = "check"
                   /\ UNCHANGED <<queue, taken, caller, issued>>
                \/ \E c \in Callers :
                     /\ caller[c] = "asleep"
                     /\ caller' = [caller EXCEPT ![c] = "check"]
                     /\ UNCHANGED <<queue, worker, taken, issued>>

\* The last reference goes away, so no caller is inside finish_pending.
Drop == /\ ~closed
        /\ \A c \in Callers : caller[c] = "idle"
        /\ closed' = TRUE
        /\ next' = None
        /\ NotifyAll
        /\ UNCHANGED <<running, taken, issued>>

\* After the worker has exited nothing is left to happen.
Ended == worker = "exited" /\ UNCHANGED vars

Caller(c) == FinishPending(c) \/ BarrierSleep(c) \/ BarrierReturn(c)
Worker == \/ WorkerSleep \/ WorkerExit \/ WorkerTake
          \/ WorkerApply \/ WorkerRelease

Next == \/ Schedule
        \/ InvalidatePending
        \/ \E c \in Callers : Caller(c)
        \/ Worker
        \/ SpuriousWake
        \/ Drop
        \/ Ended

\* The operating system runs every thread that is able to run; nobody is
\* obliged to schedule, to invalidate, to wait or to drop.
Fairness == /\ WF_vars(Worker)
            /\ \A c \in Callers : WF_vars(BarrierSleep(c) \/ BarrierReturn(c))

Spec == Init /\ [][Next]_vars
FairSpec == Spec /\ Fairness
-----------------------------------------------------------------------------
(***************************************************************************)
(* Correctness.                                                            *)
(***************************************************************************)

\* Nobody sleeps through what it waits for: a sleeping worker has no request
\* and has not been told to stop, and a caller sleeps in finish_pending only
\* while something is running or pending (the notify_all calls).
NoLostWakeup == /\ worker = "asleep" => next = None /\ ~closed
                /\ \A c \in Callers : caller[c] = "asleep" => Busy

\* finish_pending returns only once every accepted request has been applied,
\* replaced or withdrawn ("applies its result before releasing the barrier").
BarrierMeansApplied ==
  [][\A c \in Callers : caller[c] # "idle" /\ caller'[c] = "idle" =>
       next = None /\ taken = None]_vars

\* The request the worker takes is never older than one it took before, and
\* it is the last one scheduled (line 12: one replaceable pending request).
\* A scheduler that was dropped takes none.
NewestOnly == [][taken' \notin {None, taken} => taken' = issued /\ ~closed]_vars

\* The scheduler does what a latest-request scheduler promises.
Promise == INSTANCE LatestRequest WITH pending <- next, active <- taken
PromiseSpec == Promise!Spec

\* Once scheduling stops, a caller of finish_pending is let through: it may
\* lead to the UI thread holding the authoring lock.
BarrierReturns == \A c \in Callers : caller[c] # "idle" ~> caller[c] = "idle"
=============================================================================
