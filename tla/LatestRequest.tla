---------------------------- MODULE LatestRequest ----------------------------
(***************************************************************************)
(* What a latest-request scheduler promises, with no threads in it: at     *)
(* most one request is active, at most one waits, and a newer request      *)
(* replaces the one that waits.  LatestScheduler (mutex and condition      *)
(* variable) implements this; WorkingCopy uses it for its project checks.  *)
(***************************************************************************)
CONSTANTS Request, None

VARIABLES pending,    \* the request that waits, or None
          active      \* the request being run, or None

vars == <<pending, active>>

TypeOK == /\ pending \in Request \cup {None}
          /\ active \in Request \cup {None}

Init == pending = None /\ active = None

Idle == pending = None /\ active = None

Schedule(r) == pending' = r /\ UNCHANGED active

\* Also what dropping the scheduler does to it: nobody schedules after that.
Invalidate == pending' = None /\ UNCHANGED active

Start == /\ active = None
         /\ pending # None
         /\ active' = pending
         /\ pending' = None

Finish == active # None /\ active' = None /\ UNCHANGED pending

Next == \/ \E r \in Request : Schedule(r)
        \/ Invalidate
        \/ Start
        \/ Finish

Spec == Init /\ [][Next]_vars
=============================================================================
