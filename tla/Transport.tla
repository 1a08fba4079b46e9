------------------------------- MODULE Transport -------------------------------
(***************************************************************************)
(* What plays on a Donder controller: firmware/esp32/src/transport.rs and  *)
(* the requests that reach it (loader_control.rs, bin/loader.rs).          *)
(*                                                                         *)
(* A run is one decision of the editor to take an action at a position of  *)
(* the show when its clock reaches a deadline.  The runs are numbered as   *)
(* they are decided; plan[r] holds the action and the time left, which     *)
(* passes on every clock alike: the editor's, and a controller's estimate  *)
(* of it.                                                                  *)
(***************************************************************************)
EXTENDS Integers, Sequences

CONSTANTS Controllers, None,
          Dark, Ended, Looping,   \* the modes of a controller without a run
          MaxRuns,         \* decisions
          Lead,            \* time from a decision to its deadline
          Late,            \* a command is refused with less time left
          Cutoff,          \* a cancellation is refused with no more time left
          MaxCommand       \* command ids; the code has 2^32

Kinds == {"Play", "Pause", "Stop"}
Marks == {Dark, Ended, Looping}
Runs == 1..MaxRuns

ASSUME TransportAssumption ==
  /\ Cutoff \in Nat /\ Late \in Nat /\ Lead \in Nat
  /\ Cutoff < Late /\ Late <= Lead
  /\ MaxCommand \in Nat /\ MaxRuns \in Nat
  /\ None \notin Runs \cup Marks
  /\ Runs \cap Marks = {}

VARIABLES transport,   \* what each controller holds
          plan,        \* the action of each run and the time to its deadline
          over         \* the runs that have reached the end of the sequence

\* show: the loaded show, the editor's or another; boot: the boot identity.
State == [show : {None, "other", "ours"}, clock : BOOLEAN, boot : Nat,
          mode : Marks \cup Runs, pending : Runs \cup {None},
          command : 0..MaxCommand]

TransportTypeOK == /\ transport \in [Controllers -> State]
                   /\ plan \in Seq([kind : Kinds, left : 0..Lead])
                   /\ Len(plan) <= MaxRuns
                   /\ over \subseteq Runs
-----------------------------------------------------------------------------
Due(r) == plan[r].left = 0

\* Stop blacks out; Play and Pause show the run's frames.
ModeOf(r) == IF plan[r].kind = "Stop" THEN Dark ELSE r

\* Transport::apply
Applied(t, mode) == [t EXCEPT !.mode = mode, !.pending = None]

IsDue(t) == t.pending # None /\ Due(t.pending)

AppliedDue(t) == IF IsDue(t) THEN Applied(t, ModeOf(t.pending)) ELSE t

\* What the outputs show: a due command counts before the next refresh.
Mode(c) == LET mode == AppliedDue(transport[c]).mode
           IN  IF mode \in over THEN Ended ELSE mode
-----------------------------------------------------------------------------
(***************************************************************************)
(* Requests, as what they leave of the controller's state.                 *)
(***************************************************************************)
Loaded(t) == t.show # None

\* A Schedule command as the editor sends it.
Command(r, id, boot) == [run |-> r, id |-> id, boot |-> boot]

Accepts(t, m) ==
  /\ t.show = "ours"
  /\ m.boot = t.boot /\ t.clock
  /\ plan[m.run].left >= Late
  /\ m.id > t.command

ScheduledOnce(t, m) ==
  IF Accepts(t, m)
    THEN [t EXCEPT !.pending = IF @ = None THEN m.run ELSE @, !.command = m.id]
    ELSE t

Scheduled(t, m) ==
  IF Accepts(t, m) THEN [t EXCEPT !.pending = m.run, !.command = m.id] ELSE t

\* The id of the pending command is the last one that was accepted.
Cancels(t, id) ==
  /\ t.pending # None
  /\ t.command = id
  /\ plan[t.pending].left > Cutoff

Cancelled(t, id) == IF Cancels(t, id) THEN [t EXCEPT !.pending = None] ELSE t

\* stop_loaded: POST /transport/stop when a show is loaded
Stopped(t) == IF Loaded(t) THEN Applied(t, Dark) ELSE t

Synchronized(t) == [t EXCEPT !.clock = TRUE]

\* A show that was admitted starts with a new Transport.
Uploaded(t, show) ==
  [t EXCEPT !.show = show, !.mode = Dark, !.pending = None, !.command = 0]

\* The clock and the transport are new; the saved show is restored, stopped, if
\* it can be read.
Restarted(t, show) ==
  [show |-> show, clock |-> FALSE, boot |-> t.boot + 1, mode |-> Dark,
   pending |-> None, command |-> 0]

Set(c, t) == transport' = [transport EXCEPT ![c] = t]
-----------------------------------------------------------------------------
(***************************************************************************)
(* What happens on a controller by itself.                                 *)
(***************************************************************************)
\* Transport::refresh, once for every frame
Refreshed(t) ==
  LET due == AppliedDue(t)
  IN  IF due.mode \in over THEN Applied(due, Ended) ELSE due

Refresh(c) == /\ Refreshed(transport[c]) # transport[c]
              /\ Set(c, Refreshed(transport[c]))
              /\ UNCHANGED <<plan, over>>

\* "Loop saved show", or the controller's own HTTP interface.
Standalone(c) == /\ Loaded(transport[c])
                 /\ \E mode \in {Looping, Dark} :
                      Set(c, Applied(transport[c], mode))
                 /\ UNCHANGED <<plan, over>>

Tick == /\ \E r \in DOMAIN plan : ~Due(r)
        /\ plan' = [r \in DOMAIN plan |->
                      [plan[r] EXCEPT !.left = IF @ = 0 THEN 0 ELSE @ - 1]]
        /\ UNCHANGED <<transport, over>>
=============================================================================
