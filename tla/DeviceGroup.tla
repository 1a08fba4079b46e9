------------------------------ MODULE DeviceGroup ------------------------------
(***************************************************************************)
(* The editor plays a sequence on several Donder controllers and its own   *)
(* audio (apps/desktop/src/device/playback.rs, desktop_state/              *)
(* device_playback.rs).  It asks one controller after the other, over HTTP,*)
(* while their clocks run on and their rendering goes on by itself.        *)
(*                                                                         *)
(* A request is answered, or its answer is lost, or the request is.  A     *)
(* controller may restart, or be commanded by hand, at any step.           *)
(***************************************************************************)
EXTENDS Transport, FiniteSets

CONSTANTS Local,           \* what the audio plays without controllers
          Spare,           \* every acknowledgment is needed this long before
          MaxFaults        \* failed exchanges, restarts, commands by hand and
                           \* changes of the setup or of an address

ASSUME GroupAssumption == Spare \in Nat /\ Late < Spare /\ Spare <= Lead
                           /\ MaxFaults \in Nat
                           /\ Local \notin Runs \cup {None}

VARIABLES bindings,        \* the controllers that the editor drives
          uploaded,        \* those that took its show since they were bound
          failures,        \* those that it released, with the reason
          warned,          \* those that its last error names
          audio,           \* the run that the audio plays and the one it holds at
          operation,       \* the transport operation under way
          group,           \* history: the run in force and who acknowledged it
          disturbed,       \* history: who restarted or was commanded by hand since
          faults           \* history: how much went wrong or was changed

desktop == <<bindings, uploaded, failures, warned, audio, group>>
controllers == <<transport, plan, over>>
vars == <<controllers, desktop, operation, disturbed, faults>>

Steps == {"bind", "prepare", "ready", "aim", "send", "confirm", "cancel", "act",
          "sleep", "release"}
Operation == [step : Steps, kind : Kinds, todo : SUBSET Controllers,
              sample : [Controllers -> [id : 0..MaxCommand, boot : Nat]],
              run : Runs \cup {None}, commands : SUBSET Controllers,
              failed : SUBSET Controllers]

ASSUME OperationAssumption == None \notin Operation

TypeOK == /\ TransportTypeOK
          /\ bindings \subseteq Controllers
          /\ uploaded \subseteq bindings
          /\ failures \subseteq Controllers
          /\ warned \subseteq Controllers
          /\ audio \in [run : Runs \cup {None, Local}, hold : Runs \cup {None}]
          /\ operation \in Operation \cup {None}
          /\ group \in [run : Runs \cup {None}, members : SUBSET Controllers]
          /\ disturbed \subseteq Controllers
          /\ faults \in 0..MaxFaults
-----------------------------------------------------------------------------
(***************************************************************************)
(* The transport operation lock: one operation at a time, one run at most   *)
(* for each.                                                               *)
(***************************************************************************)
Idle == operation = None
Free == Idle /\ Len(plan) < MaxRuns
At(step) == ~Idle /\ operation.step = step
Playing == audio.run # None

NoSample == [c \in Controllers |-> [id |-> 0, boot |-> 0]]

Operating(step, kind, todo) ==
  [step |-> step, kind |-> kind, todo |-> todo, sample |-> NoSample, run |-> None,
   commands |-> {}, failed |-> {}]

Begins(step, kind, todo) == operation' = Operating(step, kind, todo)

\* The operation goes through the controllers one by one.
Turn(step, c) == At(step) /\ c \in operation.todo
Done(step) == At(step) /\ operation.todo = {}
Passes(c) == operation' = [operation EXCEPT !.todo = @ \ {c}]
Continues(step) == operation' = [operation EXCEPT !.step = step, !.todo = bindings]

Fault == faults < MaxFaults /\ faults' = faults + 1
NoFault == UNCHANGED faults

\* A request that changes the controller's state from t to u reaches it or not.
Reaches(t, u) == {t, u}

\* What was known of the controller goes with its binding.
Forgets(c) == /\ uploaded' = uploaded \ {c}
              /\ group' = [group EXCEPT !.members = @ \ {c}]

\* The binding is dropped; a stop is tried first.
Releases(c, t) ==
  /\ \E u \in Reaches(t, Stopped(t)) : Set(c, u)
  /\ bindings' = bindings \ {c}
  /\ Forgets(c)

Silence == [run |-> None, hold |-> None]
Nobody == [run |-> None, members |-> {}]
-----------------------------------------------------------------------------
(***************************************************************************)
(* Play, a change of speed or a wrap, Pause, seek and Stop.                *)
(***************************************************************************)
\* Play looks at every controller first, and connects what is not connected
\* yet; the failures are those of this turn.
Play == /\ Free /\ ~Playing
        /\ failures' = {}
        /\ Begins("bind", "Play", Controllers)
        /\ UNCHANGED <<controllers, bindings, uploaded, warned, audio, group,
                        disturbed>>

\* The same when a controller appears while nothing plays.
Connect == /\ Idle /\ ~Playing
           /\ failures' = {}
           /\ Begins("bind", "Stop", Controllers)
           /\ UNCHANGED <<controllers, bindings, uploaded, warned, audio, group,
                          disturbed>>

\* The controllers and the audio start again together at a new deadline.
Reschedule == /\ Free /\ Playing /\ bindings # {}
              /\ Begins("ready", "Play", bindings)
              /\ UNCHANGED <<controllers, desktop, disturbed>>

\* Pause and Stop prepare the sequence unless it plays.
Hold(kind) == /\ Free /\ bindings # {}
              /\ Begins(IF Playing THEN "ready" ELSE "prepare", kind, bindings)
              /\ UNCHANGED <<controllers, desktop, disturbed>>

\* The controller stops its show and takes the editor's clock.
Binds(c) ==
  \/ /\ Set(c, Synchronized(Stopped(transport[c])))
     /\ bindings' = bindings \cup {c}
     /\ Forgets(c) /\ UNCHANGED failures
     /\ IF c \in bindings THEN Fault ELSE NoFault
  \/ /\ Fault
     /\ \E u \in {transport[c], Stopped(transport[c]), Synchronized(Stopped(transport[c]))} :
          Set(c, u)
     /\ bindings' = bindings \ {c}
     /\ Forgets(c) /\ failures' = failures \cup {c}

\* sync: a binding is kept; it is released when the setup wants the controller
\* no more or the network has lost it.  Where there is none, or the address or
\* the ports are others, the controller is bound.  One that is not wanted stays as
\* it is.
Bind(c) ==
  /\ Turn("bind", c)
  /\ Passes(c)
  /\ \/ UNCHANGED <<transport, bindings, uploaded, group, failures>>
        /\ IF c \in bindings THEN NoFault ELSE Fault
     \/ c \in bindings /\ Releases(c, transport[c]) /\ UNCHANGED failures /\ Fault
     \/ Binds(c)
  /\ UNCHANGED <<plan, over, warned, audio, disturbed>>

\* Without a controller the editor plays alone; with one it needs a sequence.
Bound == /\ Done("bind")
         /\ \/ /\ operation.kind = "Play" /\ bindings # {}
               /\ Continues("prepare") /\ UNCHANGED audio
            \/ /\ operation.kind = "Play" /\ bindings = {}
               /\ operation' = None /\ audio' = [run |-> Local, hold |-> None]
            \/ /\ operation.kind = "Play" => bindings # {}
               /\ operation' = None /\ UNCHANGED audio
         /\ UNCHANGED <<controllers, bindings, uploaded, failures, warned, group,
                        disturbed>>

\* The show is uploaded unless the controller has it.
Prepare(c) ==
  /\ Turn("prepare", c)
  /\ Passes(c)
  /\ LET t == transport[c] IN
     \/ /\ c \in uploaded /\ t.show = "ours"
        /\ UNCHANGED <<transport, bindings, uploaded, failures, group>> /\ NoFault
     \/ /\ c \notin uploaded \/ t.show # "ours"
        /\ Set(c, Uploaded(t, "ours"))
        /\ uploaded' = uploaded \cup {c}
        /\ UNCHANGED <<bindings, failures, group>> /\ NoFault
     \/ /\ Fault
        /\ \E show \in {t.show, None, "ours"} :
             Releases(c, IF show = t.show THEN t ELSE Uploaded(t, show))
        /\ failures' = failures \cup {c}
  /\ UNCHANGED <<plan, over, warned, audio, disturbed>>

Prepared == /\ Done("prepare")
            /\ Continues("ready")
            /\ UNCHANGED <<controllers, desktop, disturbed>>

\* Binding::ready: the clock is set again and the loaded show must be ours.
Ready(c) ==
  /\ Turn("ready", c)
  /\ LET t == transport[c] IN
     \/ /\ t.show = "ours"
        /\ Set(c, Synchronized(t))
        /\ operation' = [operation EXCEPT !.todo = @ \ {c},
                           !.sample[c] = [id |-> t.command, boot |-> t.boot]]
        /\ UNCHANGED <<bindings, uploaded, group>> /\ NoFault
     \/ /\ IF t.show = "ours" THEN Fault ELSE NoFault
        /\ \E u \in Reaches(t, Synchronized(t)) : Releases(c, u)
        /\ operation' = [operation EXCEPT !.todo = @ \ {c}, !.failed = @ \cup {c}]
  /\ UNCHANGED <<plan, over, failures, warned, audio, disturbed>>

\* The deadline is set.
Aim == /\ Done("ready")
       /\ plan' = Append(plan, [kind |-> operation.kind, left |-> Lead])
       /\ operation' = [operation EXCEPT !.step = "send", !.todo = bindings,
                                         !.run = Len(plan) + 1]
       /\ disturbed' = {}
       /\ warned' = {}
       /\ UNCHANGED <<transport, over, bindings, uploaded, failures, audio, group>>

NextCommand(c) == operation.sample[c].id + 1

\* A controller acknowledges the command, or it is cancelled and released.
Send(c) ==
  /\ Turn("send", c)
  /\ LET t == transport[c]
         m == Command(operation.run, NextCommand(c), operation.sample[c].boot)
         Gives(u) ==
           /\ Releases(c, u)
           /\ operation' = [operation EXCEPT !.todo = @ \ {c}, !.failed = @ \cup {c}]
     IN
     \/ /\ m.id <= MaxCommand /\ Accepts(t, m)
        /\ Set(c, Scheduled(t, m))
        /\ operation' = [operation EXCEPT !.todo = @ \ {c}, !.commands = @ \cup {c}]
        /\ UNCHANGED <<bindings, uploaded, group>> /\ NoFault
     \/ /\ m.id > MaxCommand \/ ~Accepts(t, m)
        /\ Gives(t)
        /\ NoFault
     \/ /\ m.id <= MaxCommand /\ Fault
        /\ \E u \in Reaches(t, Scheduled(t, m)) :
             \E v \in Reaches(u, Cancelled(u, m.id)) : Gives(v)
  /\ UNCHANGED <<plan, over, failures, warned, audio, disturbed>>

\* What was armed is cancelled, one controller after the other.
Undoes(armed) == operation' = [operation EXCEPT !.step = "cancel", !.todo = armed,
                                               !.failed = {}]

\* schedule returns with time to spare, or fails.
Confirm ==
  /\ Done("send")
  /\ IF plan[operation.run].left >= Spare
       THEN operation' = [operation EXCEPT !.step = "act"]
       ELSE Undoes(operation.commands)
  /\ UNCHANGED <<controllers, desktop, disturbed>>

Takes == /\ failures' = failures \cup operation.failed
         /\ group' = [run |-> operation.run, members |-> operation.commands]
         /\ UNCHANGED <<controllers, bindings, uploaded, warned, disturbed>>

\* AudioEngine::play_at
PlayAt == /\ At("act") /\ operation.kind = "Play"
          /\ ~Due(operation.run)
          /\ audio' = [run |-> operation.run, hold |-> None]
          /\ operation' = None
          /\ Takes

\* The audio cannot start, or not before the deadline.
AudioFails == /\ At("act") /\ operation.kind = "Play"
              /\ audio' = Silence
              /\ failures' = failures \cup operation.failed
              /\ Undoes(operation.commands)
              /\ UNCHANGED <<controllers, bindings, uploaded, warned, group,
                             disturbed>>

\* AudioEngine::hold_at; the operation lasts until the deadline.
HoldAt == /\ At("act") /\ operation.kind # "Play"
          /\ audio' = [audio EXCEPT !.hold = operation.run]
          /\ operation' = [operation EXCEPT !.step = "sleep"]
          /\ Takes

HeldWhilePlaying ==
  /\ At("sleep") /\ Due(operation.run) /\ Playing
  /\ audio' = Silence
  /\ operation' = None
  /\ UNCHANGED <<controllers, bindings, uploaded, failures, warned, group,
                 disturbed>>

Held == /\ At("sleep") /\ Due(operation.run)
        /\ audio' = Silence
        /\ operation' = None
        /\ UNCHANGED <<controllers, bindings, uploaded, failures, warned, group,
                       disturbed>>

CancelUnconfirmed(c) ==
  /\ Turn("cancel", c)
  /\ \E u \in {transport[c], Cancelled(transport[c], NextCommand(c))} : Set(c, u)
  /\ Passes(c) /\ NoFault
  /\ UNCHANGED <<plan, over, desktop, disturbed>>

\* The answer confirms the cancellation, or refuses it, or is lost.
Cancel(c) ==
  /\ Turn("cancel", c)
  /\ LET t == transport[c]
         id == NextCommand(c)
     IN  \/ /\ Cancels(t, id)
            /\ Set(c, Cancelled(t, id))
            /\ Passes(c) /\ NoFault
         \/ /\ IF Cancels(t, id) THEN Fault ELSE NoFault
            /\ \E u \in Reaches(t, Cancelled(t, id)) : Set(c, u)
            /\ operation' = [operation EXCEPT !.todo = @ \ {c},
                                              !.failed = @ \cup {c}]
  /\ UNCHANGED <<plan, over, desktop, disturbed>>

\* The error names those whose cancellation is not confirmed.
Report == /\ Done("cancel")
          /\ operation' = None
          /\ warned' = operation.failed
          /\ group' = Nobody
          /\ UNCHANGED <<controllers, bindings, uploaded, failures, audio,
                         disturbed>>

\* Live output is switched off, or another project opened: every controller is
\* released, and nothing said of those that do not answer.
LiveOff == /\ Idle /\ bindings # {}
           /\ Begins("release", "Stop", bindings)
           /\ UNCHANGED <<controllers, desktop, disturbed>>

Release(c) == /\ Turn("release", c)
              /\ Passes(c)
              /\ Releases(c, transport[c])
              /\ UNCHANGED <<plan, over, failures, warned, audio, disturbed>>

Released == /\ Done("release")
            /\ operation' = None
            /\ failures' = {}
            /\ UNCHANGED <<controllers, bindings, uploaded, warned, audio, group,
                           disturbed>>

\* Without controllers the audio is held at once.
LocalHold == /\ Idle /\ Playing /\ bindings = {}
             /\ audio' = Silence
             /\ UNCHANGED <<controllers, bindings, uploaded, failures, warned, group,
                            operation, disturbed>>
-----------------------------------------------------------------------------
(***************************************************************************)
(* Time, the controllers and the network.                                  *)
(***************************************************************************)
Restart(c) == /\ Fault
              /\ \E show \in {transport[c].show, None} :
                   Set(c, Restarted(transport[c], show))
              /\ disturbed' = disturbed \cup {c}
              /\ UNCHANGED <<plan, over, desktop, operation>>

ByHand(c) == /\ Fault
             /\ Standalone(c)
             /\ disturbed' = disturbed \cup {c}
             /\ UNCHANGED <<desktop, operation>>

\* A run that plays comes to the end of the sequence; a looping timeline waits
\* there for the next run, another one ends.
SequenceEnds(r) ==
  /\ r \in DOMAIN plan \ over
  /\ plan[r].kind = "Play" /\ Due(r)
  /\ over' = over \cup {r}
  /\ audio' \in {audio, IF audio.run = r THEN [audio EXCEPT !.run = None] ELSE audio}
  /\ UNCHANGED <<transport, plan, bindings, uploaded, failures, warned, group,
                 operation, disturbed>>
-----------------------------------------------------------------------------
Fresh == [show |-> None, clock |-> FALSE, boot |-> 0, mode |-> Dark,
          pending |-> None, command |-> 0]

\* Each controller is empty or has a show that was saved before.
Init == /\ transport \in [Controllers -> {Fresh, [Fresh EXCEPT !.show = "other"]}]
        /\ plan = <<>>
        /\ over = {}
        /\ bindings = {} /\ uploaded = {} /\ failures = {} /\ warned = {}
        /\ audio = Silence
        /\ operation = None
        /\ group = Nobody
        /\ disturbed = {}
        /\ faults = 0

Operates == \/ Play \/ Connect \/ Reschedule \/ Hold("Pause") \/ Hold("Stop")
            \/ LiveOff \/ LocalHold

Exchanges(c) == Bind(c) \/ Prepare(c) \/ Ready(c) \/ Send(c) \/ Cancel(c)

Proceeds == \/ \E c \in Controllers : Release(c)
            \/ Bound \/ Prepared \/ Aim \/ Confirm \/ PlayAt \/ AudioFails
            \/ HoldAt \/ Held \/ Report \/ Released

Renders(c) == Refresh(c) /\ UNCHANGED <<desktop, operation, disturbed>>

Passing == Tick /\ UNCHANGED <<desktop, operation, disturbed>>

Exchange == \E c \in Controllers : Exchanges(c)

Next == \/ Exchange
        \/ \E c \in Controllers : Restart(c) \/ ByHand(c)
        \/ /\ \/ Operates \/ Proceeds \/ Passing
              \/ \E c \in Controllers : Renders(c)
              \/ \E r \in Runs : SequenceEnds(r)
           /\ NoFault

\* A request ends after 2 s at most, and time passes.
Fairness == WF_vars(Exchange \/ (Proceeds /\ NoFault)) /\ WF_vars(Passing /\ NoFault)

Spec == Init /\ [][Next]_vars /\ Fairness
-----------------------------------------------------------------------------
(***************************************************************************)
(* Correctness.                                                            *)
(***************************************************************************)
\* Between operations, every controller that acknowledged the run in force and
\* was left alone since is armed with it or shows it, whatever was lost or refused
\* on the way (schedule, cancel and Transport).  When a run is taken back none is
\* in force, and nothing is said of the run that its commands had replaced.
Together ==
  Idle => \A c \in group.members \ disturbed :
    \/ transport[c].pending = group.run
    \/ Mode(c) \in {ModeOf(group.run), Ended}

\* When a start is taken back, the error names every controller that is still
\* driven and still armed: none of those starts later that the user was not told
\* of (cancel).  A controller that was released in the exchange is not driven.
ErrorsNameTheArmed ==
  [][Report => \A c \in bindings : transport[c].pending = None \/ c \in warned']_vars

\* Every operation ends and gives up the lock on which the next one waits,
\* whatever the controllers do (the 2-s timeouts, and a deadline that passes).
OperationsEnd == []<>Idle
=============================================================================
