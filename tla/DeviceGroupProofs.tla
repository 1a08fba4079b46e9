--------------------------- MODULE DeviceGroupProofs ---------------------------
(***************************************************************************)
(* Proofs about DeviceGroup, for every number of controllers, every lead   *)
(* and every number of faults.                                             *)
(***************************************************************************)
EXTENDS DeviceGroup, TLAPS

\* What a step of Transport leaves of a controller's state.
LEMMA AppliedType ==
  ASSUME NEW t \in State, NEW mode \in Marks \cup Runs
  PROVE  /\ Applied(t, mode) \in State
         /\ Applied(t, mode).mode = mode
         /\ Applied(t, mode).pending = None
BY DEF Applied, State

LEMMA ModeOfType ==
  ASSUME NEW r \in Runs
  PROVE  ModeOf(r) \in Marks \cup Runs
BY DEF ModeOf, Marks

LEMMA AppliedDueType ==
  ASSUME NEW t \in State
  PROVE  AppliedDue(t) \in State
<1>1. CASE IsDue(t)
  <2>1. t.pending \in Runs
    BY <1>1 DEF IsDue, State
  <2>2. ModeOf(t.pending) \in Marks \cup Runs
    BY <2>1, ModeOfType
  <2> QED
    BY <1>1, <2>2, AppliedType DEF AppliedDue
<1>2. CASE ~IsDue(t)
  BY <1>2 DEF AppliedDue
<1> QED
  BY <1>1, <1>2

LEMMA RefreshedType ==
  ASSUME NEW t \in State
  PROVE  Refreshed(t) \in State
<1>1. AppliedDue(t) \in State
  BY AppliedDueType
<1>2. Ended \in Marks \cup Runs
  BY DEF Marks
<1> QED
  BY <1>1, <1>2, AppliedType DEF Refreshed

LEMMA StoppedType ==
  ASSUME NEW t \in State
  PROVE  Stopped(t) \in State
<1>1. Dark \in Marks \cup Runs
  BY DEF Marks
<1> QED
  BY <1>1, AppliedType DEF Stopped

LEMMA SynchronizedType ==
  ASSUME NEW t \in State
  PROVE  /\ Synchronized(t) \in State
         /\ Synchronized(t).mode = t.mode
         /\ Synchronized(t).pending = t.pending
BY DEF Synchronized, State

LEMMA UploadedType ==
  ASSUME NEW t \in State, NEW show \in {None, "other", "ours"}
  PROVE  Uploaded(t, show) \in State
<1> DEFINE a == [t EXCEPT !.show = show]
           b == [a EXCEPT !.mode = Dark]
           d == [b EXCEPT !.pending = None]
<1>1. a \in State
  BY DEF State
<1>2. b \in State
  <2> HIDE DEF a
  <2> QED
    BY <1>1 DEF State, Marks
<1>3. d \in State
  <2> HIDE DEF b
  <2> QED
    BY <1>2 DEF State
<1>4. [d EXCEPT !.command = 0] \in State
  <2> HIDE DEF d
  <2> QED
    BY <1>3, TransportAssumption DEF State
<1> QED
  BY <1>4 DEF Uploaded

LEMMA RestartedType ==
  ASSUME NEW t \in State, NEW show \in {None, "other", "ours"}
  PROVE  Restarted(t, show) \in State
BY TransportAssumption DEF Restarted, State, Marks

LEMMA ScheduledType ==
  ASSUME NEW t \in State, NEW r \in Runs \cup {None}, NEW id \in 0..MaxCommand,
         NEW boot
  PROVE  /\ Scheduled(t, Command(r, id, boot)) \in State
         /\ Accepts(t, Command(r, id, boot))
              => Scheduled(t, Command(r, id, boot)).pending = r
<1> DEFINE m == Command(r, id, boot)
<1>1. m.run = r /\ m.id = id
  BY DEF Command
<1> HIDE DEF m
<1>2. /\ [t EXCEPT !.pending = m.run, !.command = m.id] \in State
      /\ [t EXCEPT !.pending = m.run, !.command = m.id].pending = r
  BY <1>1 DEF State
<1> QED
  BY <1>2 DEF Scheduled, m

LEMMA CancelledType ==
  ASSUME NEW t \in State, NEW id
  PROVE  /\ Cancelled(t, id) \in State
         /\ Cancels(t, id) => Cancelled(t, id).pending = None
         /\ t.pending = None => Cancelled(t, id).pending = None
BY DEF Cancelled, Cancels, State
-----------------------------------------------------------------------------
(***************************************************************************)
(* The operation under way.                                                *)
(***************************************************************************)
LEMMA OperatingType ==
  ASSUME NEW step \in Steps, NEW kind \in Kinds, NEW todo \in SUBSET Controllers,
         Begins(step, kind, todo)
  PROVE  /\ operation' \in Operation
         /\ operation'.step = step /\ operation'.kind = kind
         /\ operation'.todo = todo /\ operation'.commands = {}
<1>1. NoSample \in [Controllers -> [id : 0..MaxCommand, boot : Nat]]
  BY TransportAssumption DEF NoSample
<1> QED
  BY <1>1 DEF Begins, Operating, Operation

\* Only todo changes.
SameBut(o, p) == /\ p.step = o.step /\ p.kind = o.kind /\ p.run = o.run
                 /\ p.commands = o.commands

LEMMA PassesType ==
  ASSUME operation \in Operation, NEW c \in Controllers, Passes(c)
  PROVE  /\ operation' \in Operation
         /\ SameBut(operation, operation')
         /\ operation'.todo = operation.todo \ {c}
         /\ operation'.failed = operation.failed
BY DEF Passes, Operation, SameBut

LEMMA ContinuesType ==
  ASSUME operation \in Operation, NEW step \in Steps, bindings \subseteq Controllers,
         Continues(step)
  PROVE  /\ operation' \in Operation
         /\ operation'.step = step /\ operation'.kind = operation.kind
         /\ operation'.commands = operation.commands
         /\ operation'.todo = bindings
BY DEF Continues, Operation

LEMMA FailedType ==
  ASSUME operation \in Operation, NEW c \in Controllers,
         operation' = [operation EXCEPT !.todo = @ \ {c}, !.failed = @ \cup {c}]
  PROVE  /\ operation' \in Operation
         /\ SameBut(operation, operation')
         /\ operation'.todo = operation.todo \ {c}
         /\ operation'.failed = operation.failed \cup {c}
<1> DEFINE o == [operation EXCEPT !.todo = @ \ {c}]
<1>1. /\ o \in Operation
      /\ SameBut(operation, o)
      /\ o.todo = operation.todo \ {c}
      /\ o.failed = operation.failed
  BY DEF Operation, SameBut
<1>2. operation' = [o EXCEPT !.failed = @ \cup {c}]
  OBVIOUS
<1> HIDE DEF o
<1> QED
  BY <1>1, <1>2 DEF Operation, SameBut

LEMMA SampledType ==
  ASSUME operation \in Operation, NEW c \in Controllers, NEW t \in State,
         operation' = [operation EXCEPT !.todo = @ \ {c},
                         !.sample[c] = [id |-> t.command, boot |-> t.boot]]
  PROVE  /\ operation' \in Operation
         /\ SameBut(operation, operation')
         /\ operation'.todo = operation.todo \ {c}
<1> DEFINE o == [operation EXCEPT !.todo = @ \ {c}]
           sample == [operation.sample EXCEPT ![c] = [id |-> t.command, boot |-> t.boot]]
<1>1. /\ o \in Operation
      /\ SameBut(operation, o)
      /\ o.todo = operation.todo \ {c}
      /\ o.sample = operation.sample
  BY DEF Operation, SameBut
<1>2. sample \in [Controllers -> [id : 0..MaxCommand, boot : Nat]]
  BY DEF Operation, State
<1>3. operation' = [o EXCEPT !.sample = sample]
  BY <1>1
<1> HIDE DEF o, sample
<1> QED
  BY <1>1, <1>2, <1>3 DEF Operation, SameBut

LEMMA ArmedType ==
  ASSUME operation \in Operation, NEW c \in Controllers,
         operation' = [operation EXCEPT !.todo = @ \ {c}, !.commands = @ \cup {c}]
  PROVE  /\ operation' \in Operation
         /\ operation'.step = operation.step /\ operation'.kind = operation.kind
         /\ operation'.run = operation.run
         /\ operation'.todo = operation.todo \ {c}
         /\ operation'.commands = operation.commands \cup {c}
<1> DEFINE o == [operation EXCEPT !.todo = @ \ {c}]
<1>1. /\ o \in Operation
      /\ SameBut(operation, o)
      /\ o.todo = operation.todo \ {c}
  BY DEF Operation, SameBut
<1>2. operation' = [o EXCEPT !.commands = @ \cup {c}]
  OBVIOUS
<1> HIDE DEF o
<1> QED
  BY <1>1, <1>2 DEF Operation, SameBut

LEMMA AimType ==
  ASSUME operation \in Operation, bindings \subseteq Controllers, NEW r \in Runs,
         operation' = [operation EXCEPT !.step = "send", !.todo = bindings, !.run = r]
  PROVE  /\ operation' \in Operation
         /\ operation'.step = "send" /\ operation'.kind = operation.kind
         /\ operation'.run = r
         /\ operation'.todo = bindings
         /\ operation'.commands = operation.commands
<1> DEFINE o == [operation EXCEPT !.step = "send"]
           p == [o EXCEPT !.todo = bindings]
<1>1. /\ o \in Operation
      /\ o.step = "send" /\ o.kind = operation.kind /\ o.commands = operation.commands
  BY DEF Operation, Steps
<1>2. /\ p \in Operation
      /\ p.todo = bindings
      /\ p.step = "send" /\ p.kind = operation.kind /\ p.commands = operation.commands
  <2> HIDE DEF o
  <2> QED
    BY <1>1 DEF Operation
<1>3. operation' = [p EXCEPT !.run = r]
  OBVIOUS
<1> HIDE DEF p
<1> QED
  BY <1>2, <1>3 DEF Operation

LEMMA UndoesType ==
  ASSUME operation \in Operation, Undoes(operation.commands)
  PROVE  /\ operation' \in Operation
         /\ operation'.step = "cancel"
         /\ operation'.todo = operation.commands
<1> DEFINE o == [operation EXCEPT !.step = "cancel"]
           p == [o EXCEPT !.todo = operation.commands]
<1>1. o \in Operation /\ o.step = "cancel"
  BY DEF Operation, Steps
<1>2. /\ p \in Operation
      /\ p.todo = operation.commands /\ p.step = "cancel"
  <2> HIDE DEF o
  <2> QED
    BY <1>1 DEF Operation
<1>3. operation' = [p EXCEPT !.failed = {}]
  BY DEF Undoes
<1> HIDE DEF p
<1> QED
  BY <1>2, <1>3 DEF Operation

LEMMA StepType ==
  ASSUME operation \in Operation, NEW step \in Steps,
         operation' = [operation EXCEPT !.step = step]
  PROVE  /\ operation' \in Operation
         /\ operation'.step = step /\ operation'.kind = operation.kind
         /\ operation'.run = operation.run
         /\ operation'.commands = operation.commands
         /\ operation'.todo = operation.todo
BY DEF Operation
-----------------------------------------------------------------------------
(***************************************************************************)
(* The type invariant.                                                     *)
(***************************************************************************)
LEMMA SetType ==
  ASSUME TypeOK, NEW c \in Controllers, NEW t \in State, Set(c, t)
  PROVE  /\ transport' \in [Controllers -> State]
         /\ transport'[c] = t
         /\ \A d \in Controllers \ {c} : transport'[d] = transport[d]
BY DEF TypeOK, TransportTypeOK, Set

LEMMA ReleasesType ==
  ASSUME TypeOK, NEW c \in Controllers, NEW t \in State, Releases(c, t)
  PROVE  /\ transport' \in [Controllers -> State]
         /\ \A d \in Controllers \ {c} : transport'[d] = transport[d]
         /\ bindings' = bindings \ {c}
         /\ bindings' \subseteq Controllers
         /\ uploaded' \subseteq bindings'
         /\ group' \in [run : Runs \cup {None}, members : SUBSET Controllers]
         /\ group'.run = group.run
         /\ group'.members = group.members \ {c}
<1>1. PICK u \in {t, Stopped(t)} : Set(c, u)
  BY DEF Releases, Reaches
<1>2. u \in State
  BY StoppedType
<1>3. /\ transport' \in [Controllers -> State]
      /\ \A d \in Controllers \ {c} : transport'[d] = transport[d]
  BY <1>1, <1>2, SetType
<1>4. /\ bindings' = bindings \ {c}
      /\ bindings' \subseteq Controllers
      /\ uploaded' \subseteq bindings'
  BY DEF Releases, Forgets, TypeOK
<1>5. /\ group' \in [run : Runs \cup {None}, members : SUBSET Controllers]
      /\ group'.run = group.run
      /\ group'.members = group.members \ {c}
  BY DEF Releases, Forgets, TypeOK
<1> QED
  BY <1>3, <1>4, <1>5

\* The bound on the decisions, which the operations respect.
Room == At("prepare") \/ At("ready") \/ (At("bind") /\ operation.kind = "Play")
          => Len(plan) < MaxRuns

\* Only what is driven is asked anything but to be bound.
Driven == At("prepare") \/ At("ready") \/ At("send") \/ At("release")
            => operation.todo \subseteq bindings

TypeInv == TypeOK /\ Room /\ Driven

LEMMA UnderWay ==
  ASSUME TypeOK, NEW step, At(step)
  PROVE  operation \in Operation /\ operation.step = step
BY DEF TypeOK, At, Idle

LEMMA StepNames ==
  /\ "bind" \in Steps /\ "prepare" \in Steps /\ "ready" \in Steps /\ "send" \in Steps
  /\ "cancel" \in Steps /\ "act" \in Steps /\ "sleep" \in Steps /\ "release" \in Steps
  /\ "Play" \in Kinds /\ "Pause" \in Kinds /\ "Stop" \in Kinds
BY DEF Steps, Kinds

\* What a step may leave of the variables for the types to hold.
Rest == /\ failures' \subseteq Controllers
        /\ warned' \subseteq Controllers
        /\ audio' \in [run : Runs \cup {None, Local}, hold : Runs \cup {None}]
        /\ disturbed' \subseteq Controllers
        /\ faults' \in 0..MaxFaults

LEMMA FaultType ==
  ASSUME TypeOK, Fault \/ NoFault
  PROVE  faults' \in 0..MaxFaults
BY GroupAssumption DEF TypeOK, Fault, NoFault

LEMMA SilenceType == Silence \in [run : Runs \cup {None, Local}, hold : Runs \cup {None}]
BY DEF Silence

LEMMA TypeInit == Init => TypeInv
<1> SUFFICES ASSUME Init PROVE TypeInv
  OBVIOUS
<1>1. Fresh \in State
  BY TransportAssumption DEF Fresh, State, Marks
<1>2. [Fresh EXCEPT !.show = "other"] \in State
  BY <1>1 DEF State
<1>3. TransportTypeOK
  BY <1>1, <1>2, TransportAssumption DEF Init, TransportTypeOK
<1>4. audio \in [run : Runs \cup {None, Local}, hold : Runs \cup {None}]
  BY SilenceType DEF Init
<1>5. group \in [run : Runs \cup {None}, members : SUBSET Controllers]
  BY DEF Init, Nobody
<1>6. faults \in 0..MaxFaults
  BY GroupAssumption DEF Init
<1>7. TypeOK
  BY <1>3, <1>4, <1>5, <1>6 DEF Init, TypeOK
<1>8. Room /\ Driven
  BY DEF Room, Driven, Init, At, Idle
<1> QED
  BY <1>7, <1>8 DEF TypeInv

\* An operation begins: nothing else changes but failures.
LEMMA BeginsType ==
  ASSUME TypeInv, NEW step \in Steps, NEW kind \in Kinds, NEW todo \in SUBSET Controllers,
         Begins(step, kind, todo),
         (step = "bind" /\ kind = "Stop") \/ step = "release" \/ Len(plan) < MaxRuns,
         step = "bind" \/ todo = bindings,
         failures' \subseteq Controllers,
         UNCHANGED <<controllers, bindings, uploaded, warned, audio, group, disturbed,
                     faults>>
  PROVE  TypeInv'
<1>1. /\ operation' \in Operation
      /\ operation'.step = step /\ operation'.kind = kind
      /\ operation'.todo = todo
  BY OperatingType
<1>2. TypeOK'
  BY <1>1 DEF TypeInv, TypeOK, TransportTypeOK, controllers
<1>3. Room' /\ Driven'
  BY <1>1 DEF Room, Driven, At, controllers
<1> QED
  BY <1>2, <1>3 DEF TypeInv

LEMMA OperatesType ==
  ASSUME TypeInv, Operates, NoFault
  PROVE  TypeInv'
<1> USE StepNames
<1>0. {} \subseteq Controllers /\ bindings \subseteq Controllers
      /\ failures \subseteq Controllers
  BY DEF TypeInv, TypeOK
<1>1. CASE Play
  BY <1>0, <1>1, BeginsType DEF Play, Free, NoFault
<1>2. CASE Connect
  BY <1>0, <1>2, BeginsType DEF Connect, NoFault
<1>3. CASE Reschedule
  BY <1>0, <1>3, BeginsType DEF Reschedule, Free, NoFault, desktop
<1>4. ASSUME NEW kind \in {"Pause", "Stop"}, Hold(kind)
      PROVE  TypeInv'
  <2> DEFINE step == IF Playing THEN "ready" ELSE "prepare"
  <2>1. step \in Steps /\ kind \in Kinds
    OBVIOUS
  <2>2. Begins(step, kind, bindings) /\ Len(plan) < MaxRuns
    BY <1>4 DEF Hold, Free
  <2> HIDE DEF step
  <2> QED
    BY <1>0, <1>4, <2>1, <2>2, BeginsType DEF Hold, NoFault, desktop
<1>5. CASE LiveOff
  BY <1>0, <1>5, BeginsType DEF LiveOff, NoFault, desktop
<1>6. CASE LocalHold
  <2>1. audio' \in [run : Runs \cup {None, Local}, hold : Runs \cup {None}]
    BY <1>6, SilenceType DEF LocalHold
  <2>2. TypeOK'
    BY <1>6, <2>1 DEF LocalHold, NoFault, TypeInv, TypeOK, TransportTypeOK, controllers
  <2>3. Room' /\ Driven'
    BY <1>6 DEF LocalHold, Room, Driven, TypeInv, At, Idle, controllers
  <2> QED
    BY <2>2, <2>3 DEF TypeInv
<1> QED
  BY <1>1, <1>2, <1>3, <1>4, <1>5, <1>6 DEF Operates
\* The steps of an operation keep the bound: only Aim decides.
LEMMA SameRoom ==
  ASSUME TypeInv, ~Idle, operation' \in Operation,
         operation'.step = operation.step, operation'.kind = operation.kind,
         plan' = plan,
         NEW c, operation'.todo = operation.todo \ {c},
         bindings \ {c} \subseteq bindings'
  PROVE  Room' /\ Driven'
BY DEF TypeInv, Room, Driven, At, Idle

\* A controller that is not as it was is no member of the group any more.
LEMMA BindChanges ==
  ASSUME TypeOK, NEW c \in Controllers, Bind(c)
  PROVE  /\ transport' \in [Controllers -> State]
         /\ \A d \in Controllers \ {c} : transport'[d] = transport[d]
         /\ bindings' \in SUBSET Controllers /\ bindings \ {c} \subseteq bindings'
         /\ uploaded' \subseteq bindings'
         /\ failures' \subseteq Controllers
         /\ group' \in [run : Runs \cup {None}, members : SUBSET Controllers]
         /\ group'.run = group.run
         /\ \/ UNCHANGED <<transport, bindings, group>>
            \/ group'.members = group.members \ {c}
<1> DEFINE t == transport[c]
<1>1. t \in State /\ failures \cup {c} \subseteq Controllers
  BY DEF TypeOK, TransportTypeOK
<1>2. CASE UNCHANGED <<transport, bindings, uploaded, group, failures>>
  BY <1>2 DEF TypeOK, TransportTypeOK
<1>3. CASE Releases(c, t) /\ UNCHANGED failures
  BY <1>1, <1>3, ReleasesType
<1>4. ASSUME NEW u \in {t, Stopped(t), Synchronized(Stopped(t))}, Set(c, u), Forgets(c),
             bindings' \in {bindings \cup {c}, bindings \ {c}},
             failures' \in {failures, failures \cup {c}}
      PROVE  /\ transport' \in [Controllers -> State]
             /\ \A d \in Controllers \ {c} : transport'[d] = transport[d]
             /\ bindings' \in SUBSET Controllers /\ bindings \ {c} \subseteq bindings'
             /\ uploaded' \subseteq bindings'
             /\ failures' \subseteq Controllers
             /\ group' \in [run : Runs \cup {None}, members : SUBSET Controllers]
             /\ group'.run = group.run
             /\ group'.members = group.members \ {c}
  <2>1. u \in State
    BY <1>1, StoppedType, SynchronizedType
  <2>2. /\ transport' \in [Controllers -> State]
        /\ \A d \in Controllers \ {c} : transport'[d] = transport[d]
    BY <1>4, <2>1, SetType
  <2>3. /\ bindings' \in SUBSET Controllers /\ bindings \ {c} \subseteq bindings'
        /\ uploaded' \subseteq bindings' /\ failures' \subseteq Controllers
    BY <1>4 DEF Forgets, TypeOK
  <2>4. /\ group' \in [run : Runs \cup {None}, members : SUBSET Controllers]
        /\ group'.run = group.run
        /\ group'.members = group.members \ {c}
    BY <1>4 DEF Forgets, TypeOK
  <2> QED
    BY <2>2, <2>3, <2>4
<1>5. CASE /\ Set(c, Synchronized(Stopped(t))) /\ bindings' = bindings \cup {c}
           /\ Forgets(c) /\ UNCHANGED failures
  BY <1>4, <1>5
<1>6. CASE /\ \E u \in {t, Stopped(t), Synchronized(Stopped(t))} : Set(c, u)
           /\ bindings' = bindings \ {c}
           /\ Forgets(c) /\ failures' = failures \cup {c}
  BY <1>4, <1>6
<1> QED
  BY <1>2, <1>3, <1>5, <1>6 DEF Bind, Binds

LEMMA BindType ==
  ASSUME TypeInv, NEW c \in Controllers, Bind(c)
  PROVE  TypeInv'
<1>1. operation \in Operation
  BY UnderWay DEF TypeInv, Bind, Binds, Turn
<1>2. /\ operation' \in Operation
      /\ operation'.step = operation.step /\ operation'.kind = operation.kind
      /\ operation'.todo = operation.todo \ {c}
  BY <1>1, PassesType DEF Bind, Binds, SameBut
<1>3. faults' \in 0..MaxFaults
  BY FaultType DEF Bind, Binds, TypeInv
<1>4. TypeOK'
  BY <1>2, <1>3, BindChanges DEF Bind, Binds, TypeInv, TypeOK, TransportTypeOK
<1>5. Room' /\ Driven'
  BY <1>2, BindChanges, SameRoom DEF TypeInv, Bind, Binds, Turn, At
<1> QED
  BY <1>4, <1>5 DEF TypeInv

LEMMA PrepareType ==
  ASSUME TypeInv, NEW c \in Controllers, Prepare(c)
  PROVE  TypeInv'
<1> DEFINE t == transport[c]
<1>1. t \in State /\ t.show \in {None, "other", "ours"}
  BY DEF TypeInv, TypeOK, TransportTypeOK, State
<1>2. operation \in Operation
  BY UnderWay DEF TypeInv, Prepare, Turn
<1>3. /\ operation' \in Operation
      /\ operation'.step = operation.step /\ operation'.kind = operation.kind
      /\ operation'.todo = operation.todo \ {c}
  BY <1>2, PassesType DEF Prepare, SameBut
<1>4. ~Idle /\ plan' = plan
  BY DEF Prepare, Turn, At
<1>5. CASE UNCHANGED <<transport, bindings, uploaded, failures, group>> /\ NoFault
  <2>1. TypeOK'
    BY <1>3, <1>5 DEF Prepare, NoFault, TypeInv, TypeOK, TransportTypeOK
  <2>2. Room' /\ Driven'
    BY <1>3, <1>4, <1>5, SameRoom
  <2> QED
    BY <2>1, <2>2 DEF TypeInv
<1>6. CASE /\ Set(c, Uploaded(t, "ours"))
           /\ uploaded' = uploaded \cup {c}
           /\ UNCHANGED <<bindings, failures, group>> /\ NoFault
  <2>1. transport' \in [Controllers -> State]
    BY <1>1, <1>6, UploadedType, SetType DEF TypeInv
  <2>2. c \in bindings
    BY DEF Prepare, Turn, TypeInv, Driven
  <2>3. TypeOK'
    BY <1>3, <1>6, <2>1, <2>2 DEF Prepare, NoFault, TypeInv, TypeOK, TransportTypeOK
  <2>4. Room' /\ Driven'
    BY <1>3, <1>4, <1>6, SameRoom
  <2> QED
    BY <2>3, <2>4 DEF TypeInv
<1>7. CASE /\ Fault
           /\ \E show \in {t.show, None, "ours"} :
                Releases(c, IF show = t.show THEN t ELSE Uploaded(t, show))
           /\ failures' = failures \cup {c}
  <2>1. PICK show \in {t.show, None, "ours"} :
               Releases(c, IF show = t.show THEN t ELSE Uploaded(t, show))
    BY <1>7
  <2> DEFINE u == IF show = t.show THEN t ELSE Uploaded(t, show)
  <2>2. u \in State
    BY <1>1, UploadedType
  <2> HIDE DEF u
  <2>3. Releases(c, u)
    BY <2>1 DEF u
  <2>4. /\ transport' \in [Controllers -> State]
        /\ bindings' = bindings \ {c} /\ bindings' \subseteq Controllers
        /\ uploaded' \subseteq bindings'
        /\ group' \in [run : Runs \cup {None}, members : SUBSET Controllers]
    BY <2>2, <2>3, ReleasesType DEF TypeInv
  <2>5. faults' \in 0..MaxFaults
    BY <1>7, FaultType DEF TypeInv
  <2>6. TypeOK'
    BY <1>3, <1>7, <2>4, <2>5 DEF Prepare, TypeInv, TypeOK, TransportTypeOK
  <2>7. Room' /\ Driven'
    BY <1>3, <1>4, <2>4, SameRoom
  <2> QED
    BY <2>6, <2>7 DEF TypeInv
<1> QED
  BY <1>5, <1>6, <1>7 DEF Prepare

\* A controller is released, and noted with the operation.
LEMMA GivenUpType ==
  ASSUME TypeInv, ~Idle, NEW c \in Controllers, NEW t \in State, Releases(c, t),
         operation' = [operation EXCEPT !.todo = @ \ {c}, !.failed = @ \cup {c}],
         Fault \/ NoFault,
         UNCHANGED <<plan, over, failures, warned, audio, disturbed>>
  PROVE  TypeInv'
<1>1. operation \in Operation
  BY DEF TypeInv, TypeOK, Idle
<1>2. /\ operation' \in Operation
      /\ operation'.step = operation.step /\ operation'.kind = operation.kind
      /\ operation'.todo = operation.todo \ {c}
  BY <1>1, FailedType DEF SameBut
<1>3. /\ transport' \in [Controllers -> State]
      /\ bindings' = bindings \ {c} /\ bindings' \subseteq Controllers
      /\ uploaded' \subseteq bindings'
      /\ group' \in [run : Runs \cup {None}, members : SUBSET Controllers]
  BY ReleasesType DEF TypeInv
<1>4. faults' \in 0..MaxFaults
  BY FaultType DEF TypeInv
<1>5. TypeOK'
  BY <1>2, <1>3, <1>4 DEF TypeInv, TypeOK, TransportTypeOK
<1>6. Room' /\ Driven'
  BY <1>2, <1>3, SameRoom
<1> QED
  BY <1>5, <1>6 DEF TypeInv

LEMMA ReadyType ==
  ASSUME TypeInv, NEW c \in Controllers, Ready(c)
  PROVE  TypeInv'
<1> DEFINE t == transport[c]
<1>1. t \in State
  BY DEF TypeInv, TypeOK, TransportTypeOK
<1>2. operation \in Operation /\ ~Idle
  BY UnderWay DEF TypeInv, Ready, Turn, At
<1>3. CASE /\ Set(c, Synchronized(t))
           /\ operation' = [operation EXCEPT !.todo = @ \ {c},
                              !.sample[c] = [id |-> t.command, boot |-> t.boot]]
           /\ UNCHANGED <<bindings, uploaded, group>> /\ NoFault
  <2>1. /\ operation' \in Operation
        /\ operation'.step = operation.step /\ operation'.kind = operation.kind
        /\ operation'.todo = operation.todo \ {c}
    <3> HIDE DEF t
    <3> QED
      BY <1>1, <1>2, <1>3, SampledType DEF SameBut
  <2>2. transport' \in [Controllers -> State]
    BY <1>1, <1>3, SynchronizedType, SetType DEF TypeInv
  <2>3. TypeOK'
    BY <1>3, <2>1, <2>2 DEF Ready, NoFault, TypeInv, TypeOK, TransportTypeOK
  <2>4. Room' /\ Driven'
    BY <1>2, <1>3, <2>1, SameRoom DEF Ready
  <2> QED
    BY <2>3, <2>4 DEF TypeInv
<1>4. CASE /\ IF t.show = "ours" THEN Fault ELSE NoFault
           /\ \E u \in Reaches(t, Synchronized(t)) : Releases(c, u)
           /\ operation' = [operation EXCEPT !.todo = @ \ {c}, !.failed = @ \cup {c}]
  <2>1. PICK u \in {t, Synchronized(t)} : Releases(c, u)
    BY <1>4 DEF Reaches
  <2>2. u \in State
    BY <1>1, SynchronizedType
  <2>3. UNCHANGED <<plan, over, failures, warned, audio, disturbed>>
    BY DEF Ready
  <2> QED
    BY <1>2, <1>4, <2>1, <2>2, <2>3, GivenUpType
<1> QED
  BY <1>3, <1>4 DEF Ready

LEMMA SendType ==
  ASSUME TypeInv, NEW c \in Controllers, Send(c)
  PROVE  TypeInv'
<1> DEFINE t == transport[c]
           m == Command(operation.run, NextCommand(c), operation.sample[c].boot)
<1>1. t \in State
  BY DEF TypeInv, TypeOK, TransportTypeOK
<1>2. operation \in Operation /\ ~Idle
  BY UnderWay DEF TypeInv, Send, Turn, At
<1>3. c \in bindings
  BY DEF Send, Turn, TypeInv, Driven
<1>4. m.id = NextCommand(c) /\ NextCommand(c) \in Nat
  BY <1>2, TransportAssumption DEF Command, NextCommand, Operation
<1>5. m.id <= MaxCommand => Scheduled(t, m) \in State
  <2> SUFFICES ASSUME m.id <= MaxCommand
               PROVE  Scheduled(t, m) \in State
    OBVIOUS
  <2>1. NextCommand(c) \in 0..MaxCommand
    BY <1>4, TransportAssumption
  <2>2. operation.run \in Runs \cup {None}
    BY <1>2 DEF Operation
  <2> QED
    BY <1>1, <2>1, <2>2, ScheduledType
<1>6. \A u \in State : Releases(c, u) /\ (Fault \/ NoFault)
            /\ operation' = [operation EXCEPT !.todo = @ \ {c}, !.failed = @ \cup {c}]
          => TypeInv'
  <2>1. UNCHANGED <<plan, over, failures, warned, audio, disturbed>>
    BY DEF Send
  <2> QED
    BY <1>2, <2>1, GivenUpType
<1> HIDE DEF t, m
<1>7. CASE /\ m.id <= MaxCommand /\ Accepts(t, m)
           /\ Set(c, Scheduled(t, m))
           /\ operation' = [operation EXCEPT !.todo = @ \ {c}, !.commands = @ \cup {c}]
           /\ UNCHANGED <<bindings, uploaded, group>> /\ NoFault
  <2>1. /\ operation' \in Operation
        /\ operation'.step = operation.step /\ operation'.kind = operation.kind
        /\ operation'.todo = operation.todo \ {c}
    BY <1>2, <1>7, ArmedType
  <2>2. transport' \in [Controllers -> State]
    BY <1>5, <1>7, SetType DEF TypeInv
  <2>3. TypeOK'
    BY <1>7, <2>1, <2>2 DEF Send, NoFault, TypeInv, TypeOK, TransportTypeOK
  <2>4. Room' /\ Driven'
    BY <1>2, <1>7, <2>1, SameRoom DEF Send
  <2> QED
    BY <2>3, <2>4 DEF TypeInv
<1>8. CASE \E u \in State : Releases(c, u) /\ (Fault \/ NoFault)
             /\ operation' = [operation EXCEPT !.todo = @ \ {c}, !.failed = @ \cup {c}]
  BY <1>6, <1>8
<1>9. ASSUME m.id <= MaxCommand, NEW u \in Reaches(t, Scheduled(t, m)),
             NEW v \in Reaches(u, Cancelled(u, m.id))
      PROVE  v \in State
  <2>1. u \in State
    BY <1>1, <1>5, <1>9 DEF Reaches, t
  <2> QED
    BY <2>1, <1>9, CancelledType DEF Reaches
<1> QED
  BY <1>1, <1>7, <1>8, <1>9 DEF Send, t, m

LEMMA AimTypeStep ==
  ASSUME TypeInv, Aim, NoFault
  PROVE  /\ TypeInv'
         /\ plan' \in Seq([kind : Kinds, left : 0..Lead])
         /\ Len(plan') = Len(plan) + 1
         /\ \A r \in DOMAIN plan : plan'[r] = plan[r]
         /\ plan'[Len(plan) + 1].kind = operation.kind
<1> DEFINE decision == [kind |-> operation.kind, left |-> Lead]
<1>1. operation \in Operation /\ ~Idle
  BY UnderWay DEF TypeInv, Aim, Done, At
<1>2. decision \in [kind : Kinds, left : 0..Lead] /\ decision.kind = operation.kind
  BY <1>1, TransportAssumption DEF Operation
<1>3. plan \in Seq([kind : Kinds, left : 0..Lead]) /\ bindings \subseteq Controllers
  BY DEF TypeInv, TypeOK, TransportTypeOK
<1> HIDE DEF decision
<1>4. /\ plan' \in Seq([kind : Kinds, left : 0..Lead])
      /\ Len(plan') = Len(plan) + 1
      /\ \A r \in DOMAIN plan : plan'[r] = plan[r]
      /\ plan'[Len(plan) + 1].kind = operation.kind
  BY <1>2, <1>3 DEF Aim, decision
<1>5. Len(plan) \in Nat /\ Len(plan) < MaxRuns
  BY <1>3 DEF TypeInv, Room, Aim, Done
<1>6. Len(plan) + 1 \in Runs
  BY <1>5, TransportAssumption DEF Runs
<1>7. /\ operation' \in Operation
      /\ operation'.step = "send" /\ operation'.todo = bindings
  BY <1>1, <1>3, <1>6, AimType DEF Aim
<1>8. TypeOK'
  BY <1>4, <1>5, <1>7, TransportAssumption DEF Aim, NoFault, TypeInv, TypeOK, TransportTypeOK
<1>9. Room' /\ Driven'
  BY <1>7 DEF Room, Driven, Aim, At
<1> QED
  BY <1>4, <1>8, <1>9 DEF TypeInv

\* A step of an operation that asks nothing of a controller.
LEMMA ProceedType ==
  ASSUME TypeInv, NoFault,
         operation' \in Operation \cup {None},
         At("bind")' \/ At("prepare")' \/ At("ready")' \/ At("send")' \/ At("release")'
           => /\ operation'.todo \subseteq bindings
              /\ Len(plan) < MaxRuns
              /\ operation'.step # "bind",
         UNCHANGED <<transport, plan, over, bindings, uploaded>>,
         failures' \subseteq Controllers, warned' \subseteq Controllers,
         audio' \in [run : Runs \cup {None, Local}, hold : Runs \cup {None}],
         group' \in [run : Runs \cup {None}, members : SUBSET Controllers],
         UNCHANGED disturbed
  PROVE  TypeInv'
<1>1. TypeOK'
  BY DEF NoFault, TypeInv, TypeOK, TransportTypeOK
<1>2. Room' /\ Driven'
  BY DEF Room, Driven, At
<1> QED
  BY <1>1, <1>2 DEF TypeInv

LEMMA ProceedsType ==
  ASSUME TypeInv, NoFault,
         Bound \/ Prepared \/ Confirm \/ PlayAt \/ AudioFails \/ HoldAt \/ Held
           \/ Report \/ Released
  PROVE  TypeInv'
<1> USE StepNames
<1>0. /\ failures \subseteq Controllers /\ warned \subseteq Controllers
      /\ bindings \subseteq Controllers
      /\ audio \in [run : Runs \cup {None, Local}, hold : Runs \cup {None}]
      /\ group \in [run : Runs \cup {None}, members : SUBSET Controllers]
      /\ operation \in Operation \cup {None}
  BY DEF TypeInv, TypeOK
<1>a. operation \in Operation
        => /\ operation.commands \subseteq Controllers
           /\ operation.failed \subseteq Controllers
           /\ operation.run \in Runs \cup {None}
  BY DEF Operation
<1>b. ~Idle => operation \in Operation
  BY <1>0 DEF Idle
<1>1. CASE Bound
  <2>1. operation \in Operation /\ operation.step = "bind"
    BY <1>1, <1>b DEF Bound, Done, At
  <2>2. audio' \in [run : Runs \cup {None, Local}, hold : Runs \cup {None}]
    BY <1>0, <1>1 DEF Bound
  <2>3. CASE operation.kind = "Play" /\ Continues("prepare")
    <3>1. operation' \in Operation /\ operation'.step = "prepare" /\ operation'.todo = bindings
      BY <1>0, <1>1, <2>1, <2>3, ContinuesType DEF Bound
    <3>2. Len(plan) < MaxRuns
      BY <1>1, <2>3 DEF TypeInv, Room, Bound, Done
    <3> QED
      BY <1>0, <1>1, <2>2, <3>1, <3>2, ProceedType DEF Bound, controllers
  <2>4. CASE operation' = None
    BY <1>0, <1>1, <2>2, <2>4, ProceedType DEF Bound, controllers, At, Idle
  <2> QED
    BY <1>1, <2>3, <2>4 DEF Bound
<1>2. CASE Prepared
  <2>1. operation \in Operation /\ operation.step = "prepare"
    BY <1>2, <1>b DEF Prepared, Done, At
  <2>2. operation' \in Operation /\ operation'.step = "ready" /\ operation'.todo = bindings
    BY <1>0, <1>2, <2>1, ContinuesType DEF Prepared
  <2>3. Len(plan) < MaxRuns
    BY <1>2 DEF TypeInv, Room, Prepared, Done
  <2> QED
    BY <1>0, <1>2, <2>2, <2>3, ProceedType DEF Prepared, controllers, desktop
<1>3. CASE Confirm
  <2>1. operation \in Operation
    BY <1>3, <1>b DEF Confirm, Done, At
  <2>2. operation' \in Operation /\ operation'.step \in {"act", "cancel"}
    BY <1>3, <2>1, StepType, UndoesType DEF Confirm
  <2> QED
    BY <1>0, <1>3, <2>2, ProceedType DEF Confirm, controllers, desktop, At
<1>4. CASE PlayAt
  <2>1. operation \in Operation
    BY <1>4, <1>b DEF PlayAt, At
  <2>2. /\ failures' \subseteq Controllers
        /\ audio' \in [run : Runs \cup {None, Local}, hold : Runs \cup {None}]
    BY <1>0, <1>4, <1>a, <2>1 DEF PlayAt, Takes
  <2>3. group' \in [run : Runs \cup {None}, members : SUBSET Controllers]
    BY <1>4, <1>a, <2>1 DEF PlayAt, Takes
  <2> QED
    BY <1>0, <1>4, <2>2, <2>3, ProceedType DEF PlayAt, Takes, controllers, At, Idle
<1>5. CASE AudioFails
  <2>1. operation \in Operation
    BY <1>5, <1>b DEF AudioFails, At
  <2>2. operation' \in Operation /\ operation'.step = "cancel"
    BY <1>5, <2>1, UndoesType DEF AudioFails
  <2>3. /\ failures' \subseteq Controllers
        /\ audio' \in [run : Runs \cup {None, Local}, hold : Runs \cup {None}]
    BY <1>0, <1>5, <1>a, <2>1, SilenceType DEF AudioFails
  <2> QED
    BY <1>0, <1>5, <2>2, <2>3, ProceedType DEF AudioFails, controllers, At
<1>6. CASE HoldAt
  <2>1. operation \in Operation
    BY <1>6, <1>b DEF HoldAt, At
  <2>2. operation' \in Operation /\ operation'.step = "sleep"
    BY <1>6, <2>1, StepType DEF HoldAt
  <2>3. /\ failures' \subseteq Controllers
        /\ audio' \in [run : Runs \cup {None, Local}, hold : Runs \cup {None}]
    BY <1>0, <1>6, <1>a, <2>1 DEF HoldAt, Takes
  <2>4. group' \in [run : Runs \cup {None}, members : SUBSET Controllers]
    BY <1>6, <1>a, <2>1 DEF HoldAt, Takes
  <2> QED
    BY <1>0, <1>6, <2>2, <2>3, <2>4, ProceedType DEF HoldAt, Takes, controllers, At
<1>7. CASE Held
  BY <1>0, <1>7, SilenceType, ProceedType DEF Held, controllers, At, Idle
<1>8. CASE Report
  <2>1. operation \in Operation
    BY <1>8, <1>b DEF Report, Done, At
  <2>2. warned' \subseteq Controllers
    BY <1>8, <1>a, <2>1 DEF Report
  <2>3. group' \in [run : Runs \cup {None}, members : SUBSET Controllers]
    BY <1>8 DEF Report, Nobody
  <2> QED
    BY <1>0, <1>8, <2>2, <2>3, ProceedType DEF Report, controllers, At, Idle
<1>9. CASE Released
  <2>1. failures' \subseteq Controllers
    BY <1>9 DEF Released
  <2> QED
    BY <1>0, <1>9, <2>1, ProceedType DEF Released, controllers, At, Idle
<1> QED
  BY <1>1, <1>2, <1>3, <1>4, <1>5, <1>6, <1>7, <1>8, <1>9

LEMMA CancelType ==
  ASSUME TypeInv, NEW c \in Controllers, Cancel(c)
  PROVE  TypeInv'
<1> DEFINE t == transport[c]
           id == NextCommand(c)
<1>1. t \in State
  BY DEF TypeInv, TypeOK, TransportTypeOK
<1>2. operation \in Operation /\ operation.step = "cancel"
  BY UnderWay DEF TypeInv, Cancel, Turn
<1>3. Cancelled(t, id) \in State
  BY <1>1, CancelledType
<1>4. transport' \in [Controllers -> State]
  <2>1. PICK u \in {t, Cancelled(t, id)} : Set(c, u)
    BY DEF Cancel, Reaches
  <2> QED
    BY <1>1, <1>3, <2>1, SetType DEF TypeInv
<1>5. operation' \in Operation /\ operation'.step = "cancel"
  BY <1>2, PassesType, FailedType DEF Cancel, SameBut
<1>6. faults' \in 0..MaxFaults
  BY FaultType DEF Cancel, TypeInv
<1>7. TypeOK'
  BY <1>4, <1>5, <1>6 DEF Cancel, desktop, TypeInv, TypeOK, TransportTypeOK
<1>8. Room' /\ Driven'
  BY <1>5 DEF Room, Driven, At
<1> QED
  BY <1>7, <1>8 DEF TypeInv

LEMMA ReleaseType ==
  ASSUME TypeInv, NEW c \in Controllers, Release(c), NoFault
  PROVE  TypeInv'
<1>1. transport[c] \in State
  BY DEF TypeInv, TypeOK, TransportTypeOK
<1>2. operation \in Operation /\ ~Idle
  BY UnderWay DEF TypeInv, Release, Turn, At
<1>3. /\ operation' \in Operation
      /\ operation'.step = operation.step /\ operation'.kind = operation.kind
      /\ operation'.todo = operation.todo \ {c}
  BY <1>2, PassesType DEF Release, SameBut
<1>4. /\ transport' \in [Controllers -> State]
      /\ bindings' = bindings \ {c} /\ bindings' \subseteq Controllers
      /\ uploaded' \subseteq bindings'
      /\ group' \in [run : Runs \cup {None}, members : SUBSET Controllers]
  BY <1>1, ReleasesType DEF TypeInv, Release
<1>5. TypeOK'
  BY <1>3, <1>4 DEF Release, NoFault, TypeInv, TypeOK, TransportTypeOK
<1>6. Room' /\ Driven'
  BY <1>2, <1>3, <1>4, SameRoom DEF Release
<1> QED
  BY <1>5, <1>6 DEF TypeInv

\* A controller changes by itself, or by the hand of someone else.
LEMMA AloneType ==
  ASSUME TypeInv, NEW c \in Controllers, NEW t \in State, Set(c, t),
         UNCHANGED <<plan, over, desktop, operation>>,
         disturbed' \subseteq Controllers, Fault \/ NoFault
  PROVE  TypeInv'
<1>1. transport' \in [Controllers -> State]
  BY SetType DEF TypeInv
<1>2. faults' \in 0..MaxFaults
  BY FaultType DEF TypeInv
<1>3. TypeOK'
  BY <1>1, <1>2 DEF desktop, TypeInv, TypeOK, TransportTypeOK
<1>4. Room' /\ Driven'
  BY DEF desktop, TypeInv, Room, Driven, At, Idle
<1> QED
  BY <1>3, <1>4 DEF TypeInv

LEMMA TickType ==
  ASSUME TypeInv, Passing, NoFault
  PROVE  /\ TypeInv'
         /\ Len(plan') = Len(plan)
         /\ \A r \in DOMAIN plan : plan'[r].kind = plan[r].kind
<1> DEFINE Decision == [kind : Kinds, left : 0..Lead]
           later(d) == [d EXCEPT !.left = IF @ = 0 THEN 0 ELSE @ - 1]
<1>1. plan \in Seq(Decision)
  BY DEF TypeInv, TypeOK, TransportTypeOK
<1>2. \A d \in Decision : later(d) \in Decision /\ later(d).kind = d.kind
  BY TransportAssumption
<1>3. plan' = [r \in DOMAIN plan |-> later(plan[r])]
  BY DEF Passing, Tick
<1> HIDE DEF Decision, later
<1>4. plan' \in Seq(Decision) /\ Len(plan') = Len(plan) /\ DOMAIN plan' = DOMAIN plan
  BY <1>1, <1>2, <1>3
<1>5. \A r \in DOMAIN plan : plan'[r].kind = plan[r].kind
  BY <1>1, <1>2, <1>3
<1>6. TypeOK'
  BY <1>4 DEF Passing, Tick, desktop, NoFault, TypeInv, TypeOK, TransportTypeOK, Decision
<1>7. Room' /\ Driven'
  BY <1>4 DEF Passing, Tick, desktop, TypeInv, Room, Driven, At, Idle
<1> QED
  BY <1>4, <1>5, <1>6, <1>7 DEF TypeInv

LEMMA EndsType ==
  ASSUME TypeInv, NEW r \in Runs, SequenceEnds(r), NoFault
  PROVE  TypeInv'
<1>1. audio' \in [run : Runs \cup {None, Local}, hold : Runs \cup {None}]
  BY DEF SequenceEnds, TypeInv, TypeOK
<1>2. TypeOK'
  BY <1>1 DEF SequenceEnds, NoFault, TypeInv, TypeOK, TransportTypeOK
<1>3. Room' /\ Driven'
  BY DEF SequenceEnds, TypeInv, Room, Driven, At, Idle
<1> QED
  BY <1>2, <1>3 DEF TypeInv

LEMMA RendersType ==
  ASSUME TypeInv, NEW c \in Controllers, Renders(c), NoFault
  PROVE  TypeInv'
<1>1. transport[c] \in State
  BY DEF TypeInv, TypeOK, TransportTypeOK
<1>2. Refreshed(transport[c]) \in State
  BY <1>1, RefreshedType
<1>3. disturbed' \subseteq Controllers
  BY DEF TypeInv, TypeOK, Renders
<1> QED
  BY <1>2, <1>3, AloneType DEF Renders, Refresh

LEMMA RestartType ==
  ASSUME TypeInv, NEW c \in Controllers, Restart(c)
  PROVE  TypeInv'
<1>1. transport[c] \in State /\ transport[c].show \in {None, "other", "ours"}
  BY DEF TypeInv, TypeOK, TransportTypeOK, State
<1>2. PICK show \in {transport[c].show, None} : Set(c, Restarted(transport[c], show))
  BY DEF Restart
<1>3. Restarted(transport[c], show) \in State
  BY <1>1, RestartedType
<1>4. disturbed' \subseteq Controllers
  BY DEF TypeInv, TypeOK, Restart
<1> QED
  BY <1>2, <1>3, <1>4, AloneType DEF Restart

LEMMA ByHandType ==
  ASSUME TypeInv, NEW c \in Controllers, ByHand(c)
  PROVE  TypeInv'
<1>1. transport[c] \in State
  BY DEF TypeInv, TypeOK, TransportTypeOK
<1>2. PICK mode \in {Looping, Dark} : Set(c, Applied(transport[c], mode))
  BY DEF ByHand, Standalone
<1>3. Applied(transport[c], mode) \in State
  BY <1>1, AppliedType DEF Marks
<1>4. disturbed' \subseteq Controllers
  BY DEF TypeInv, TypeOK, ByHand
<1> QED
  BY <1>2, <1>3, <1>4, AloneType DEF ByHand, Standalone

LEMMA TypeStep == TypeInv /\ [Next]_vars => TypeInv'
<1> SUFFICES ASSUME TypeInv, [Next]_vars PROVE TypeInv'
  OBVIOUS
<1>1. CASE Exchange
  BY <1>1, BindType, PrepareType, ReadyType, SendType, CancelType DEF Exchange, Exchanges
<1>2. CASE \E c \in Controllers : Restart(c) \/ ByHand(c)
  BY <1>2, RestartType, ByHandType
<1>3. CASE Operates /\ NoFault
  BY <1>3, OperatesType
<1>4. CASE Proceeds /\ NoFault
  BY <1>4, ReleaseType, AimTypeStep, ProceedsType DEF Proceeds
<1>5. CASE Passing /\ NoFault
  BY <1>5, TickType
<1>6. CASE (\E c \in Controllers : Renders(c)) /\ NoFault
  BY <1>6, RendersType
<1>7. CASE (\E r \in Runs : SequenceEnds(r)) /\ NoFault
  BY <1>7, EndsType
<1>8. CASE UNCHANGED vars
  BY <1>8 DEF vars, controllers, desktop, TypeInv, TypeOK, TransportTypeOK, Room, Driven,
              At, Idle
<1> QED
  BY <1>1, <1>2, <1>3, <1>4, <1>5, <1>6, <1>7, <1>8 DEF Next

\* TypeOK: the state of the group and of every controller keeps its type, and the
\* operations never take more decisions than they may.
THEOREM DeviceTypeCorrect == Spec => []TypeOK
<1>1. TypeInv => TypeOK
  BY DEF TypeInv
<1> QED
  BY <1>1, TypeInit, TypeStep, PTL DEF Spec
-----------------------------------------------------------------------------
(***************************************************************************)
(* Together and ErrorsNameTheArmed.  A controller is armed by Send alone,  *)
(* so what an operation still has to do, and what it noted, tells who may  *)
(* be armed; and one that follows a run does so until the next Send.       *)
(***************************************************************************)
\* Armed with run r, or showing it, or what is left of it at the end.
Follows(c, r) ==
  \/ transport[c].pending = r
  \/ transport[c].pending = None /\ transport[c].mode \in {ModeOf(r), Ended}

Settled == Idle \/ At("bind") \/ At("sleep") \/ At("release")
Scheduling == At("send") \/ At("act")

Progress ==
  /\ At("bind") \/ At("prepare") \/ At("ready") => operation.commands = {}
  /\ At("send") => /\ operation.commands \cap operation.todo = {}
                   /\ bindings \subseteq operation.todo \cup operation.commands
  /\ At("act") => bindings \subseteq operation.commands
  /\ Scheduling => operation.commands \subseteq bindings /\ operation.run \in DOMAIN plan
  /\ group.members \subseteq bindings
  /\ group.members # {} => group.run \in DOMAIN plan

Named == At("cancel") => \A c \in bindings : \/ transport[c].pending = None
                                            \/ c \in operation.todo \cup operation.failed

Following ==
  /\ Settled => \A c \in group.members \ disturbed : Follows(c, group.run)
  /\ Scheduling => \A c \in operation.commands \ disturbed : Follows(c, operation.run)

GroupInv == Progress /\ Named /\ Following

LEMMA SameFollows ==
  ASSUME NEW d, NEW r, transport'[d] = transport[d], plan' = plan, Follows(d, r)
  PROVE  Follows(d, r)'
BY DEF Follows, ModeOf

LEMMA GroupInit == Init => GroupInv
BY DEF Init, GroupInv, Progress, Named, Following, At, Idle, Nobody, Settled, Scheduling

LEMMA BeginsGroup ==
  ASSUME TypeInv, GroupInv, Idle, NEW step \in {"bind", "prepare", "ready", "release"},
         NEW kind \in Kinds, NEW todo \in SUBSET Controllers, Begins(step, kind, todo),
         UNCHANGED <<transport, plan, bindings, group, disturbed>>
  PROVE  GroupInv'
<1>1. /\ operation' \in Operation
      /\ operation'.step = step
      /\ operation'.todo = todo /\ operation'.commands = {}
  BY OperatingType DEF Steps
<1>2. Progress'
  BY <1>1 DEF GroupInv, Progress, Scheduling, At
<1>3. Named'
  BY <1>1 DEF Named, At
<1>4. Following'
  BY <1>1, SameFollows DEF GroupInv, Following, Settled, Scheduling, At
<1> QED
  BY <1>2, <1>3, <1>4 DEF GroupInv

LEMMA OperatesGroup ==
  ASSUME TypeInv, GroupInv, Operates
  PROVE  GroupInv'
<1> USE StepNames
<1>0. bindings \subseteq Controllers
  BY DEF TypeInv, TypeOK
<1>1. CASE Play
  BY <1>0, <1>1, BeginsGroup DEF Play, Free, controllers
<1>2. CASE Connect
  BY <1>0, <1>2, BeginsGroup DEF Connect, controllers
<1>3. CASE Reschedule
  BY <1>0, <1>3, BeginsGroup DEF Reschedule, Free, desktop, controllers
<1>4. ASSUME NEW kind \in {"Pause", "Stop"}, Hold(kind)
      PROVE  GroupInv'
  <2> DEFINE step == IF Playing THEN "ready" ELSE "prepare"
  <2>1. step \in {"ready", "prepare"} /\ kind \in Kinds
    OBVIOUS
  <2>2. Begins(step, kind, bindings) /\ Idle
    BY <1>4 DEF Hold, Free
  <2> HIDE DEF step
  <2> QED
    BY <1>0, <1>4, <2>1, <2>2, BeginsGroup DEF Hold, desktop, controllers
<1>5. CASE LiveOff
  BY <1>0, <1>5, BeginsGroup DEF LiveOff, desktop, controllers
<1>6. CASE LocalHold
  <2>1. UNCHANGED <<transport, plan, bindings, group, disturbed, operation>>
    BY <1>6 DEF LocalHold, controllers
  <2> QED
    BY <2>1, SameFollows DEF GroupInv, Progress, Named, Following, Settled, Scheduling,
                             At, Idle
<1> QED
  BY <1>1, <1>2, <1>3, <1>4, <1>5, <1>6 DEF Operates

LEMMA BindGroup ==
  ASSUME TypeInv, GroupInv, NEW c \in Controllers, Bind(c)
  PROVE  GroupInv'
<1>1. operation \in Operation /\ operation.step = "bind" /\ ~Idle
  BY UnderWay DEF TypeInv, Bind, Binds, Turn, At
<1>2. /\ operation' \in Operation
      /\ operation'.step = "bind"
      /\ operation'.todo = operation.todo \ {c}
      /\ operation'.commands = operation.commands
  BY <1>1, PassesType DEF Bind, Binds, SameBut
<1>3. /\ \A d \in Controllers \ {c} : transport'[d] = transport[d]
      /\ bindings \ {c} \subseteq bindings' /\ group'.run = group.run
      /\ \/ UNCHANGED <<transport, bindings, group>>
         \/ group'.members = group.members \ {c}
  BY BindChanges DEF TypeInv
<1>4. UNCHANGED <<plan, disturbed>>
  BY DEF Bind, Binds
<1>5. Progress'
  BY <1>1, <1>2, <1>3, <1>4 DEF GroupInv, Progress, Scheduling, At
<1>6. Named'
  BY <1>2 DEF Named, At
<1>7. Following'
  <2>1. \A d \in group.members \ disturbed : Follows(d, group.run)
    BY <1>1 DEF GroupInv, Following, Settled, At
  <2>2. \A d \in group'.members : d \in group.members /\ transport'[d] = transport[d]
    BY <1>3 DEF TypeInv, TypeOK
  <2> QED
    BY <1>2, <1>3, <1>4, <2>1, <2>2, SameFollows DEF Following, Scheduling, At
<1> QED
  BY <1>5, <1>6, <1>7 DEF GroupInv

\* While the show is brought to the controllers and their clocks are set, nothing
\* is said of what they show.
LEMMA PreparesGroup ==
  ASSUME TypeInv, GroupInv, NEW c \in Controllers, Prepare(c) \/ Ready(c)
  PROVE  GroupInv'
<1>1. /\ operation \in Operation /\ operation.step \in {"prepare", "ready"}
      /\ ~Idle
  BY UnderWay DEF TypeInv, Prepare, Ready, Turn, At
<1>2. /\ operation' \in Operation
      /\ operation'.step = operation.step
      /\ operation'.commands = operation.commands
  <2>1. transport[c] \in State
    BY DEF TypeInv, TypeOK, TransportTypeOK
  <2>2. CASE Prepare(c)
    BY <1>1, <2>2, PassesType DEF Prepare, SameBut
  <2>3. CASE Ready(c)
    BY <1>1, <2>1, <2>3, SampledType, FailedType DEF Ready, SameBut
  <2> QED
    BY <2>2, <2>3
<1>3. /\ \/ UNCHANGED <<bindings, group>>
         \/ /\ bindings' = bindings \ {c}
            /\ group'.members = group.members \ {c} /\ group'.run = group.run
      /\ plan' = plan
  <2>1. \A u \in State : Releases(c, u)
          => /\ bindings' = bindings \ {c}
             /\ group'.members = group.members \ {c} /\ group'.run = group.run
    BY ReleasesType DEF TypeInv
  <2>2. transport[c] \in State /\ transport[c].show \in {None, "other", "ours"}
    BY DEF TypeInv, TypeOK, TransportTypeOK, State
  <2>3. CASE Prepare(c)
    BY <2>1, <2>2, <2>3, UploadedType DEF Prepare
  <2>4. CASE Ready(c)
    BY <2>1, <2>2, <2>4, SynchronizedType DEF Ready, Reaches
  <2> QED
    BY <2>3, <2>4
<1>4. Progress'
  BY <1>1, <1>2, <1>3 DEF GroupInv, Progress, Scheduling, At
<1>5. Named' /\ Following'
  BY <1>1, <1>2, OperationAssumption DEF Named, Following, Settled, Scheduling, At, Idle
<1> QED
  BY <1>4, <1>5 DEF GroupInv

LEMMA AimGroup ==
  ASSUME TypeInv, GroupInv, Aim, NoFault
  PROVE  GroupInv'
<1>1. operation \in Operation /\ operation.step = "ready" /\ operation.commands = {}
  BY UnderWay DEF TypeInv, GroupInv, Progress, Aim, Done, At
<1>2. plan \in Seq([kind : Kinds, left : 0..Lead]) /\ bindings \subseteq Controllers
  BY DEF TypeInv, TypeOK, TransportTypeOK
<1>3. Len(plan) + 1 \in Runs
  BY <1>2, TransportAssumption DEF TypeInv, Room, Aim, Done, Runs
<1>4. /\ operation' \in Operation /\ operation'.step = "send"
      /\ operation'.todo = bindings /\ operation'.run = Len(plan) + 1
      /\ operation'.commands = {}
  BY <1>1, <1>2, <1>3, AimType DEF Aim
<1>5. /\ Len(plan) + 1 \in DOMAIN plan'
      /\ \A r \in DOMAIN plan : r \in DOMAIN plan'
  BY <1>2, AimTypeStep
<1>6. Progress'
  BY <1>4, <1>5 DEF Aim, GroupInv, Progress, Scheduling, At
<1>7. Named' /\ Following'
  BY <1>4, OperationAssumption DEF Named, Following, Settled, Scheduling, At, Idle
<1> QED
  BY <1>6, <1>7 DEF GroupInv

LEMMA SendGroup ==
  ASSUME TypeInv, GroupInv, NEW c \in Controllers, Send(c)
  PROVE  GroupInv'
<1> DEFINE t == transport[c]
           m == Command(operation.run, NextCommand(c), operation.sample[c].boot)
<1>1. /\ operation \in Operation /\ operation.step = "send"
      /\ ~Idle /\ c \in operation.todo
      /\ t \in State
  BY UnderWay DEF TypeInv, TypeOK, TransportTypeOK, Send, Turn, At
<1>2. /\ c \notin operation.commands
      /\ operation.commands \subseteq bindings
      /\ operation.run \in DOMAIN plan
      /\ bindings \subseteq operation.todo \cup operation.commands
      /\ \A d \in operation.commands \ disturbed : Follows(d, operation.run)
  BY <1>1 DEF GroupInv, Progress, Following, Scheduling, At
<1>3. UNCHANGED <<plan, disturbed>>
  BY DEF Send
<1>4. m.id = NextCommand(c) /\ NextCommand(c) \in Nat
  BY <1>1, TransportAssumption DEF Command, NextCommand, Operation
<1>5. m.id <= MaxCommand
        => /\ Scheduled(t, m) \in State
           /\ Accepts(t, m) => Scheduled(t, m).pending = operation.run
  <2> SUFFICES ASSUME m.id <= MaxCommand
               PROVE  /\ Scheduled(t, m) \in State
                      /\ Accepts(t, m) => Scheduled(t, m).pending = operation.run
    OBVIOUS
  <2>1. NextCommand(c) \in 0..MaxCommand
    BY <1>4, TransportAssumption
  <2>2. operation.run \in Runs \cup {None}
    BY <1>1 DEF Operation
  <2> QED
    BY <1>1, <2>1, <2>2, ScheduledType
<1> HIDE DEF t, m
<1>6. CASE /\ m.id <= MaxCommand /\ Accepts(t, m)
           /\ Set(c, Scheduled(t, m))
           /\ operation' = [operation EXCEPT !.todo = @ \ {c}, !.commands = @ \cup {c}]
           /\ UNCHANGED <<bindings, uploaded, group>> /\ NoFault
  <2>1. /\ operation' \in Operation /\ operation'.step = "send"
        /\ operation'.todo = operation.todo \ {c} /\ operation'.run = operation.run
        /\ operation'.commands = operation.commands \cup {c}
    BY <1>1, <1>6, ArmedType
  <2>2. /\ transport'[c].pending = operation.run
        /\ \A d \in Controllers \ {c} : transport'[d] = transport[d]
    BY <1>5, <1>6, SetType DEF TypeInv
  <2>3. c \in bindings
    BY <1>1 DEF TypeInv, Driven, At
  <2>4. Progress'
    BY <1>1, <1>2, <1>3, <1>6, <2>1, <2>3 DEF GroupInv, Progress, Scheduling, At
  <2>5. Follows(c, operation.run)'
    BY <2>1, <2>2 DEF Follows
  <2>6. \A d \in operation.commands \ disturbed : Follows(d, operation.run)'
    <3>1. operation.commands \subseteq Controllers \ {c}
      BY <1>1, <1>2 DEF Operation
    <3> QED
      BY <1>2, <1>3, <2>1, <2>2, <3>1 DEF Follows, ModeOf
  <2>7. Named' /\ Following'
    BY <1>3, <2>1, <2>5, <2>6, OperationAssumption
       DEF Named, Following, Settled, Scheduling, At, Idle
  <2> QED
    BY <2>4, <2>7 DEF GroupInv
<1>7. ASSUME NEW u \in State, Releases(c, u),
             operation' = [operation EXCEPT !.todo = @ \ {c}, !.failed = @ \cup {c}]
      PROVE  GroupInv'
  <2>1. /\ operation' \in Operation /\ operation'.step = "send"
        /\ operation'.todo = operation.todo \ {c} /\ operation'.run = operation.run
        /\ operation'.commands = operation.commands
    BY <1>1, <1>7, FailedType DEF SameBut
  <2>2. /\ \A d \in Controllers \ {c} : transport'[d] = transport[d]
        /\ bindings' = bindings \ {c}
        /\ group'.run = group.run /\ group'.members = group.members \ {c}
    BY <1>7, ReleasesType DEF TypeInv
  <2>3. Progress'
    BY <1>1, <1>2, <1>3, <2>1, <2>2 DEF GroupInv, Progress, Scheduling, At
  <2>4. \A d \in operation.commands \ disturbed : Follows(d, operation.run)'
    <3>1. operation.commands \subseteq Controllers \ {c}
      BY <1>1, <1>2 DEF Operation
    <3> QED
      BY <1>2, <1>3, <2>1, <2>2, <3>1 DEF Follows, ModeOf
  <2>5. Named' /\ Following'
    BY <1>3, <2>1, <2>4, OperationAssumption
       DEF Named, Following, Settled, Scheduling, At, Idle
  <2> QED
    BY <2>3, <2>5 DEF GroupInv
<1>8. ASSUME m.id <= MaxCommand, NEW u \in Reaches(t, Scheduled(t, m)),
             NEW v \in Reaches(u, Cancelled(u, m.id))
      PROVE  v \in State
  <2>1. u \in State
    BY <1>1, <1>5, <1>8 DEF Reaches
  <2> QED
    BY <2>1, <1>8, CancelledType DEF Reaches
<1> QED
  BY <1>1, <1>6, <1>7, <1>8 DEF Send, t, m

LEMMA ProceedsGroup ==
  ASSUME TypeInv, GroupInv,
         Bound \/ Prepared \/ Confirm \/ PlayAt \/ AudioFails \/ HoldAt \/ Held
           \/ Report \/ Released
  PROVE  GroupInv'
<1> USE StepNames
<1>0. /\ bindings \subseteq Controllers
      /\ ~Idle => operation \in Operation
  BY DEF TypeInv, TypeOK, Idle
<1>a. UNCHANGED <<transport, plan, bindings, disturbed>>
  BY DEF Bound, Prepared, Confirm, PlayAt, AudioFails, HoldAt, Held, Report, Released, Takes,
         controllers, desktop
<1>b. \A d, r : Follows(d, r) => Follows(d, r)'
  BY <1>a, SameFollows
<1>1. CASE Bound
  <2>1. operation \in Operation /\ operation.step = "bind" /\ ~Idle
    BY <1>0, <1>1 DEF Bound, Done, At
  <2>2. operation.commands = {}
    BY <1>1 DEF Bound, Done, GroupInv, Progress
  <2>3. \/ operation' = None
        \/ /\ operation' \in Operation /\ operation'.step = "prepare"
           /\ operation'.todo = bindings /\ operation'.commands = {}
    BY <1>0, <1>1, <2>1, <2>2, ContinuesType DEF Bound
  <2>4. group' = group
    BY <1>1 DEF Bound
  <2>5. Progress' /\ Named'
    BY <1>a, <2>3, <2>4 DEF GroupInv, Progress, Named, Scheduling, At, Idle
  <2>6. Following'
    BY <1>a, <1>b, <2>1, <2>3, <2>4 DEF GroupInv, Following, Settled, Scheduling, At, Idle
  <2> QED
    BY <2>5, <2>6 DEF GroupInv
<1>2. CASE Prepared
  <2>1. operation \in Operation /\ operation.step = "prepare"
    BY <1>0, <1>2 DEF Prepared, Done, At
  <2>2. operation.commands = {}
    BY <1>2 DEF Prepared, Done, GroupInv, Progress
  <2>3. /\ operation' \in Operation /\ operation'.step = "ready"
        /\ operation'.todo = bindings /\ operation'.commands = {}
    BY <1>0, <1>2, <2>1, <2>2, ContinuesType DEF Prepared
  <2>4. Progress' /\ Named'
    BY <1>2, <1>a, <2>3 DEF Prepared, desktop, GroupInv, Progress, Named, Scheduling, At, Idle
  <2>5. Following'
    BY <2>3, OperationAssumption DEF Following, Settled, Scheduling, At, Idle
  <2> QED
    BY <2>4, <2>5 DEF GroupInv
<1>3. CASE Confirm
  <2>1. operation \in Operation /\ operation.step = "send" /\ operation.todo = {} /\ ~Idle
    BY <1>0, <1>3 DEF Confirm, Done, At
  <2>2. \/ /\ operation' \in Operation /\ operation'.step = "act"
           /\ operation'.commands = operation.commands /\ operation'.run = operation.run
        \/ /\ operation' \in Operation /\ operation'.step = "cancel"
           /\ operation'.todo = operation.commands
    BY <1>3, <2>1, StepType, UndoesType DEF Confirm
  <2>3. bindings \subseteq operation.commands /\ group' = group
    BY <1>3, <2>1 DEF Confirm, desktop, GroupInv, Progress, At
  <2>4. Progress' /\ Named'
    BY <1>a, <2>1, <2>2, <2>3 DEF GroupInv, Progress, Named, Scheduling, At, Idle
  <2>5. Following'
    BY <1>a, <1>b, <2>1, <2>2, OperationAssumption
       DEF GroupInv, Following, Settled, Scheduling, At, Idle
  <2> QED
    BY <2>4, <2>5 DEF GroupInv
<1>4. CASE AudioFails
  <2>1. operation \in Operation /\ operation.step = "act" /\ ~Idle
    BY <1>0, <1>4 DEF AudioFails, At
  <2>2. /\ operation' \in Operation /\ operation'.step = "cancel"
        /\ operation'.todo = operation.commands
    BY <1>4, <2>1, UndoesType DEF AudioFails
  <2>3. bindings \subseteq operation.commands /\ group' = group
    BY <1>4, <2>1 DEF AudioFails, GroupInv, Progress, At
  <2>4. Progress' /\ Named'
    BY <1>a, <2>1, <2>2, <2>3 DEF GroupInv, Progress, Named, Scheduling, At, Idle
  <2>5. Following'
    BY <2>2, OperationAssumption DEF Following, Settled, Scheduling, At, Idle
  <2> QED
    BY <2>4, <2>5 DEF GroupInv
<1>5. CASE PlayAt \/ HoldAt
  <2>1. operation \in Operation /\ operation.step = "act" /\ ~Idle
    BY <1>0, <1>5 DEF PlayAt, HoldAt, At
  <2>2. \/ operation' = None
        \/ operation' \in Operation /\ operation'.step = "sleep"
    BY <1>5, <2>1, StepType DEF PlayAt, HoldAt
  <2>3. group'.run = operation.run /\ group'.members = operation.commands
    BY <1>5 DEF PlayAt, HoldAt, Takes
  <2>4. Progress' /\ Named'
    BY <1>a, <2>1, <2>2, <2>3 DEF GroupInv, Progress, Named, Scheduling, At, Idle
  <2>5. Following'
    BY <1>a, <1>b, <2>1, <2>2, <2>3 DEF GroupInv, Following, Settled, Scheduling, At, Idle
  <2> QED
    BY <2>4, <2>5 DEF GroupInv
<1>6. CASE Held \/ Released
  <2>1. ~Idle /\ operation.step \in {"sleep", "release"}
    BY <1>6 DEF Held, Released, Done, At
  <2>2. operation' = None /\ group' = group
    BY <1>6 DEF Held, Released
  <2>3. Progress' /\ Named'
    BY <1>a, <2>2 DEF GroupInv, Progress, Named, Scheduling, At, Idle
  <2>4. Following'
    BY <1>a, <1>b, <2>1, <2>2 DEF GroupInv, Following, Settled, Scheduling, At, Idle
  <2> QED
    BY <2>3, <2>4 DEF GroupInv
<1>7. CASE Report
  <2>1. operation' = None /\ group'.members = {}
    BY <1>7 DEF Report, Nobody
  <2> QED
    BY <2>1 DEF GroupInv, Progress, Named, Following, Settled, Scheduling, At, Idle
<1> QED
  BY <1>1, <1>2, <1>3, <1>4, <1>5, <1>6, <1>7

LEMMA CancelGroup ==
  ASSUME TypeInv, GroupInv, NEW c \in Controllers, Cancel(c)
  PROVE  GroupInv'
<1> DEFINE t == transport[c]
           id == NextCommand(c)
<1>1. /\ operation \in Operation /\ operation.step = "cancel" /\ ~Idle
      /\ t \in State
  BY UnderWay DEF TypeInv, TypeOK, TransportTypeOK, Cancel, Turn, At
<1>2. UNCHANGED <<plan, bindings, group>>
  BY DEF Cancel, desktop
<1>3. /\ operation' \in Operation /\ operation'.step = "cancel"
      /\ operation'.todo = operation.todo \ {c}
      /\ \/ operation'.failed = operation.failed /\ transport'[c].pending = None
         \/ operation'.failed = operation.failed \cup {c}
      /\ \A d \in Controllers \ {c} : transport'[d] = transport[d]
  <2>1. Cancelled(t, id) \in State /\ (Cancels(t, id) => Cancelled(t, id).pending = None)
    BY <1>1, CancelledType
  <2> HIDE DEF t, id
  <2>2. CASE Cancels(t, id) /\ Set(c, Cancelled(t, id)) /\ Passes(c)
    BY <1>1, <2>1, <2>2, PassesType, SetType DEF SameBut, TypeInv
  <2>3. CASE /\ \E u \in {t, Cancelled(t, id)} : Set(c, u)
             /\ operation' = [operation EXCEPT !.todo = @ \ {c}, !.failed = @ \cup {c}]
    BY <1>1, <2>1, <2>3, FailedType, SetType DEF SameBut, TypeInv
  <2> QED
    BY <2>2, <2>3 DEF Cancel, Reaches, t, id
<1>4. Progress'
  BY <1>2, <1>3 DEF GroupInv, Progress, Scheduling, At
<1>5. Named'
  <2>1. \A d \in bindings : transport[d].pending = None
                              \/ d \in operation.todo \cup operation.failed
    BY <1>1 DEF GroupInv, Named, At
  <2>2. bindings \subseteq Controllers
    BY DEF TypeInv, TypeOK
  <2> QED
    BY <1>2, <1>3, <2>1, <2>2 DEF Named
<1>6. Following'
  BY <1>3, OperationAssumption DEF Following, Settled, Scheduling, At, Idle
<1> QED
  BY <1>4, <1>5, <1>6 DEF GroupInv

LEMMA ReleaseGroup ==
  ASSUME TypeInv, GroupInv, NEW c \in Controllers, Release(c)
  PROVE  GroupInv'
<1>1. /\ operation \in Operation /\ operation.step = "release" /\ ~Idle
      /\ transport[c] \in State
  BY UnderWay DEF TypeInv, TypeOK, TransportTypeOK, Release, Turn, At
<1>2. operation' \in Operation /\ operation'.step = "release"
  BY <1>1, PassesType DEF Release, SameBut
<1>3. /\ \A d \in Controllers \ {c} : transport'[d] = transport[d]
      /\ bindings' = bindings \ {c}
      /\ group'.run = group.run /\ group'.members = group.members \ {c}
      /\ UNCHANGED <<plan, disturbed>>
  BY <1>1, ReleasesType DEF TypeInv, Release
<1>4. Progress' /\ Named'
  BY <1>2, <1>3 DEF GroupInv, Progress, Named, Scheduling, At
<1>5. Following'
  <2>1. \A d \in group.members \ disturbed : Follows(d, group.run)
    BY <1>1 DEF GroupInv, Following, Settled, At
  <2>2. group'.members \subseteq Controllers \ {c}
    BY <1>3 DEF TypeInv, TypeOK
  <2> QED
    BY <1>2, <1>3, <2>1, <2>2, SameFollows DEF Following, Scheduling, At
<1> QED
  BY <1>4, <1>5 DEF GroupInv
-----------------------------------------------------------------------------
(***************************************************************************)
(* What happens by itself.                                                 *)
(***************************************************************************)
LEMMA RefreshedFollows ==
  ASSUME TypeInv, NEW c \in Controllers, NEW r \in Runs, NEW t,
         t = transport[c], Follows(c, r)
  PROVE  \/ Refreshed(t).pending = r
         \/ Refreshed(t).pending = None /\ Refreshed(t).mode \in {ModeOf(r), Ended}
<1>1. t \in State
  BY DEF TypeInv, TypeOK, TransportTypeOK
<1>2. /\ AppliedDue(t) \in State
      /\ \/ AppliedDue(t).pending = r
         \/ AppliedDue(t).pending = None /\ AppliedDue(t).mode \in {ModeOf(r), Ended}
  <2>1. CASE IsDue(t)
    <3>1. t.pending = r
      BY <2>1 DEF Follows, IsDue
    <3> QED
      BY <1>1, <2>1, <3>1, AppliedType, ModeOfType DEF AppliedDue
  <2>2. CASE ~IsDue(t)
    BY <1>1, <2>2 DEF AppliedDue, Follows
  <2> QED
    BY <2>1, <2>2
<1>3. \A u \in State : /\ Applied(u, Ended).mode = Ended
                       /\ Applied(u, Ended).pending = None
  BY AppliedType DEF Marks
<1> QED
  BY <1>2, <1>3 DEF Refreshed

\* Whoever follows a run is a controller, and the run was decided.
LEMMA FollowedRuns ==
  ASSUME TypeInv, GroupInv
  PROVE  /\ group.members \subseteq Controllers
         /\ group.members # {} => group.run \in Runs \cap DOMAIN plan
         /\ Scheduling => /\ operation.commands \subseteq Controllers
                          /\ operation.run \in Runs \cap DOMAIN plan
<1>1. plan \in Seq([kind : Kinds, left : 0..Lead]) /\ Len(plan) <= MaxRuns
  BY DEF TypeInv, TypeOK, TransportTypeOK
<1>2. DOMAIN plan \subseteq Runs
  BY <1>1, TransportAssumption DEF Runs
<1> QED
  BY <1>2 DEF GroupInv, Progress, Scheduling, TypeInv, TypeOK

LEMMA RendersGroup ==
  ASSUME TypeInv, GroupInv, NEW c \in Controllers, Renders(c)
  PROVE  GroupInv'
<1>1. transport[c] \in State /\ Refreshed(transport[c]) \in State
  BY RefreshedType DEF TypeInv, TypeOK, TransportTypeOK
<1>2. /\ transport'[c] = Refreshed(transport[c])
      /\ \A d \in Controllers \ {c} : transport'[d] = transport[d]
      /\ UNCHANGED <<plan, bindings, group, operation, disturbed>>
  BY <1>1, SetType DEF TypeInv, Renders, Refresh, desktop
<1>3. transport[c].pending = None => transport'[c].pending = None
  BY <1>1, <1>2, AppliedType DEF Refreshed, AppliedDue, IsDue, Marks
<1>4. Progress'
  BY <1>2 DEF GroupInv, Progress, Scheduling, At, Idle
<1>5. Named'
  BY <1>2, <1>3 DEF GroupInv, Named, At, Idle, TypeInv, TypeOK
<1>6. \A d \in Controllers, r \in Runs : Follows(d, r) => Follows(d, r)'
  <2> SUFFICES ASSUME NEW d \in Controllers, NEW r \in Runs, Follows(d, r)
               PROVE  Follows(d, r)'
    OBVIOUS
  <2>1. CASE d = c
    <3>1. ModeOf(r)' = ModeOf(r)
      BY <1>2 DEF ModeOf
    <3> QED
      BY <1>2, <2>1, <3>1, RefreshedFollows DEF Follows
  <2>2. CASE d # c
    BY <1>2, <2>2, SameFollows
  <2> QED
    BY <2>1, <2>2
<1>7. Following'
  BY <1>2, <1>6, FollowedRuns DEF GroupInv, Following, Settled, Scheduling, At, Idle
<1> QED
  BY <1>4, <1>5, <1>7 DEF GroupInv

\* A controller that is disturbed is disarmed.
LEMMA DisturbedGroup ==
  ASSUME TypeInv, GroupInv, NEW c \in Controllers, Restart(c) \/ ByHand(c)
  PROVE  GroupInv'
<1>1. transport[c] \in State /\ transport[c].show \in {None, "other", "ours"}
  BY DEF TypeInv, TypeOK, TransportTypeOK, State
<1>2. PICK t \in State : Set(c, t) /\ t.pending = None
  <2>1. CASE Restart(c)
    <3>1. PICK show \in {transport[c].show, None} : Set(c, Restarted(transport[c], show))
      BY <2>1 DEF Restart
    <3> QED
      BY <1>1, <3>1, RestartedType DEF Restarted
  <2>2. CASE ByHand(c)
    <3>1. PICK mode \in {Looping, Dark} : Set(c, Applied(transport[c], mode))
      BY <2>2 DEF ByHand, Standalone
    <3> QED
      BY <1>1, <3>1, AppliedType DEF Marks
  <2> QED
    BY <2>1, <2>2
<1>3. /\ transport'[c].pending = None
      /\ \A d \in Controllers \ {c} : transport'[d] = transport[d]
  BY <1>2, SetType DEF TypeInv
<1>4. /\ disturbed' = disturbed \cup {c}
      /\ UNCHANGED <<plan, bindings, group, operation>>
  BY DEF Restart, ByHand, Standalone, desktop
<1>5. Progress'
  BY <1>4 DEF GroupInv, Progress, Scheduling, At, Idle
<1>6. Named'
  BY <1>3, <1>4 DEF GroupInv, Named, At, Idle, TypeInv, TypeOK
<1>7. Following'
  BY <1>3, <1>4, SameFollows, FollowedRuns
     DEF GroupInv, Following, Settled, Scheduling, At, Idle
<1> QED
  BY <1>5, <1>6, <1>7 DEF GroupInv

LEMMA PassingGroup ==
  ASSUME TypeInv, GroupInv, Passing, NoFault
  PROVE  GroupInv'
<1>1. UNCHANGED <<transport, bindings, group, operation, disturbed>>
  BY DEF Passing, Tick, desktop
<1>2. \A r \in DOMAIN plan : ModeOf(r)' = ModeOf(r)
  BY TickType DEF ModeOf
<1>3. DOMAIN plan' = DOMAIN plan
  BY DEF Passing, Tick
<1>4. Progress' /\ Named'
  BY <1>1, <1>3 DEF GroupInv, Progress, Named, Scheduling, At, Idle
<1>5. \A d, r : r \in DOMAIN plan /\ Follows(d, r) => Follows(d, r)'
  BY <1>1, <1>2 DEF Follows
<1>6. Following'
  BY <1>1, <1>5, FollowedRuns DEF GroupInv, Following, Settled, Scheduling, At, Idle
<1> QED
  BY <1>4, <1>6 DEF GroupInv

LEMMA EndsGroup ==
  ASSUME TypeInv, GroupInv, NEW r \in Runs, SequenceEnds(r)
  PROVE  GroupInv'
<1>1. UNCHANGED <<transport, plan, bindings, group, operation, disturbed>>
  BY DEF SequenceEnds
<1> QED
  BY <1>1, SameFollows DEF GroupInv, Progress, Named, Following, Settled, Scheduling,
                           At, Idle

LEMMA GroupStep == TypeInv /\ GroupInv /\ [Next]_vars => GroupInv'
<1> SUFFICES ASSUME TypeInv, GroupInv, [Next]_vars PROVE GroupInv'
  OBVIOUS
<1>1. CASE Exchange
  BY <1>1, BindGroup, PreparesGroup, SendGroup, CancelGroup DEF Exchange, Exchanges
<1>2. CASE \E c \in Controllers : Restart(c) \/ ByHand(c)
  BY <1>2, DisturbedGroup
<1>3. CASE Operates
  BY <1>3, OperatesGroup
<1>4. CASE Proceeds /\ NoFault
  BY <1>4, ReleaseGroup, AimGroup, ProceedsGroup DEF Proceeds
<1>5. CASE Passing /\ NoFault
  BY <1>5, PassingGroup
<1>6. CASE \E c \in Controllers : Renders(c)
  BY <1>6, RendersGroup
<1>7. CASE \E r \in Runs : SequenceEnds(r)
  BY <1>7, EndsGroup
<1>8. CASE UNCHANGED vars
  <2>1. UNCHANGED <<transport, plan, bindings, group, operation, disturbed>>
    BY <1>8 DEF vars, controllers, desktop
  <2> QED
    BY <2>1, SameFollows DEF GroupInv, Progress, Named, Following, Settled, Scheduling,
                             At, Idle
<1> QED
  BY <1>1, <1>2, <1>3, <1>4, <1>5, <1>6, <1>7, <1>8 DEF Next

LEMMA FollowsShows ==
  ASSUME NEW c, NEW r, Follows(c, r)
  PROVE  transport[c].pending = r \/ Mode(c) \in {ModeOf(r), Ended}
<1>1. CASE transport[c].pending = None
  BY <1>1 DEF Follows, Mode, AppliedDue, IsDue
<1>2. CASE transport[c].pending # None
  BY <1>2 DEF Follows
<1> QED
  BY <1>1, <1>2

LEMMA GroupInvTogether == GroupInv => Together
BY FollowsShows DEF GroupInv, Following, Settled, Together

\* Together: whatever is lost, refused, cancelled or restarted while an operation
\* asks one controller after the other, between operations those that acknowledged
\* the run in force follow it.
THEOREM GroupStaysTogether == Spec => []Together
BY TypeInit, TypeStep, GroupInit, GroupStep, GroupInvTogether, PTL DEF Spec

\* ErrorsNameTheArmed: an error that takes a start back names whoever may start
\* all the same among the controllers that are still driven.
THEOREM NoArmedIsUnnamed == Spec => ErrorsNameTheArmed
<1>1. TypeInv /\ GroupInv /\ [Next]_vars
        => [Report => \A c \in bindings : transport[c].pending = None
                                           \/ c \in warned']_vars
  <2> SUFFICES ASSUME GroupInv, Report, NEW c \in bindings
               PROVE  transport[c].pending = None \/ c \in warned'
    OBVIOUS
  <2>1. operation.todo = {} /\ At("cancel") /\ warned' = operation.failed
    BY DEF Report, Done
  <2> QED
    BY <2>1 DEF GroupInv, Named
<1> QED
  BY <1>1, TypeInit, TypeStep, GroupInit, GroupStep, PTL DEF Spec, ErrorsNameTheArmed
===============================================================================
