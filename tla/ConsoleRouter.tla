----------------------------- MODULE ConsoleRouter ----------------------------
(***************************************************************************)
(* What an input does to a performance: the router turns presses,          *)
(* releases and moves into commands (desktop_state/perform/router.rs), and *)
(* an evaluator obeys them (crates/donder-runtime/src/playback.rs).        *)
(*                                                                         *)
(* A performance p is a record: the armed console; the router's held       *)
(* presses, log, axes, copies of the clips and written parameters; and the *)
(* lights, which are what an evaluator that has heard every command holds. *)
(*                                                                         *)
(* A console is [inputs, reads, on, always, copies]: its controls in order *)
(* and what each reads, its events with one action each in the document's  *)
(* order, the clips that always play, and how many voices each clip has.   *)
(* A press is a control with a note, or with None for a key, a pedal or an *)
(* OSC button; values are 0..Full.  Windows, played values, the order of   *)
(* layers and the capacity of a mark collection are left out.              *)
(***************************************************************************)
EXTENDS Integers, SequencesExt

CONSTANTS Session,     \* the last tick of a session, and of the clock's range
          Full,        \* the greatest velocity, and the end of an axis
          None

ASSUME RouterAssumption ==
  /\ Session \in Nat \ {0} /\ Full \in Nat \ {0}
  /\ None \notin Int /\ None \notin [started : Int, ends : Int \cup {None}]

Voices(console) ==
  UNION {{clip} \X (1..console.copies[clip]) : clip \in DOMAIN console.copies}
Written(console) ==
  {console.on[i].action.param : i \in {i \in DOMAIN console.on : console.on[i].action.do = "set"}}

\* What ConsoleRouter::new finds in a console: what an action names is there.
Performs(console, action) ==
  \/ /\ action.do = "play" /\ action.clip \in DOMAIN console.copies
     /\ action.copies \in Nat \ {0} /\ action.shortest \in Nat /\ action.longest \in Nat
     /\ action.by \in {None, "velocity"} \cup ToSet(console.inputs)
  \/ action.do \in {"start", "stop", "toggle"} /\ action.clip \in DOMAIN console.copies
  \/ action.do \in {"mark", "set"}

WellFormed(console) ==
  /\ console.inputs \in Seq(ToSet(console.inputs))
  /\ console.copies \in [DOMAIN console.copies -> Nat \ {0}]
  /\ console.always \in Seq(DOMAIN console.copies)
  /\ console.on \in Seq(ToSet(console.on))
  /\ \A o \in ToSet(console.on) :
       o.control \in ToSet(console.inputs) /\ Performs(console, o.action)
-------------------------------------------------------------------------------
(* An evaluator: when each voice plays, the parameters set and the marks.  *)

Dark(console) ==
  [timing |-> [voice \in Voices(console) |-> [start |-> 0, duration |-> 0]],
   values |-> [param \in Written(console) |-> None],
   marks |-> <<>>]

IsActive(timing, time) == time >= timing.start /\ time - timing.start < timing.duration

Apply(lights, command, time) ==
  CASE command.do = "start" ->
         [lights EXCEPT !.timing[command.voice] =
            [start |-> time,
             duration |-> IF command.duration = None THEN Session - time ELSE command.duration]]
    [] command.do = "stop" ->
         IF IsActive(lights.timing[command.voice], time)
           THEN [lights EXCEPT !.timing[command.voice].duration = time - lights.timing[command.voice].start]
           ELSE lights
    [] command.do = "mark" -> [lights EXCEPT !.marks = Append(@, time)]
    [] command.do = "set" -> [lights EXCEPT !.values[command.param] = command.value]

Sent(p, command, time) == [p EXCEPT !.lights = Apply(@, command, time)]
-------------------------------------------------------------------------------
(* A router's actions.                                                     *)

Router(console) ==
  [console |-> console, held |-> <<>>, log |-> <<>>,
   axes |-> [c \in ToSet(console.inputs) |-> 0],
   copies |-> [voice \in Voices(console) |-> None],
   written |-> [param \in Written(console) |-> None],
   lights |-> Dark(console)]

PlaysAt(copy, time) == copy # None /\ (copy.ends = None \/ time < copy.ends)

CopyPlays(p, clip, time) ==
  \E i \in 1..p.console.copies[clip] : PlaysAt(p.copies[<<clip, i>>], time)

EndsWrapping(duration, time) ==
  IF duration = None THEN None ELSE (time + duration) % (Session + 1)

\* checked_add_duration: no end when it is beyond the clock's range.
Ends(duration, time) ==
  IF duration = None \/ time + duration > Session THEN None ELSE time + duration

StartCopy(p, voice, duration, time) ==
  Sent([p EXCEPT !.copies[voice] = [started |-> time, ends |-> Ends(duration, time)]],
       [do |-> "start", voice |-> voice, duration |-> duration], time)

StopCopy(p, voice, time) ==
  LET sent == IF PlaysAt(p.copies[voice], time)
                THEN Sent(p, [do |-> "stop", voice |-> voice], time) ELSE p
  IN  [sent EXCEPT !.copies[voice] = None]

Stop(p, clip, time) ==
  FoldLeft(LAMBDA q, i : StopCopy(q, <<clip, i>>, time), p, [i \in 1..p.console.copies[clip] |-> i])

\* A free copy, or else the one that started first.
Position(p, action, time) ==
  LET copy(i) == p.copies[<<action.clip, i>>]
      all == 1..Min({action.copies, p.console.copies[action.clip]})
      free == {i \in all : ~PlaysAt(copy(i), time)}
      oldest == {i \in all : \A j \in all : copy(i).started <= copy(j).started}
  IN  IF free # {} THEN Min(free) ELSE Min(oldest)

\* Fixed (by is None), or scaled by the velocity or by where an axis is now.
Length(p, action, value) ==
  LET scale == CASE action.by = None -> 0
                 [] action.by = "velocity" -> value
                 [] OTHER -> p.axes[action.by]
  IN  action.shortest + (2 * scale * (action.longest - action.shortest) + Full) \div (2 * Full)

Act(p, action, value, time) ==
  CASE action.do = "play" ->
         StartCopy(p, <<action.clip, Position(p, action, time)>>, Length(p, action, value), time)
    [] action.do = "start" ->
         IF CopyPlays(p, action.clip, time) THEN p
         ELSE StartCopy(p, <<action.clip, 1>>, None, time)
    [] action.do = "stop" -> Stop(p, action.clip, time)
    [] action.do = "toggle" ->
         IF CopyPlays(p, action.clip, time) THEN Stop(p, action.clip, time)
         ELSE StartCopy(p, <<action.clip, 1>>, None, time)
    [] action.do = "mark" -> Sent(p, [do |-> "mark"], time)
    [] action.do = "set" ->
         IF p.written[action.param] = value THEN p
         ELSE Sent([p EXCEPT !.written[action.param] = value],
                   [do |-> "set", param |-> action.param, value |-> value], time)
-------------------------------------------------------------------------------
(* The router's inputs.                                                    *)

SwapRemove(s, e) ==
  LET i == CHOOSE j \in DOMAIN s : s[j] = e IN Front(ReplaceAt(s, i, Last(s)))

Answered(p, control, happening, value, time) ==
  FoldLeft(LAMBDA q, o :
             IF o.control = control /\ o.happening = happening THEN Act(q, o.action, value, time)
             ELSE q,
           p, p.console.on)

Logged(p, control, note, happening, value, time) ==
  [p EXCEPT !.log = Append(@, [control |-> control, note |-> note, happening |-> happening,
                               value |-> value, time |-> time])]

\* A press that is down repeats, and a release of what is not is stray.
Touch(p, control, note, happening, value, time) ==
  LET press == <<control, note>>
      down == press \in ToSet(p.held)
      heard == CASE happening = "press" -> [p EXCEPT !.held = Append(@, press)]
                 [] happening = "release" -> [p EXCEPT !.held = SwapRemove(@, press)]
                 [] happening = "move" -> [p EXCEPT !.axes[control] = value]
  IN  IF (happening = "press" /\ down) \/ (happening = "release" /\ ~down) THEN p
      ELSE Answered(Logged(heard, control, note, happening, value, time),
                    control, happening, value, time)

StartSession(p) ==
  FoldLeft(LAMBDA q, clip : StartCopy(q, <<clip, 1>>, None, 0), p, p.console.always)

\* Inputs of a control this console does not read are left out.
Resume(p, log) ==
  FoldLeft(LAMBDA q, entry :
             IF entry.control \notin ToSet(p.console.inputs) THEN q
             ELSE Touch(q, entry.control, entry.note, entry.happening, entry.value, entry.time),
           p, log)

ReleaseAllUnlogged(p, time) ==
  FoldLeft(LAMBDA q, press : Answered(q, press[1], "release", 0, time),
           [p EXCEPT !.held = <<>>], p.held)

ReleaseAll(p, time) ==
  FoldLeft(LAMBDA q, press :
             Touch([q EXCEPT !.held = Append(@, press)], press[1], press[2], "release", 0, time),
           [p EXCEPT !.held = <<>>], p.held)
===============================================================================
