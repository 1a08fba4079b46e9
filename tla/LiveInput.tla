------------------------------- MODULE LiveInput ------------------------------
(***************************************************************************)
(* Performing from keys, MIDI ports and OSC: the performance in progress,  *)
(* which an edit arms again in place, and the threads that bring it        *)
(* messages (desktop_state/perform.rs, midi.rs, osc.rs).  A callback reads *)
(* the number of the performance before it takes the performance's lock.   *)
(*                                                                         *)
(* What a control reads is [by, filter, from, numbers]: keys, notes, a     *)
(* pedal, a MIDI axis, an OSC button or axis; the filter of ports that its *)
(* device names; those of the ports it hears; and the key codes, notes,    *)
(* controller numbers or addresses.  A port stands for a port and one      *)
(* channel of it.  A message is [kind, number, value]: a note, a control   *)
(* change or an OSC message, whose value 0 is a note off.                  *)
(***************************************************************************)
EXTENDS ConsoleRouter

CONSTANTS Consoles,      \* the console and its edits
          Starting,      \* those a performance starts with
          MidiPorts, OscPorts,
          Finds,         \* the ports that a filter finds
          Sendable,      \* the <<port, message>> that ports may send
          Keys,
          Keyboard,      \* stands for the port of the keys
          MaxTouches,    \* keys, messages, losses of focus, plugs in and out
          MaxArms        \* performances started, and armed again

Ports == MidiPorts \cup OscPorts

Controls == UNION {ToSet(console.inputs) : console \in Consoles}
Numbers == Keys \cup {m[2].number : m \in Sendable}

Midi == {"notes", "pedal", "axis"}
Osc == {"address", "addressAxis"}
Buttons == {"key", "notes", "pedal", "address"}

\* A control hears ports of its kind that its filter finds, and a pedal has one
\* number.
WellRead(reads) ==
  /\ reads.by \in {"key"} \cup Midi \cup Osc
  /\ reads.from \subseteq Finds[reads.filter]
  /\ Finds[reads.filter] \subseteq (CASE reads.by = "key" -> {Keyboard}
                                      [] reads.by \in Midi -> MidiPorts
                                      [] reads.by \in Osc -> OscPorts)
  /\ reads.by = "pedal" => \A m, n \in reads.numbers : m = n

\* Only an OSC message may come without a value.
ASSUME InputAssumption ==
  /\ Starting \subseteq Consoles
  /\ \A console \in Consoles :
       WellFormed(console) /\ \A c \in ToSet(console.inputs) : WellRead(console.reads[c])
  /\ IsFiniteSet(Controls) /\ IsFiniteSet(Numbers)
  /\ Sendable \subseteq Ports \X [kind : {"note", "control", "osc"}, number : Numbers, value : 0..Full \cup {None}]
  /\ \A a \in Sendable : a[2].value = None => a[2].kind = "osc"
  /\ MidiPorts \cap OscPorts = {} /\ Keyboard \notin Ports
  /\ MaxArms \in Nat /\ MaxTouches \in Nat

VARIABLES perform,    \* the performance in progress
          armed,      \* PerformService::generation
          now,        \* the session's clock
          plugged,    \* the ports there are
          links,      \* the connections: a port, and the inputs that opened it
          calls,      \* callbacks that have read a generation
          hand,       \* what the player holds down
          missed,     \* presses whose end did not reach a control
          left        \* what the bounds leave to do

vars == <<perform, armed, now, plugged, links, calls, hand, missed, left>>

Spend(what) == left[what] > 0 /\ left' = [left EXCEPT ![what] = @ - 1]
-------------------------------------------------------------------------------
(* Which inputs a console opens.                                           *)

Reads(console, kinds) == {c \in ToSet(console.inputs) : console.reads[c].by \in kinds}

Kinds(m) == CASE m.kind = "note" -> {"notes"} [] m.kind = "control" -> {"pedal", "axis"}
              [] m.kind = "osc" -> Osc

\* The filters of the ports it wants, and the ports they find.
Wanted(console, kinds) == {console.reads[c].filter : c \in Reads(console, kinds)}
Found(console, kinds) == UNION {Finds[filter] : filter \in Wanted(console, kinds)}

\* Whether a message ends a press: a note off, an OSC 0 or an OSC message
\* without a value, a pedal in the lower half of its way.
EndsPress(m) == IF m.kind = "control" THEN 2 * m.value < Full ELSE m.value \in {0, None}

Init ==
  /\ perform = None /\ armed = 0 /\ now = 0
  /\ plugged \in SUBSET MidiPorts
  /\ links = {} /\ calls = {} /\ hand = {} /\ missed = {}
  /\ left = [touches |-> MaxTouches, arms |-> MaxArms]

Inputs == [kind : {"midi", "osc"}, session : 1..MaxArms, since : 1..MaxArms]
Messages == {m[2] : m \in Sendable} \cup {[kind |-> "lost", number |-> None, value |-> None]}
Links == [port : Ports, by : Inputs]

TypeOK ==
  /\ armed \in 0..MaxArms /\ now \in 0..Session
  /\ perform # None =>
       /\ perform.session \in 1..perform.generation /\ perform.generation = armed
       /\ perform.midiHeld \in [Controls \X Numbers -> SUBSET MidiPorts]
       /\ perform.midi \in Inputs \cup {None} /\ perform.osc \in Inputs \cup {None}
       /\ perform.router.console \in Consoles
       /\ IsInjective(perform.router.held)
  /\ plugged \subseteq MidiPorts /\ links \subseteq Links
  /\ calls \subseteq [link : Links, generation : 0..MaxArms, message : Messages]
  /\ hand \subseteq (Ports \cup {Keyboard}) \X Numbers
  /\ missed \subseteq ((Ports \cup {Keyboard}) \X Numbers) \X Controls
  /\ left \in [touches : 0..MaxTouches, arms : 0..MaxArms]
-------------------------------------------------------------------------------
(* arm_performance, under the performance's lock.  `carry` continues the   *)
(* performance in progress: its clock, its inputs replayed, and its open   *)
(* ports when it wants the same ones.                                      *)

Opened(console, carry, kind, kinds, session) ==
  LET open == IF carry THEN perform[kind] ELSE None
  IN  IF open # None /\ Wanted(perform.router.console, kinds) = Wanted(console, kinds) THEN open
      ELSE IF Reads(console, kinds) = {} THEN None
      ELSE [kind |-> kind, session |-> session, since |-> armed + 1]

ArmForgettingPorts(console, carry) ==
  LET session == IF carry THEN perform.session ELSE armed + 1
      router == StartSession(Router(console))
  IN  /\ armed' = armed + 1
      /\ perform' =
           [generation |-> armed + 1, session |-> session,
            router |-> IF carry THEN Resume(router, perform.router.log) ELSE router,
            midiHeld |-> [press \in Controls \X Numbers |-> {}],
            midi |-> Opened(console, carry, "midi", Midi, session),
            osc |-> Opened(console, carry, "osc", Osc, session)]

Arm(console, carry) ==
  LET session == IF carry THEN perform.session ELSE armed + 1
      router == StartSession(Router(console))
  IN  /\ armed' = armed + 1
      /\ perform' =
           [generation |-> armed + 1, session |-> session,
            router |-> IF carry THEN Resume(router, perform.router.log) ELSE router,
            midiHeld |-> [press \in Controls \X Numbers |->
                            IF carry /\ press[1] \in ToSet(console.inputs)
                              THEN perform.midiHeld[press] ELSE {}],
            midi |-> Opened(console, carry, "midi", Midi, session),
            osc |-> Opened(console, carry, "osc", Osc, session)]

StartPerforming(console) ==
  /\ Spend("arms") /\ Arm(console, FALSE)
  /\ now' = 0 /\ missed' = {}
  /\ UNCHANGED <<plugged, links, calls, hand>>

Rearm(console) ==
  /\ perform # None /\ console # perform.router.console
  /\ Spend("arms") /\ Arm(console, TRUE)
  /\ UNCHANGED <<now, plugged, links, calls, hand, missed>>

StopPerforming ==
  /\ perform # None /\ perform' = None
  /\ now' = 0 /\ missed' = {}
  /\ UNCHANGED <<armed, plugged, links, calls, hand, left>>

Tick ==
  /\ perform # None /\ now < Session /\ now' = now + 1
  /\ UNCHANGED <<perform, armed, plugged, links, calls, hand, missed, left>>
-------------------------------------------------------------------------------
(* Keys, and the window that loses the focus.                              *)

Pressed(p, c, note, happening, value) ==
  [p EXCEPT !.router = Touch(@, c, note, happening, value, now)]

\* The controls that answer to a number from a port.
Bound(by, number, port) ==
  {c \in Reads(perform.router.console, by) :
     LET reads == perform.router.console.reads[c]
     IN  number \in reads.numbers /\ port \in reads.from}

Keyed(n, happening) ==
  LET value == IF happening = "press" THEN Full ELSE 0
  IN  FoldLeft(LAMBDA p, c : IF c \in Bound({"key"}, n, Keyboard)
                               THEN Pressed(p, c, None, happening, value) ELSE p,
               perform, perform.router.console.inputs)

\* The buttons that a console may bind to a number from a port.
Readers(port, n) ==
  {c \in Controls :
     \E console \in Consoles :
       /\ c \in Reads(console, Buttons)
       /\ n \in console.reads[c].numbers /\ port \in console.reads[c].from}

\* The end of a press at a port reaches the controls that hear it; a port that
\* goes away takes the ends of all its presses with it.
Ended(port, n, heard) ==
  (missed \ ({<<port, n>>} \X heard)) \cup ({<<port, n>>} \X (Readers(port, n) \ heard))
Gone(port) == missed \cup UNION {{<<port, n>>} \X Readers(port, n) : n \in Numbers}

KeyDown(n) ==
  /\ perform # None /\ Spend("touches")
  /\ perform' = Keyed(n, "press")
  /\ hand' = hand \cup {<<Keyboard, n>>}
  /\ UNCHANGED <<armed, now, plugged, links, calls, missed>>

KeyUp(n) ==
  /\ perform # None /\ <<Keyboard, n>> \in hand /\ Spend("touches")
  /\ perform' = Keyed(n, "release")
  /\ hand' = hand \ {<<Keyboard, n>>}
  /\ missed' = Ended(Keyboard, n, Bound({"key"}, n, Keyboard))
  /\ UNCHANGED <<armed, now, plugged, links, calls>>

Blur ==
  /\ perform # None /\ Spend("touches")
  /\ perform' = [perform EXCEPT !.midiHeld = [press \in Controls \X Numbers |-> {}],
                                !.router = ReleaseAll(@, now)]
  /\ hand' = {h \in hand : h[1] # Keyboard}
  /\ missed' = {h \in missed : \E call \in calls : call.link.port = h[1][1]}
  /\ UNCHANGED <<armed, now, plugged, links, calls>>
-------------------------------------------------------------------------------
(* Ports come and go; the inputs' threads connect them and let go.  Inputs *)
(* that were dropped keep their connections until they look.               *)

Listening == IF perform = None THEN {} ELSE {perform.midi, perform.osc} \ {None}

Plug(port) ==
  /\ port \in MidiPorts \ plugged /\ \A l \in links : l.port # port
  /\ Spend("touches") /\ plugged' = plugged \cup {port}
  /\ UNCHANGED <<perform, armed, now, links, calls, hand, missed>>

Unplug(port) ==
  /\ port \in plugged /\ Spend("touches") /\ plugged' = plugged \ {port}
  /\ hand' = {h \in hand : h[1] # port}
  /\ missed' = IF \E l \in links : l.port = port THEN missed ELSE Gone(port)
  /\ UNCHANGED <<perform, armed, now, links, calls>>

\* A look connects the ports that it finds one after the other, and a UDP port
\* is free for one socket at a time.  A look under way when its inputs are
\* dropped is taken to have ended.
Connect(by, port) ==
  /\ by \in Listening
  /\ LET console == perform.router.console
     IN  \/ /\ by.kind = "midi" /\ port \in Found(console, Midi) \cap plugged
            /\ [port |-> port, by |-> by] \notin links
         \/ /\ by.kind = "osc" /\ port \in Found(console, Osc)
            /\ \A l \in links : l.port # port
  /\ links' = links \cup {[port |-> port, by |-> by]}
  /\ UNCHANGED <<perform, armed, now, plugged, calls, hand, missed, left>>

\* A dropped input closes what it has, without a word to the performance.
Close(l) ==
  /\ l \in links /\ l.by \notin Listening
  /\ links' = links \ {l}
  /\ missed' = IF l.port \in MidiPorts \ plugged THEN Gone(l.port) ELSE missed
  /\ UNCHANGED <<perform, armed, now, plugged, calls, hand, left>>

\* What a callback reads: the number of the performance its inputs belong to.
Generation(by) ==
  IF perform # None /\ by.session = perform.session THEN perform.generation ELSE 0

Calling(ls, m) == {[link |-> l, generation |-> Generation(l.by), message |-> m] : l \in ls}

Lose(l) ==
  /\ l \in links /\ l.by.kind = "midi" /\ l.port \notin plugged
  /\ \A call \in calls : call.link # l
  /\ links' = links \ {l}
  /\ calls' = calls \cup Calling({l}, [kind |-> "lost", number |-> None, value |-> None])
  /\ UNCHANGED <<perform, armed, now, plugged, hand, missed, left>>

\* A message goes out when the one before it was heard, through every connection
\* there is to its port.  An old connection that lags behind a new one is not
\* modelled.
Send(port, m) ==
  /\ port \in plugged \cup OscPorts
  /\ \A call \in calls : call.link.port # port
  /\ m.kind = "note" => (m.value > 0) # (<<port, m.number>> \in hand)
  /\ Spend("touches")
  /\ hand' = IF EndsPress(m) THEN hand \ {<<port, m.number>>} ELSE hand \cup {<<port, m.number>>}
  /\ LET ls == {l \in links : l.port = port}
     IN  /\ calls' = calls \cup Calling(ls, m)
         /\ missed' = IF EndsPress(m) /\ ls = {} THEN Ended(port, m.number, {}) ELSE missed
  /\ UNCHANGED <<perform, armed, now, plugged, links>>
-------------------------------------------------------------------------------
(* perform_midi, perform_midi_lost and perform_osc, under the lock.  The   *)
(* router hears the press when the first port holds it, and its release    *)
(* when the last lets go.                                                  *)

Note(p, c, n) == IF p.router.console.reads[c].by = "pedal" THEN None ELSE n

Down(p, c, n, port, value) ==
  LET holders == p.midiHeld[<<c, n>>]
      held == [p EXCEPT !.midiHeld[<<c, n>>] = @ \cup {port}]
  IN  IF holders = {} THEN Pressed(held, c, Note(p, c, n), "press", value) ELSE held

UpAtOnce(p, c, n, port) ==
  LET freed == [p EXCEPT !.midiHeld[<<c, n>>] = @ \ {port}]
  IN  IF port \in p.midiHeld[<<c, n>>] THEN Pressed(freed, c, Note(p, c, n), "release", 0)
      ELSE freed

Up(p, c, n, port) ==
  LET freed == [p EXCEPT !.midiHeld[<<c, n>>] = @ \ {port}]
  IN  IF p.midiHeld[<<c, n>>] = {port} THEN Pressed(freed, c, Note(p, c, n), "release", 0)
      ELSE freed

MidiHeard(p, c, port, m) ==
  LET by == p.router.console.reads[c].by
  IN  CASE by = "notes" ->
             IF EndsPress(m) THEN Up(p, c, m.number, port) ELSE Down(p, c, m.number, port, m.value)
        [] by = "pedal" ->
             IF EndsPress(m) THEN Up(p, c, m.number, port) ELSE Down(p, c, m.number, port, Full)
        [] by = "axis" -> Pressed(p, c, None, "move", m.value)

OscHeard(p, c, m) ==
  IF p.router.console.reads[c].by = "addressAxis"
    THEN IF m.value = None THEN p ELSE Pressed(p, c, None, "move", m.value)
    ELSE CASE m.value = None -> Pressed(Pressed(p, c, None, "press", Full), c, None, "release", 0)
           [] m.value = 0 -> Pressed(p, c, None, "release", 0)
           [] OTHER -> Pressed(p, c, None, "press", Full)

Heard(port, m) ==
  FoldLeft(LAMBDA p, c : IF c \notin Bound(Kinds(m), m.number, port) THEN p
                         ELSE IF m.kind = "osc" THEN OscHeard(p, c, m)
                         ELSE MidiHeard(p, c, port, m),
           perform, perform.router.console.inputs)

Lost(port, order) ==
  FoldLeft(LAMBDA p, press : Up(p, press[1], press[2], port), perform, order)

Hears(call) == perform # None /\ call.generation = perform.generation

HearLost(call) ==
  /\ call \in calls /\ call.message.kind = "lost"
  /\ calls' = calls \ {call}
  /\ LET port == call.link.port
     IN  IF Hears(call)
           THEN /\ \E order \in SetToSeqs({press \in Controls \X Numbers : port \in perform.midiHeld[press]}) :
                     perform' = Lost(port, order)
                /\ missed' = IF \E other \in calls' : other.link.port = port THEN Gone(port)
                                ELSE {h \in missed : h[1][1] # port}
           ELSE perform' = perform /\ missed' = Gone(port)
  /\ UNCHANGED <<armed, now, plugged, links, hand, left>>

Hear(call) ==
  /\ call \in calls /\ call.message.kind # "lost"
  /\ calls' = calls \ {call}
  /\ LET port == call.link.port
         m == call.message
         ears == IF Hears(call) THEN Bound(Kinds(m) \cap Buttons, m.number, port) ELSE {}
     IN  /\ perform' = IF Hears(call) THEN Heard(port, m) ELSE perform
         /\ missed' = IF EndsPress(m) THEN Ended(port, m.number, ears) ELSE missed
  /\ UNCHANGED <<armed, now, plugged, links, hand, left>>
-------------------------------------------------------------------------------
Next ==
  \/ \E console \in Starting : StartPerforming(console)
  \/ \E console \in Consoles : Rearm(console)
  \/ StopPerforming \/ Tick \/ Blur
  \/ \E n \in Keys : KeyDown(n) \/ KeyUp(n)
  \/ \E port \in MidiPorts : Plug(port) \/ Unplug(port)
  \/ \E by \in Listening, port \in Ports : Connect(by, port)
  \/ \E l \in links : Close(l) \/ Lose(l)
  \/ \E sent \in Sendable : Send(sent[1], sent[2])
  \/ \E call \in calls : Hear(call) \/ HearLost(call)

Spec == Init /\ [][Next]_vars
-------------------------------------------------------------------------------
(* Properties.                                                             *)

\* "The router hears the press when the first holds it and its release when
\* the last lets go" (perform.rs): a note or a pedal is held exactly as long as
\* a port holds it, through key repeats, ports that go away, the loss of the
\* focus and edits that arm the performance again.  A pedal that an edit gives
\* another number, and a control that it makes another kind, keep the old press.
KeepsKind(c) ==
  \A a, b \in Consoles :
    c \in ToSet(a.inputs) \cap ToSet(b.inputs) => a.reads[c].by = b.reads[c].by
Steady(c) ==
  /\ KeepsKind(c)
  /\ \A a, b \in Consoles :
       c \in ToSet(a.inputs) \cap ToSet(b.inputs) /\ a.reads[c].by = "pedal" =>
         a.reads[c].numbers = b.reads[c].numbers
Holdable(console) ==
  {press \in Reads(console, {"notes", "pedal"}) \X Numbers :
     LET reads == console.reads[press[1]]
     IN  Steady(press[1]) /\ (reads.by = "pedal" => press[2] \in reads.numbers)}
HeldAlike ==
  perform # None =>
    \A press \in Holdable(perform.router.console) :
      perform.midiHeld[press] # {}
        <=> <<press[1], Note(perform, press[1], press[2])>> \in ToSet(perform.router.held)

\* Nothing sounds for ever: what is held, the player holds, or its end is on
\* its way, or went by: an edit had taken the control or the port from the
\* press, or armed the performance between the callback's two steps.  Again, a
\* control that an edit makes another kind may keep the old press.
Ending(c, port, n) ==
  \/ <<port, n>> \in hand
  \/ <<<<port, n>>, c>> \in missed
  \/ port \in MidiPorts \ plugged /\ \E l \in links : l.port = port
  \/ \E call \in calls :
       /\ call.link.port = port
       /\ call.message.kind = "lost" \/ (EndsPress(call.message) /\ call.message.number = n)
NothingStuck ==
  perform # None =>
    \A press \in ToSet(perform.router.held) : KeepsKind(press[1]) =>
      \E port \in Ports \cup {Keyboard}, n \in Numbers :
        /\ press[1] \in Readers(port, n) /\ press[2] \in {n, None}
        /\ Ending(press[1], port, n)

\* The router keeps which copies play, to choose one and to toggle, and the
\* value each parameter has, to send it once; the evaluators keep their own.
\* While the session lasts they say the same.
EvaluatorsAgree ==
  perform # None /\ now < Session =>
    LET router == perform.router
    IN  /\ \A voice \in Voices(router.console) :
             PlaysAt(router.copies[voice], now) <=> IsActive(router.lights.timing[voice], now)
        /\ router.written = router.lights.values

\* "Replays your inputs into it, so held buttons, marks added and parameters
\* set carry over" (docs/live_input.md): arming again keeps every press of a
\* control the console still reads, and where the events and the clips are the
\* same, every light.
CarriesOver ==
  [][perform # None /\ perform' # None /\ perform'.session = perform.session
       /\ perform'.generation # perform.generation =>
     LET old == perform.router  new == perform'.router
     IN  /\ ToSet(new.held) = {press \in ToSet(old.held) : press[1] \in ToSet(new.console.inputs)}
         /\ (\A same \in {"on", "always", "copies"} : old.console[same] = new.console[same]) =>
              new.lights = old.lights]_vars
===============================================================================
