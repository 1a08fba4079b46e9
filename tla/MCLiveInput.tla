----------------------------- MODULE MCLiveInput -----------------------------
(***************************************************************************)
(* A keyboard key, a range of one note on two ports, a knob, an OSC button *)
(* and a pedal; and the console's edits.                                   *)
(***************************************************************************)
EXTENDS LiveInput

CONSTANTS hold, foot, tap, knob, p, q, osc, keyboard, wash, flash, level, n1, n2,
          any, like

\* A device without a filter reads any port, and two filters find q.
MCFinds ==
  (any :> {p, q}) @@ (q :> {q}) @@ (like :> {q}) @@ (osc :> {osc}) @@ (keyboard :> {keyboard})

On(c, happening, action) == [control |-> c, happening |-> happening, action |-> action]
Reading(by, filter, numbers) ==
  [by |-> by, filter |-> filter, from |-> MCFinds[filter], numbers |-> numbers]

Events ==
  << On(hold, "press", [do |-> "start", clip |-> wash]),
     On(hold, "release", [do |-> "stop", clip |-> wash]),
     On(tap, "press", [do |-> "play", clip |-> flash, copies |-> 2, by |-> knob,
                       shortest |-> 1, longest |-> 2]),
     On(knob, "move", [do |-> "set", param |-> level]) >>

Console ==
  [inputs |-> <<hold, tap, knob>>,
   reads |-> (hold :> Reading("notes", any, {n1})) @@ (tap :> Reading("key", keyboard, {n1}))
             @@ (knob :> Reading("axis", q, {n2})),
   on |-> Events, always |-> <<>>, copies |-> (wash :> 1) @@ (flash :> 2)]

\* hold hears one channel only, the device of the knob names its port in another
\* way, and the key moves.
Moved == [Console EXCEPT !.reads = (hold :> [Reading("notes", any, {n1}) EXCEPT !.from = {p}])
             @@ (tap :> Reading("key", keyboard, {n2})) @@ (knob :> Reading("axis", like, {n2}))]

\* Other events: hold toggles, tap is an OSC button, and there is a pedal.
Toggled ==
  [inputs |-> <<tap, hold, foot>>,
   reads |-> (hold :> Reading("notes", any, {n1})) @@ (tap :> Reading("address", osc, {n1}))
             @@ (foot :> Reading("pedal", q, {n2})),
   on |-> << On(tap, "press", [do |-> "mark"]),
             On(hold, "press", [do |-> "toggle", clip |-> wash]),
             On(foot, "press", [do |-> "mark"]),
             On(tap, "release", [do |-> "stop", clip |-> wash]) >>,
   always |-> <<wash>>, copies |-> (wash :> 1)]

MCConsoles == {Console, Moved, Toggled}
MCStarting == {Console}
Message(kind, n, value) == [kind |-> kind, number |-> n, value |-> value]
MCSendable ==
  ({p, q} \X {Message("note", n1, 0), Message("note", n1, 1)})
    \cup ({q} \X {Message("control", n2, 0), Message("control", n2, 1)})
    \cup ({osc} \X {Message("osc", n1, 0), Message("osc", n1, 1), Message("osc", n1, None)})
===============================================================================
