-------------------------- MODULE PerformanceProofs ---------------------------
(***************************************************************************)
(* Live output and performances for any number of edits, commands, inputs  *)
(* and failing transports.                                                 *)
(*                                                                         *)
(* OffIsDark rests on the order of the worker's queue: every operation     *)
(* that bumps the generation sends one command with it, so an answer for   *)
(* the generation that counts answers the last command there is (OffInv).  *)
(* OutputPlaysTheLog rests on the order of the whole queue, and on what    *)
(* each feed says of its performance, so that the next command routed is   *)
(* the last one of every output that plays the performance (LogInv).       *)
(***************************************************************************)
EXTENDS Performance, SequenceTheorems, TLAPS

Switch(c) == c.do # "events"

\* The commands that switch the output are in the order of their generations,
\* after the output's own.
Ordered(s, o) ==
  /\ \A i \in 1..Len(s.sender) : Switch(s.sender[i]) => s.sender[i].generation <= s.generation
  /\ \A i, j \in 1..Len(s.sender) :
       i < j /\ Switch(s.sender[i]) /\ Switch(s.sender[j])
         => s.sender[i].generation < s.sender[j].generation
  /\ o # None =>
       /\ o.generation <= s.generation
       /\ \A i \in 1..Len(s.sender) : Switch(s.sender[i]) => o.generation < s.sender[i].generation

\* Where the output is shown as off, it is, and nothing will switch it.
Quiet(s, o) ==
  s.shown \in Off => o = None /\ \A i \in 1..Len(s.sender) : ~Switch(s.sender[i])

Served(s) ==
  /\ s \in Services
  /\ Ordered(s, output)
  /\ Quiet(s, output)
  /\ s.shown = "disabled" => ~stopError

OffInv ==
  /\ OutputTypeOK
  /\ Served(service)
  /\ lit /\ output = None => stopError \/ forgotten

LEMMA OffMeans == OffInv => OffIsDark
  BY DEF OffInv, OffIsDark, Served, Quiet, Off, Switch, Range

-------------------------------------------------------------------------------
(* The service's operations keep the order.                                *)

\* A switch with a new generation joins the queue.
LEMMA SwitchServes ==
  ASSUME OutputTypeOK, NEW s, Served(s), NEW c \in Commands, NEW t \in Services,
         t.sender = Append(s.sender, c), Switch(c), c.generation = s.generation + 1,
         t.generation = s.generation + 1, t.shown \notin Off
  PROVE  Served(t)
<1>1. s.generation \in Nat /\ s.sender \in Seq(Commands)
  BY DEF Served, Services
<1>2. /\ Len(t.sender) = Len(s.sender) + 1 /\ t.sender[Len(s.sender) + 1] = c
      /\ \A i \in 1..Len(s.sender) : t.sender[i] = s.sender[i] /\ s.sender[i].generation \in Nat
  BY <1>1 DEF Commands
<1>3. Ordered(t, output)
  BY <1>1, <1>2 DEF Served, Ordered, OutputTypeOK, Outputs
<1> QED
  BY <1>3 DEF Served, Quiet, Off

\* The queue and what is shown stay as they are.
LEMMA SameServes ==
  ASSUME NEW s, Served(s), NEW t \in Services, t.sender = s.sender,
         t.generation = s.generation, t.shown = s.shown
  PROVE  Served(t)
  BY DEF Served, Ordered, Quiet

LEMMA StartServes ==
  ASSUME OutputTypeOK, NEW s, Served(s), NEW feed \in Feeds
  PROVE  Served(Started(s, feed))
<1> DEFINE c == [do |-> "enable", generation |-> s.generation + 1, feed |-> feed]
           t == Started(s, feed)
<1>1. s \in Services /\ s.generation \in Nat /\ s.sender \in Seq(Commands)
  BY DEF Served, Services
<1>2. c \in Commands /\ Switch(c) /\ c.generation = s.generation + 1
  BY <1>1 DEF Commands, Switch
<1> HIDE DEF c
<1>3. Append(s.sender, c) \in Seq(Commands)
  BY <1>1, <1>2
<1> DEFINE queue == Append(s.sender, c)
           shown == IF feed.kind = "test" THEN "testing" ELSE "preparing"
           console == feed.kind = "console"
           next == s.generation + 1
<1>a. shown \in {"testing", "preparing"} /\ console \in BOOLEAN /\ next \in Nat
      /\ queue \in Seq(Commands)
  BY <1>1, <1>3
<1>b. t = [s EXCEPT !.resumeAfter = FALSE, !.resumeReady = FALSE, !.console = console,
                    !.generation = next, !.shown = shown, !.sender = queue]
  BY DEF Started, c
<1> HIDE DEF t, queue, shown, console, next
<1>c. t \in Services /\ t.sender = queue /\ t.generation = next /\ t.shown = shown
  BY <1>1, <1>a, <1>b DEF Services, Off, Live
<1>4. t \in Services /\ t.sender = Append(s.sender, c) /\ t.generation = s.generation + 1
  BY <1>c DEF queue, next
<1>5. t.shown \in {"testing", "preparing"}
  BY <1>a, <1>c
<1>6. t.shown \notin Off
  BY <1>5 DEF Off
<1>7. Served(t)
  BY <1>2, <1>4, <1>6, SwitchServes
<1> QED
  BY <1>7 DEF t

LEMMA StopServes ==
  ASSUME OutputTypeOK, NEW s, Served(s)
  PROVE  Served(Stopped(s))
<1> DEFINE c == [do |-> "disable", generation |-> s.generation + 1]
           t == [s EXCEPT !.console = FALSE, !.generation = @ + 1, !.shown = "stopping",
                          !.sender = Append(@, c)]
           u == [s EXCEPT !.console = FALSE]
<1>1. s \in Services /\ s.generation \in Nat /\ s.sender \in Seq(Commands)
  BY DEF Served, Services
<1>2. CASE s.shown \in Off
  <2>1. u \in Services /\ u.sender = s.sender /\ u.generation = s.generation /\ u.shown = s.shown
    BY <1>1 DEF Services
  <2> HIDE DEF u
  <2>2. Served(u)
    BY <2>1, SameServes
  <2> QED
    BY <1>2, <2>2 DEF Stopped, u
<1>3. CASE s.shown \notin Off
  <2>1. c \in Commands /\ Switch(c) /\ c.generation = s.generation + 1
    BY <1>1 DEF Commands, Switch
  <2> HIDE DEF c
  <2>2. Append(s.sender, c) \in Seq(Commands)
    BY <1>1, <2>1
  <2> DEFINE queue == Append(s.sender, c)
             next == s.generation + 1
  <2>a. queue \in Seq(Commands) /\ next \in Nat
    BY <1>1, <2>2
  <2>b. t = [s EXCEPT !.console = FALSE, !.generation = next, !.shown = "stopping",
                      !.sender = queue]
    BY <1>1
  <2> HIDE DEF t, queue, next
  <2>c. t \in Services /\ t.sender = queue /\ t.generation = next /\ t.shown = "stopping"
    BY <1>1, <2>a, <2>b DEF Services, Off, Live
  <2>3. /\ t \in Services /\ t.sender = Append(s.sender, c)
        /\ t.generation = s.generation + 1 /\ t.shown = "stopping"
    BY <2>c DEF queue, next
  <2>4. t.shown \notin Off
    BY <2>3 DEF Off
  <2>5. Served(t)
    BY <2>1, <2>3, <2>4, SwitchServes
  <2> QED
    BY <1>3, <2>5 DEF Stopped, t, c
<1> QED
  BY <1>2, <1>3

\* The flags of a resumption alone.
LEMMA FlagsServe ==
  ASSUME NEW s, Served(s), NEW after \in BOOLEAN, NEW ready \in BOOLEAN
  PROVE  Served([s EXCEPT !.resumeReady = ready, !.resumeAfter = after])
<1> DEFINE t == [s EXCEPT !.resumeReady = ready, !.resumeAfter = after]
<1>1. t \in Services /\ t.sender = s.sender /\ t.generation = s.generation /\ t.shown = s.shown
  BY DEF Served, Services
<1> HIDE DEF t
<1>2. Served(t)
  BY <1>1, SameServes
<1> QED
  BY <1>2 DEF t

LEMMA OffServes ==
  ASSUME OutputTypeOK, Served(service)
  PROVE  /\ Served(Disabled(service)) /\ Served(Suspended(service))
         /\ Served(MarkedPrepared(service)) /\ Served(ResumeTaken(service))
<1>1. /\ service \in Services /\ service.resumeAfter \in BOOLEAN /\ service.resumeReady \in BOOLEAN
      /\ (service.resumeAfter \/ service.shown \in Live) \in BOOLEAN
  BY DEF Served, Services
<1>2. Served(Disabled(service))
  <2> DEFINE t == [service EXCEPT !.resumeReady = FALSE, !.resumeAfter = FALSE]
  <2>1. Served(t)
    BY FlagsServe
  <2>2. t = [service EXCEPT !.resumeAfter = FALSE, !.resumeReady = FALSE]
    BY <1>1 DEF Services
  <2> HIDE DEF t
  <2>3. Served(Stopped(t))
    BY <2>1, StopServes
  <2> QED
    BY <2>2, <2>3 DEF Disabled
<1>3. Served(Suspended(service))
  <2> DEFINE t == [service EXCEPT !.resumeReady = FALSE,
                                  !.resumeAfter = service.resumeAfter \/ service.shown \in Live]
  <2>1. Served(t)
    BY <1>1, FlagsServe
  <2> HIDE DEF t
  <2>2. Served(Stopped(t))
    BY <2>1, StopServes
  <2> QED
    BY <2>2 DEF Suspended, t
<1>4. Served(MarkedPrepared(service))
  <2> DEFINE t == [service EXCEPT !.resumeReady = TRUE, !.resumeAfter = service.resumeAfter]
  <2>1. Served(t)
    BY <1>1, FlagsServe
  <2>2. t = MarkedPrepared(service)
    BY <1>1 DEF MarkedPrepared, Services
  <2> QED
    BY <2>1, <2>2
<1>5. Served(ResumeTaken(service))
  <2> DEFINE wanted == service.resumeAfter /\ service.shown # "error"
             ready == service.resumeReady /\ service.shown # "stopping"
             t == [service EXCEPT !.resumeReady = service.resumeReady /\ ~ready,
                                  !.resumeAfter = wanted /\ ~ready]
  <2>1. Served(t)
    BY <1>1, FlagsServe
  <2> QED
    BY <2>1 DEF ResumeTaken
<1> QED
  BY <1>2, <1>3, <1>4, <1>5

LEMMA EventServes ==
  ASSUME NEW s, Served(s), NEW event \in Nat
  PROVE  Served(WithEvent(s, event))
<1> DEFINE c == [do |-> "events", generation |-> s.generation, event |-> event]
           t == [s EXCEPT !.sender = Append(@, c)]
<1>1. s \in Services /\ s.generation \in Nat /\ s.sender \in Seq(Commands)
  BY DEF Served, Services
<1>2. c \in Commands /\ ~Switch(c)
  BY <1>1 DEF Commands, Switch
<1> HIDE DEF c
<1>3. Append(s.sender, c) \in Seq(Commands)
  BY <1>1, <1>2
<1>4. /\ t \in Services /\ t.sender = Append(s.sender, c)
      /\ t.generation = s.generation /\ t.shown = s.shown
  BY <1>1, <1>3 DEF Services
<1> HIDE DEF t
<1>5. /\ Len(t.sender) = Len(s.sender) + 1 /\ t.sender[Len(s.sender) + 1] = c
      /\ \A i \in 1..Len(s.sender) : t.sender[i] = s.sender[i]
  BY <1>1, <1>2, <1>4
<1>6. \A i \in 1..Len(t.sender) : Switch(t.sender[i]) => i \in 1..Len(s.sender)
  BY <1>1, <1>2, <1>5
<1>7. Ordered(t, output) /\ Quiet(t, output)
  BY <1>1, <1>4, <1>5, <1>6 DEF Served, Ordered, Quiet
<1>8. Served(t)
  BY <1>4, <1>7 DEF Served
<1> QED
  BY <1>8 DEF WithEvent, t, c
-------------------------------------------------------------------------------
(* The worker's answers.                                                   *)

States == Off \cup Live \cup {"testing", "stopping"}

LEMMA ToldTyped ==
  ASSUME NEW s \in Services, NEW generation, NEW state \in States
  PROVE  LET t == Told(s, generation, state)
         IN  /\ t \in Services /\ t.sender = s.sender /\ t.generation = s.generation
             /\ t.shown = IF s.generation = generation THEN state ELSE s.shown
  BY DEF Told, Services, States

\* A command taken from the queue comes before what stays in it.
LEMMA Taken ==
  ASSUME OffInv, service.sender # <<>>
  PROVE  LET c == Head(service.sender)
         IN  /\ c \in Commands /\ c.generation \in Nat
             /\ Waiting \in Services
             /\ Waiting.generation = service.generation /\ Waiting.shown = service.shown
             /\ Ordered(Waiting, output) /\ Quiet(Waiting, output)
             /\ Switch(c) =>
                  /\ c.generation <= service.generation
                  /\ service.shown \notin Off
                  /\ output # None => output.generation < c.generation
                  /\ \A i \in 1..Len(Waiting.sender) :
                       Switch(Waiting.sender[i]) =>
                         /\ c.generation < Waiting.sender[i].generation
                         /\ Waiting.sender[i].generation <= service.generation
<1> DEFINE c == Head(service.sender)
           queue == Tail(service.sender)
<1>1. service \in Services /\ service.sender \in Seq(Commands) /\ service.generation \in Nat
  BY DEF OffInv, OutputTypeOK, Services
<1>2. /\ c = service.sender[1] /\ c \in Commands /\ 1 \in 1..Len(service.sender)
      /\ queue \in Seq(Commands) /\ Len(queue) = Len(service.sender) - 1
      /\ \A i \in 1..Len(queue) : /\ queue[i] = service.sender[i + 1]
                                  /\ i + 1 \in 1..Len(service.sender)
  BY <1>1
<1>3. c.generation \in Nat
  BY <1>2 DEF Commands
<1> HIDE DEF c, queue
<1>4. /\ Waiting \in Services /\ Waiting.sender = queue
      /\ Waiting.generation = service.generation /\ Waiting.shown = service.shown
  BY <1>1, <1>2 DEF Waiting, Services, queue
<1>5. Ordered(service, output) /\ Quiet(service, output)
  BY DEF OffInv, Served
<1>6. Ordered(Waiting, output)
  <2>1. \A i, j \in 1..Len(queue) : i < j => i + 1 < j + 1
    OBVIOUS
  <2> QED
    BY <1>2, <1>4, <1>5, <2>1 DEF Ordered
<1>7. Quiet(Waiting, output)
  BY <1>2, <1>4, <1>5 DEF Quiet
<1>8. Switch(c) =>
        /\ c.generation <= service.generation
        /\ service.shown \notin Off
        /\ output # None => output.generation < c.generation
  BY <1>2, <1>5 DEF Ordered, Quiet
<1>9. Switch(c) => \A i \in 1..Len(queue) : Switch(queue[i]) =>
                     /\ c.generation < queue[i].generation
                     /\ queue[i].generation <= service.generation
  <2>1. \A i \in 1..Len(queue) : 1 < i + 1
    BY <1>2
  <2> QED
    BY <1>2, <1>5, <2>1 DEF Ordered
<1> QED
  BY <1>2, <1>3, <1>4, <1>6, <1>7, <1>8, <1>9 DEF c

\* An answer to a switch: nothing after it has its generation.
LEMMA Answered ==
  ASSUME OffInv, service.sender # <<>>, NEW c, c = Head(service.sender), Switch(c),
         NEW state \in States, NEW o \in Outputs \cup {None},
         o # None => o.generation = c.generation, state \in Off => o = None,
         NEW t, t = Told(Waiting, c.generation, state)
  PROVE  /\ t \in Services /\ Ordered(t, o) /\ Quiet(t, o)
         /\ t.shown = "disabled" => state = "disabled"
<1>1. /\ c.generation \in Nat /\ Waiting \in Services
      /\ Waiting.generation = service.generation /\ Waiting.shown = service.shown
      /\ Ordered(Waiting, output)
      /\ c.generation <= service.generation /\ service.shown \notin Off
      /\ \A i \in 1..Len(Waiting.sender) :
           Switch(Waiting.sender[i]) => /\ c.generation < Waiting.sender[i].generation
                                        /\ Waiting.sender[i].generation <= service.generation
  BY Taken
<1>2. /\ t \in Services /\ t.sender = Waiting.sender /\ t.generation = Waiting.generation
      /\ t.shown = IF Waiting.generation = c.generation THEN state ELSE Waiting.shown
  BY <1>1, ToldTyped
<1>3. Ordered(t, o)
  BY <1>1, <1>2 DEF Ordered
<1>4. service.generation = c.generation =>
        \A i \in 1..Len(Waiting.sender) : ~Switch(Waiting.sender[i])
  <2>1. \A i \in 1..Len(Waiting.sender) :
          Waiting.sender[i] \in Commands /\ Waiting.sender[i].generation \in Nat
    BY <1>1 DEF Services, Commands
  <2> QED
    BY <1>1, <2>1
<1>5. Quiet(t, o)
  BY <1>1, <1>2, <1>4 DEF Quiet
<1> QED
  BY <1>1, <1>2, <1>3, <1>5 DEF Off

\* An output that stops by itself.
LEMMA StoppedByItself ==
  ASSUME OffInv, output # None, NEW state \in Off,
         NEW t, t = Told(service, output.generation, state)
  PROVE  /\ t \in Services /\ Ordered(t, None) /\ Quiet(t, None)
         /\ t.shown = "disabled" => state = "disabled"
<1>1. /\ service \in Services /\ service.generation \in Nat /\ output \in Outputs
      /\ output.generation \in Nat /\ Ordered(service, output) /\ service.shown \notin Off
  BY DEF OffInv, OutputTypeOK, Served, Quiet, Outputs, Services
<1>2. /\ t \in Services /\ t.sender = service.sender /\ t.generation = service.generation
      /\ t.shown = IF service.generation = output.generation THEN state ELSE service.shown
  BY <1>1, ToldTyped DEF States
<1>3. Ordered(t, None)
  BY <1>1, <1>2 DEF Ordered
<1>4. service.generation = output.generation =>
        \A i \in 1..Len(service.sender) : ~Switch(service.sender[i])
  <2>1. \A i \in 1..Len(service.sender) :
          service.sender[i] \in Commands /\ service.sender[i].generation \in Nat
    BY <1>1 DEF Services, Commands
  <2> QED
    BY <1>1, <2>1 DEF Ordered
<1>5. Quiet(t, None)
  BY <1>1, <1>2, <1>4 DEF Quiet
<1> QED
  BY <1>1, <1>2, <1>3, <1>5 DEF Off
-------------------------------------------------------------------------------
(* Every step keeps OffInv.                                                *)

\* The worker's counts, flags and typed variables.
LEMMA FaultsTyped ==
  ASSUME OffInv, NEW fault \in BOOLEAN, Fails(fault)
  PROVE  faults' \in 0..MaxFaults
  BY OutputAssumption DEF OutputAssumption, OffInv, OutputTypeOK, Fails

LEMMA EnableKeeps ==
  ASSUME OffInv, service.sender # <<>>, NEW c, c = Head(service.sender), c.do = "enable",
         Enable(c), worker' \in {"waits", "ticks"}, worker' = "ticks" => output' # None,
         UNCHANGED prepared
  PROVE  OffInv'
<1>1. PICK dark, opens \in BOOLEAN :
        LET refused == output # None /\ ~dark
            open == ~refused /\ opens
        IN  /\ output = None => dark
            /\ refused => opens
            /\ Fails(refused \/ ~opens)
            /\ lit' = (lit /\ (output = None \/ ~dark))
            /\ stopError' = refused
            /\ forgotten' = (lit' /\ (forgotten \/ stopError))
            /\ output' = IF open THEN [generation |-> c.generation, feed |-> c.feed] ELSE None
            /\ service' = Told(Waiting, c.generation,
                               IF ~open THEN "error"
                               ELSE IF c.feed.kind = "test" THEN "testing" ELSE "playing")
  BY DEF Enable
<1> DEFINE refused == output # None /\ ~dark
           open == ~refused /\ opens
           state == IF ~open THEN "error"
                    ELSE IF c.feed.kind = "test" THEN "testing" ELSE "playing"
<1>2. c \in Commands /\ c.generation \in Nat /\ Switch(c)
  BY Taken DEF Switch
<1>3. c.feed \in Feeds
  BY <1>2 DEF Commands
<1>4. /\ state \in States /\ (state \in Off => output' = None) /\ state # "disabled"
      /\ output' \in Outputs \cup {None} /\ (output' # None => output'.generation = c.generation)
  BY <1>1, <1>2, <1>3 DEF States, Off, Live, Outputs
<1>5. service' = Told(Waiting, c.generation, state)
  BY <1>1
<1> HIDE DEF state
<1>6. /\ service' \in Services /\ Ordered(service', output') /\ Quiet(service', output')
      /\ service'.shown # "disabled"
  BY <1>2, <1>4, <1>5, Answered
<1>7. Served(service)'
  BY <1>6 DEF Served, Ordered, Quiet
<1>8. faults' \in 0..MaxFaults
  BY <1>1, FaultsTyped
<1>9. /\ stopError' \in BOOLEAN /\ lit' \in BOOLEAN /\ forgotten' \in BOOLEAN /\ prepared' \in BOOLEAN
      /\ output' # None => ~stopError'
      /\ lit' /\ output' = None => stopError' \/ forgotten'
  BY <1>1 DEF OffInv, OutputTypeOK
<1> QED
  BY <1>4, <1>6, <1>7, <1>8, <1>9 DEF OffInv, OutputTypeOK

\* The output stops, for a command or by itself, and `state` is told.
LEMMA StoppedKeeps ==
  ASSUME OffInv, NEW state \in Off, NEW s, NEW generation,
         service' = Told(s, generation, state), output' = None,
         state = "disabled" => ~stopError',
         stopError' \in BOOLEAN, lit' \in BOOLEAN, forgotten' \in BOOLEAN,
         lit' => stopError' \/ forgotten',
         \/ /\ service.sender # <<>> /\ s = Waiting
            /\ Switch(Head(service.sender)) /\ generation = Head(service.sender).generation
         \/ output # None /\ s = service /\ generation = output.generation,
         faults' \in 0..MaxFaults, worker' = "waits", UNCHANGED prepared
  PROVE  OffInv'
<1>1. prepared' \in BOOLEAN
  BY DEF OffInv, OutputTypeOK
<1>2. /\ service' \in Services /\ Ordered(service', None) /\ Quiet(service', None)
      /\ service'.shown = "disabled" => state = "disabled"
  <2>1. CASE /\ service.sender # <<>> /\ s = Waiting
             /\ Switch(Head(service.sender)) /\ generation = Head(service.sender).generation
    <3>1. state \in States
      BY DEF States
    <3> QED
      BY <2>1, <3>1, Answered
  <2>2. CASE output # None /\ s = service /\ generation = output.generation
    BY <2>2, StoppedByItself
  <2> QED
    BY <2>1, <2>2
<1>3. Served(service)'
  BY <1>2 DEF Served, Ordered, Quiet
<1> QED
  BY <1>1, <1>2, <1>3 DEF OffInv, OutputTypeOK

\* stop_output, of a command or of the output itself.
LEMMA StopKeeps ==
  ASSUME OffInv, NEW failed \in BOOLEAN, NEW dark \in BOOLEAN, NEW s, NEW generation,
         StopOutput(s, generation, failed, dark),
         \/ /\ service.sender # <<>> /\ s = Waiting
            /\ Switch(Head(service.sender)) /\ generation = Head(service.sender).generation
         \/ output # None /\ s = service /\ generation = output.generation,
         forgotten' = (forgotten /\ lit'), faults' \in 0..MaxFaults,
         worker' = "waits", UNCHANGED prepared
  PROVE  OffInv'
<1> DEFINE state == IF output = None THEN (IF stopError THEN "error" ELSE "disabled")
                    ELSE (IF failed \/ ~dark THEN "error" ELSE "disabled")
<1>1. /\ service' = Told(s, generation, state) /\ output' = None
      /\ state \in Off /\ (state = "disabled" => ~stopError')
      /\ stopError' \in BOOLEAN /\ lit' \in BOOLEAN /\ forgotten' \in BOOLEAN
      /\ lit' => stopError' \/ forgotten'
  BY DEF StopOutput, Off, OffInv, OutputTypeOK
<1>2. state \in Off
  BY <1>1
<1> HIDE DEF state
<1> QED
  BY <1>1, <1>2, StoppedKeeps

LEMMA EventsKeep ==
  ASSUME OffInv, service.sender # <<>>, NEW c, c = Head(service.sender), c.do = "events",
         ConsoleEvents(c), worker' \in {"waits", "ticks"}, worker' = "ticks" => output' # None,
         UNCHANGED prepared
  PROVE  OffInv'
<1>1. /\ Waiting \in Services /\ Waiting.shown = service.shown
      /\ Ordered(Waiting, output) /\ Quiet(Waiting, output) /\ c \in Commands
  BY Taken
<1>2. c.event \in Nat
  BY <1>1 DEF Commands
<1>3. /\ output' \in Outputs \cup {None} /\ (output' = None <=> output = None)
      /\ output # None => output'.generation = output.generation
  <2>1. CASE output' = output
    BY <2>1 DEF OffInv, OutputTypeOK
  <2>2. CASE output' # output
    <3> DEFINE log == Append(output.feed.log, c.event)
               feed == [output.feed EXCEPT !.log = log]
               played == [output EXCEPT !.feed = feed]
    <3>1. output \in Outputs /\ output.feed \in Feeds /\ output.feed.log \in Seq(Nat)
      BY <2>2 DEF ConsoleEvents, OffInv, OutputTypeOK, Outputs, Feeds
    <3>2. log \in Seq(Nat)
      BY <1>2, <3>1
    <3> HIDE DEF log
    <3>3. feed \in Feeds
      BY <3>1, <3>2 DEF Feeds
    <3>4. output' = played
      BY <2>2, <3>1 DEF ConsoleEvents, log, Outputs, Feeds
    <3> HIDE DEF feed
    <3>5. played \in Outputs /\ played.generation = output.generation
      BY <3>1, <3>3 DEF Outputs
    <3> QED
      BY <3>1, <3>4, <3>5, OutputAssumption DEF OutputAssumption
  <2> QED
    BY <2>1, <2>2
<1>4. service' = Waiting /\ UNCHANGED <<stopError, lit, forgotten, faults>>
  BY DEF ConsoleEvents
<1>5. Ordered(service', output') /\ Quiet(service', output')
  BY <1>1, <1>3, <1>4 DEF Ordered, Quiet
<1>6. Served(service)'
  BY <1>1, <1>4, <1>5 DEF Served, OffInv, Ordered, Quiet
<1> QED
  BY <1>1, <1>3, <1>4, <1>6 DEF OffInv, OutputTypeOK

LEMMA WorkerKeeps == OffInv /\ WorkerStep => OffInv'
<1> SUFFICES ASSUME OffInv, WorkerStep PROVE OffInv'
  OBVIOUS
<1>1. CASE Receive
  <2> DEFINE c == Head(service.sender)
  <2>1. /\ service.sender # <<>> /\ UNCHANGED prepared
        /\ worker' \in {"waits", "ticks"} /\ (worker' = "ticks" => output' # None)
        /\ output' = None => worker' = "waits"
    BY <1>1 DEF Receive
  <2>2. CASE c.do = "enable" /\ Enable(c)
    BY <2>1, <2>2, EnableKeeps
  <2>3. CASE c.do = "disable" /\ Disable(c)
    <3>1. PICK dark \in BOOLEAN :
            StopOutput(Waiting, c.generation, FALSE, dark) /\ Fails(~dark)
      BY <2>3 DEF Disable
    <3>2. forgotten' = (forgotten /\ lit') /\ faults' \in 0..MaxFaults
      BY <2>3, <3>1, FaultsTyped DEF Disable
    <3>3. output' = None
      BY <3>1 DEF StopOutput
    <3>4. Switch(c)
      BY <2>3 DEF Switch
    <3> QED
      BY <2>1, <3>1, <3>2, <3>3, <3>4, StopKeeps
  <2>4. CASE c.do = "events" /\ ConsoleEvents(c)
    BY <2>1, <2>4, EventsKeep
  <2> QED
    BY <1>1, <2>2, <2>3, <2>4 DEF Receive
<1>2. CASE Timeout
  BY <1>2 DEF Timeout, OffInv, OutputTypeOK, Served, Ordered, Quiet
<1>3. CASE Tick
  <2>1. output # None /\ worker' = "waits" /\ UNCHANGED prepared
    BY <1>3 DEF Tick, OffInv, OutputTypeOK
  <2>2. CASE Sends
    BY <2>1, <2>2 DEF Sends, OffInv, OutputTypeOK, Served, Ordered, Quiet
  <2>3. CASE TestEnds
    <3>1. PICK dark \in BOOLEAN :
            StopOutput(service, output.generation, FALSE, dark) /\ Fails(~dark)
      BY <2>3 DEF TestEnds
    <3>2. forgotten' = (forgotten /\ lit') /\ faults' \in 0..MaxFaults
      BY <2>3, <3>1, FaultsTyped DEF TestEnds
    <3> QED
      BY <2>1, <3>1, <3>2, StopKeeps
  <2>4. CASE RenderFails
    <3>1. PICK dark \in BOOLEAN :
            StopOutput(service, output.generation, TRUE, dark) /\ Fails(~dark)
      BY <2>4 DEF RenderFails
    <3>2. forgotten' = (forgotten /\ lit') /\ faults' \in 0..MaxFaults
      BY <2>4, <3>1, FaultsTyped DEF RenderFails
    <3> QED
      BY <2>1, <3>1, <3>2, StopKeeps
  <2>5. CASE SendFails
    <3>1. /\ service' = Told(service, output.generation, "error")
          /\ output' = None /\ stopError' = TRUE
          /\ lit' \in BOOLEAN /\ forgotten' = (forgotten /\ lit')
      BY <2>5 DEF SendFails, OffInv, OutputTypeOK
    <3>2. faults' \in 0..MaxFaults
      BY <2>5, FaultsTyped DEF SendFails
    <3>3. "error" \in Off /\ forgotten' \in BOOLEAN
      BY <3>1 DEF Off, OffInv, OutputTypeOK
    <3> QED
      BY <2>1, <3>1, <3>2, <3>3, StoppedKeeps
  <2> QED
    BY <1>3, <2>2, <2>3, <2>4, <2>5 DEF Tick
<1> QED
  BY <1>1, <1>2, <1>3 DEF WorkerStep
-------------------------------------------------------------------------------
(* The desktop's steps.                                                    *)

\* What the Preview was sent is the beginning of the log.
Sent ==
  /\ preview.of \in 0..armed
  /\ perform # None /\ preview.of = perform.generation =>
       /\ preview.sent <= Len(perform.log)
       /\ preview.log = SubSeq(perform.log, 1, preview.sent)

Inv == OffInv /\ TypeOK /\ Sent

Desktop ==
  \/ TurnOn \/ TurnOff \/ StartTest \/ StopPerforming \/ PerformingStopped \/ Touch
  \/ StartPerforming \/ Starter
  \/ Edit \/ Choose \/ Complete \/ Author \/ Rearm
  \/ Poll \/ PreviewStep

LEMMA ServesKeeps ==
  ASSUME OffInv, NEW s, Served(s), Serves(s)
  PROVE  OffInv'
<1>1. /\ service' = s /\ s \in Services
      /\ UNCHANGED <<worker, output, stopError, prepared, lit, forgotten, faults>>
  BY DEF Serves, Served
<1>2. Served(service)'
  BY <1>1 DEF Served, Ordered, Quiet
<1> QED
  BY <1>1, <1>2 DEF OffInv, OutputTypeOK

\* Only what is prepared changes, or nothing of the output.
LEMMA PreparedKeeps ==
  ASSUME OffInv, prepared' \in BOOLEAN,
         UNCHANGED <<service, worker, output, stopError, lit, forgotten, faults>>
  PROVE  OffInv'
  BY DEF OffInv, OutputTypeOK, Served, Ordered, Quiet

LEMMA FeedTyped == TypeOK => Feed \in Feeds /\ Test \in Feeds
<1>1. <<>> \in Seq(Nat) /\ 0 \in Nat
  OBVIOUS
<1> QED
  BY <1>1 DEF TypeOK, Feed, Feeds, Test, Sequence, Performances

LEMMA TurnedOnServes == OffInv /\ TypeOK => Served(TurnedOn(service))
<1> SUFFICES ASSUME OffInv, TypeOK PROVE Served(TurnedOn(service))
  OBVIOUS
<1>1. OutputTypeOK /\ Served(service) /\ Feed \in Feeds
  BY FeedTyped DEF OffInv
<1>2. Served(Started(service, Feed))
  BY <1>1, StartServes
<1> QED
  BY <1>1, <1>2 DEF TurnedOn

LEMMA DesktopKeeps == OffInv /\ TypeOK /\ Desktop => OffInv'
<1> SUFFICES ASSUME OffInv, TypeOK, Desktop PROVE OffInv'
  OBVIOUS
<1>1. /\ OutputTypeOK /\ Served(service) /\ Served(TurnedOn(service))
      /\ Served(Disabled(service)) /\ Served(Suspended(service))
      /\ Served(MarkedPrepared(service)) /\ Served(ResumeTaken(service))
      /\ prepared \in BOOLEAN
  BY TurnedOnServes, OffServes DEF OffInv, OutputTypeOK
<1>2. CASE UNCHANGED outputVars
  BY <1>1, <1>2, PreparedKeeps DEF outputVars
<1>3. CASE TurnOn
  BY <1>1, <1>3, ServesKeeps DEF TurnOn
<1>4. CASE TurnOff \/ PerformingStopped
  BY <1>1, <1>4, ServesKeeps DEF TurnOff, PerformingStopped
<1>5. CASE StartTest
  <2>1. Served(Started(service, Test))
    BY <1>1, FeedTyped, StartServes
  <2> QED
    BY <1>5, <2>1, ServesKeeps DEF StartTest
<1>6. CASE Touch
  <2>1. left.touches \in Nat
    BY PerformanceAssumption DEF TypeOK, PerformanceAssumption
  <2>2. Served(WithEvent(service, left.touches))
    BY <1>1, <2>1, EventServes
  <2> QED
    BY <1>6, <2>2, ServesKeeps DEF Touch
<1>7. CASE Starter
  BY <1>1, <1>2, <1>7, ServesKeeps DEF Starter
<1>8. CASE Complete
  BY <1>1, <1>8, PreparedKeeps DEF Complete
<1>9. CASE Author
  <2>1. CASE \E s \in {service, Suspended(service), Disabled(service), TurnedOn(service),
                       MarkedPrepared(service), ResumeTaken(service)} : Serves(s)
    BY <1>1, <2>1, ServesKeeps
  <2>2. CASE \E to \in {"arms", "free"} : Unload(to)
    BY <1>1, <2>2, PreparedKeeps DEF Unload
  <2> QED
    BY <1>9, <2>1, <2>2 DEF Author, Then
<1>10. CASE Poll
  BY <1>1, <1>10, ServesKeeps DEF Poll
<1>11. CASE StopPerforming \/ StartPerforming \/ Edit \/ Choose \/ Rearm \/ PreviewStep
  BY <1>2, <1>11 DEF StopPerforming, StartPerforming, Edit, Choose, Rearm,
     PreviewStep, PreviewWaits, PreviewLooks, PreviewLoads, PreviewPlays
<1> QED
  BY <1>3, <1>4, <1>5, <1>6, <1>7, <1>8, <1>9, <1>10, <1>11 DEF Desktop
-------------------------------------------------------------------------------
(* Types, and what the Preview was sent.                                   *)

PreviewState == [at : {"waits", "looks", "renews", "loads", "plays"}, identity : Nat,
                 of : Nat, sent : Nat, log : Seq(Nat)]
LeftState == [acts : 0..MaxActs, touches : 0..MaxTouches]

PollState == [at : {"off", "takes", "resumes", "looks"}, last : BOOLEAN]

\* A performance, and the Preview's share of it.
Performed ==
  /\ armed \in Nat
  /\ perform # None =>
       perform \in Performances /\ perform.generation \in 1..armed /\ perform.log # <<>>
  /\ preview \in PreviewState
  /\ Sent

LEMMA SpendTyped ==
  ASSUME TypeOK, NEW what \in {"acts", "touches"}, Spend(what)
  PROVE  left' \in LeftState
  BY PerformanceAssumption DEF PerformanceAssumption, TypeOK, Spend, LeftState

LEMMA PollingTyped ==
  ASSUME TypeOK
  PROVE  poll \in PollState /\ Polling \in PollState
<1>1. poll \in PollState
  BY DEF TypeOK, PollState
<1>2. [at |-> "takes", last |-> FALSE] \in PollState
  BY DEF PollState
<1>3. [poll EXCEPT !.last = FALSE] \in PollState
  BY <1>1 DEF PollState
<1> QED
  BY <1>1, <1>2, <1>3 DEF Polling

LEMMA PollTyped ==
  ASSUME TypeOK, Desktop
  PROVE  poll' \in PollState
<1> DEFINE polls == Polling
<1>1. poll \in PollState /\ polls \in PollState
  BY PollingTyped
<1>2. CASE Poll
  <2>1. \/ \E at \in {"resumes", "looks"} : poll' = [poll EXCEPT !.at = at]
        \/ \E at \in {"off", "takes"}, last \in BOOLEAN : poll' = [at |-> at, last |-> last]
    <3>1. poll.last \in BOOLEAN
      BY <1>1 DEF PollState
    <3>2. CASE poll.at = "takes"
      BY <1>2, <3>2 DEF Poll
    <3>3. CASE poll.at = "resumes"
      BY <1>2, <3>3 DEF Poll
    <3>4. CASE poll.at = "looks"
      BY <1>2, <3>1, <3>4 DEF Poll
    <3> QED
      BY <1>2, <3>2, <3>3, <3>4 DEF Poll
  <2> QED
    BY <1>1, <2>1 DEF PollState
<1>3. CASE ~Poll
  <2>1. poll' \in {poll, polls}
    BY <1>3 DEF Desktop, TurnOn, TurnOff, StartTest, StopPerforming, PerformingStopped, Touch,
       StartPerforming, Starter, Edit, Choose, Complete, Author, Rearm, PreviewStep,
       PreviewWaits, PreviewLooks, PreviewLoads, PreviewPlays
  <2> HIDE DEF polls
  <2> QED
    BY <1>1, <2>1
<1> QED
  BY <1>2, <1>3

\* The threads' own variables.
LEMMA ThreadsTyped ==
  ASSUME TypeOK, Desktop
  PROVE  /\ user' \in {"idle", "stops"}
         /\ starter' \in {"idle", "armsLive", "arms", "turns", "asks", "resumes"}
         /\ authoring' \in {"free", "suspends", "unloads", "arms", "follows", "turns",
                            "disables", "drops", "marks", "takes", "gives"}
         /\ refresh' \in BOOLEAN
         /\ left' \in LeftState
<1>1. CASE TurnOn \/ TurnOff \/ StartTest \/ StopPerforming \/ PerformingStopped \/ Touch
  <2>1. left' \in LeftState
    BY <1>1, SpendTyped DEF TurnOn, TurnOff, StartTest, StopPerforming, PerformingStopped, Touch,
       TypeOK, LeftState
  <2> QED
    BY <1>1, <2>1 DEF TurnOn, TurnOff, StartTest, StopPerforming, PerformingStopped, Touch,
       TypeOK
<1>2. CASE StartPerforming \/ Edit \/ Choose
  <2>1. left' \in LeftState
    BY <1>2, SpendTyped DEF StartPerforming, Edit, Choose
  <2> QED
    BY <1>2, <2>1 DEF StartPerforming, Edit, Choose, TypeOK
<1>3. CASE Starter
  BY <1>3 DEF Starter, TypeOK, LeftState
<1>4. CASE Complete \/ Rearm
  BY <1>4 DEF Complete, Rearm, TypeOK, LeftState
<1>5. CASE Author
  BY <1>5 DEF Author, Then, Unload, TypeOK, LeftState
<1>6. CASE Poll
  BY <1>6 DEF Poll, TypeOK, LeftState
<1>7. CASE PreviewStep
  BY <1>7 DEF PreviewStep, PreviewWaits, PreviewLooks, PreviewLoads, PreviewPlays, TypeOK, LeftState
<1> QED
  BY <1>1, <1>2, <1>3, <1>4, <1>5, <1>6, <1>7 DEF Desktop

\* A performance armed has a number that the Preview does not know.
LEMMA ArmPerformed ==
  ASSUME Performed, NEW carry \in BOOLEAN, carry => perform # None, Arm(carry), UNCHANGED preview
  PROVE  Performed'
<1> DEFINE log == IF carry THEN <<0>> \o Tail(perform.log) ELSE <<0>>
<1>1. log \in Seq(Nat) /\ log # <<>>
  <2>1. CASE carry
    <3>1. Tail(perform.log) \in Seq(Nat) /\ <<0>> \in Seq(Nat)
      BY <2>1 DEF Performed, Performances
    <3>2. log \in Seq(Nat) /\ Len(log) = 1 + Len(Tail(perform.log))
      BY <2>1, <3>1
    <3> QED
      BY <3>1, <3>2
  <2>2. CASE ~carry
    BY <2>2
  <2> QED
    BY <2>1, <2>2
<1>2. perform' = [generation |-> armed + 1, log |-> log] /\ armed' = armed + 1
  BY DEF Arm
<1> HIDE DEF log
<1>3. /\ armed' \in Nat /\ perform' \in Performances /\ perform'.generation = armed + 1
      /\ perform'.log # <<>>
  BY <1>1, <1>2 DEF Performed, Performances
<1>4. preview.of \in 0..armed /\ preview.of # armed + 1
  BY DEF Performed, Sent
<1> QED
  BY <1>2, <1>3, <1>4 DEF Performed, Sent

LEMMA TouchPerformed ==
  ASSUME TypeOK, Performed, Touch
  PROVE  Performed'
<1> DEFINE log == Append(perform.log, left.touches)
<1>1. perform \in Performances /\ perform.log \in Seq(Nat) /\ left.touches \in Nat
  BY PerformanceAssumption DEF PerformanceAssumption, TypeOK, Performed, Performances, Touch
<1>2. log \in Seq(Nat) /\ Len(log) = Len(perform.log) + 1 /\ log # <<>>
  BY <1>1
<1>3. \A n \in Nat : n <= Len(perform.log) => SubSeq(log, 1, n) = SubSeq(perform.log, 1, n)
  BY <1>1
<1>4. perform' = [perform EXCEPT !.log = log] /\ UNCHANGED <<armed, preview>>
  BY DEF Touch
<1> HIDE DEF log
<1>5. /\ perform' \in Performances /\ perform'.generation = perform.generation
      /\ perform'.log = log /\ perform # None
  BY <1>1, <1>2, <1>4 DEF Performances, Touch
<1>6. preview.sent \in Nat /\ Len(perform.log) \in Nat
  BY <1>1 DEF Performed, PreviewState
<1> QED
  BY <1>2, <1>3, <1>4, <1>5, <1>6 DEF Performed, Sent

LEMMA SplitAgain ==
  ASSUME NEW s \in Seq(Nat), NEW n \in Nat, n <= Len(s)
  PROVE  SubSeq(s, 1, n) \o SubSeq(s, n + 1, Len(s)) = s
<1> DEFINE a == SubSeq(s, 1, n)
           b == SubSeq(s, n + 1, Len(s))
<1>1. a \in Seq(Nat) /\ Len(a) = n /\ \A i \in 1..n : a[i] = s[i]
  OBVIOUS
<1>2. /\ b \in Seq(Nat) /\ Len(b) = Len(s) - n
      /\ \A i \in 1..(Len(s) - n) : b[i] = s[n + i]
  OBVIOUS
<1> HIDE DEF a, b
<1>3. /\ a \o b \in Seq(Nat) /\ Len(a \o b) = Len(s)
      /\ \A i \in 1..Len(s) : (a \o b)[i] = IF i <= n THEN a[i] ELSE b[i - n]
  <2>1. Len(a) + Len(b) = Len(s) /\ Len(a) = n
    BY <1>1, <1>2
  <2>2. /\ a \o b \in Seq(Nat) /\ Len(a \o b) = Len(a) + Len(b)
        /\ \A i \in 1..(Len(a) + Len(b)) :
             (a \o b)[i] = IF i <= Len(a) THEN a[i] ELSE b[i - Len(a)]
    BY <1>1, <1>2, ConcatProperties, Zenon
  <2> QED
    BY <2>1, <2>2
<1>4. \A i \in 1..Len(s) : (a \o b)[i] = s[i]
  <2> SUFFICES ASSUME NEW i \in 1..Len(s)
               PROVE  (IF i <= n THEN a[i] ELSE b[i - n]) = s[i]
    BY <1>3, Zenon
  <2>1. CASE i <= n
    BY <1>1, <2>1
  <2>2. CASE ~(i <= n)
    <3>1. i - n \in 1..(Len(s) - n) /\ n + (i - n) = i
      BY <2>2
    <3> QED
      BY <1>2, <2>2, <3>1
  <2> QED
    BY <2>1, <2>2
<1>5. a \o b = s
  BY <1>3, <1>4, SeqEqual, Zenon
<1> QED
  BY <1>5 DEF a, b

LEMMA PlaysPerformed ==
  ASSUME Performed, PreviewPlays
  PROVE  Performed'
<1>1. UNCHANGED <<perform, armed>>
  BY DEF PreviewPlays
<1>a. NextLook \in {"waits", "looks"}
  BY DEF NextLook
<1>2. CASE perform = None \/ preview.of # perform.generation
  <2>1. preview' = [preview EXCEPT !.at = NextLook]
    BY <1>2 DEF PreviewPlays
  <2>2. preview' \in PreviewState /\ preview'.of = preview.of
    BY <1>a, <2>1 DEF Performed, PreviewState
  <2> QED
    BY <1>1, <1>2, <2>2 DEF Performed, Sent
<1>3. CASE perform # None /\ preview.of = perform.generation
  <2> DEFINE rest == SubSeq(perform.log, preview.sent + 1, Len(perform.log))
             log == preview.log \o rest
             length == Len(perform.log)
  <2>1. /\ perform.log \in Seq(Nat) /\ preview.sent \in Nat /\ preview.sent <= Len(perform.log)
        /\ preview.log = SubSeq(perform.log, 1, preview.sent)
    BY <1>3 DEF Performed, Sent, Performances, PreviewState
  <2>2. log = perform.log
    BY <2>1, SplitAgain
  <2>3. length \in Nat /\ SubSeq(perform.log, 1, length) = perform.log
    BY <2>1
  <2>4. preview' = [preview EXCEPT !.at = NextLook, !.sent = length, !.log = log]
    BY <1>3 DEF PreviewPlays
  <2> HIDE DEF log, length
  <2>5. /\ preview' \in PreviewState /\ preview'.of = preview.of
        /\ preview'.sent = length /\ preview'.log = perform.log
    BY <1>a, <2>1, <2>2, <2>3, <2>4 DEF Performed, PreviewState
  <2>6. length <= Len(perform.log)
    BY <2>1 DEF length
  <2> QED
    BY <1>1, <2>3, <2>5, <2>6 DEF Performed, Sent
<1> QED
  BY <1>2, <1>3

LEMMA DesktopPerforms ==
  ASSUME TypeOK, Performed, Desktop
  PROVE  Performed'
<1>1. CASE UNCHANGED <<perform, armed, preview>>
  BY <1>1 DEF Performed, Sent
<1>2. CASE \/ TurnOn \/ TurnOff \/ StartTest \/ PerformingStopped
           \/ StartPerforming \/ Edit \/ Choose \/ Complete \/ Author \/ Poll
  BY <1>1, <1>2 DEF TurnOn, TurnOff, StartTest, PerformingStopped, StartPerforming,
     Edit, Choose, Complete, Author, Poll
<1>3. CASE StopPerforming
  BY <1>3 DEF StopPerforming, Performed, Sent
<1>4. CASE Touch
  BY <1>4, TouchPerformed
<1>5. CASE Starter
  <2>1. UNCHANGED preview /\ (Arm(FALSE) \/ UNCHANGED <<perform, armed>>)
    BY <1>5 DEF Starter
  <2>2. CASE Arm(FALSE)
    BY <2>1, <2>2, ArmPerformed
  <2> QED
    BY <1>1, <2>1, <2>2
<1>6. CASE Rearm
  <2>1. Arm(TRUE) /\ perform # None /\ UNCHANGED preview
    BY <1>6 DEF Rearm, Performing
  <2> QED
    BY <2>1, ArmPerformed
<1>7. CASE PreviewLooks
  <2> DEFINE next == IF refresh THEN "renews" ELSE "loads"
  <2>0. next \in {"renews", "loads"} /\ Generation \in Nat
    BY DEF Generation, Performed
  <2>a. /\ UNCHANGED <<perform, armed>>
        /\ \/ preview' = [preview EXCEPT !.at = next, !.identity = Generation]
           \/ preview' = [preview EXCEPT !.at = "plays"]
    BY <1>7 DEF PreviewLooks
  <2> HIDE DEF Generation, next
  <2>1. /\ Generation \in Nat
        /\ UNCHANGED <<perform, armed>>
        /\ \/ preview' = [preview EXCEPT !.at = "loads", !.identity = Generation]
           \/ preview' = [preview EXCEPT !.at = "renews", !.identity = Generation]
           \/ preview' = [preview EXCEPT !.at = "plays"]
    BY <2>0, <2>a
  <2>2. /\ preview' \in PreviewState /\ preview'.of = preview.of
        /\ preview'.sent = preview.sent /\ preview'.log = preview.log
    BY <2>1 DEF Performed, PreviewState
  <2> QED
    BY <2>1, <2>2 DEF Performed, Sent
<1>8. CASE PreviewLoads
  <2> DEFINE none == <<>>
  <2>1. /\ Generation \in 0..armed /\ UNCHANGED <<perform, armed>>
        /\ none \in Seq(Nat) /\ armed \in Nat
        /\ preview' = [preview EXCEPT !.at = "plays", !.of = Generation, !.sent = 0, !.log = none]
    BY <1>8 DEF PreviewLoads, Generation, Performed
  <2> DEFINE of == Generation
  <2>a. /\ of \in Nat /\ none \in Seq(Nat) /\ preview \in PreviewState
        /\ preview' = [preview EXCEPT !.at = "plays", !.of = of, !.sent = 0, !.log = none]
    BY <2>1 DEF Performed
  <2> HIDE DEF none, of
  <2>b. /\ preview' \in PreviewState /\ preview'.of = of
        /\ preview'.sent = 0 /\ preview'.log = none
    BY <2>a DEF PreviewState
  <2>2. /\ preview' \in PreviewState /\ preview'.of = Generation
        /\ preview'.sent = 0 /\ preview'.log = none
    BY <2>b DEF of
  <2>3. perform # None => /\ 0 <= Len(perform.log) /\ none = SubSeq(perform.log, 1, 0)
    BY DEF Performed, Performances, none
  <2> QED
    BY <2>1, <2>2, <2>3 DEF Performed, Sent
<1>9. CASE PreviewPlays
  BY <1>9, PlaysPerformed
<1>10. CASE PreviewWaits
  <2>1. preview' \in PreviewState /\ preview'.of = preview.of
        /\ preview'.sent = preview.sent /\ preview'.log = preview.log
    BY <1>10 DEF PreviewWaits, Performed, PreviewState
  <2> QED
    BY <1>10, <2>1 DEF PreviewWaits, Performed, Sent
<1> QED
  BY <1>2, <1>3, <1>4, <1>5, <1>6, <1>7, <1>8, <1>9, <1>10 DEF Desktop, PreviewStep
-------------------------------------------------------------------------------
LEMMA InitInv == Init => Inv
<1> SUFFICES ASSUME Init PROVE Inv
  OBVIOUS
<1>1. <<>> \in Seq(Commands) /\ <<>> \in Seq(Nat) /\ Len(<<>>) = 0
  OBVIOUS
<1> DEFINE none == <<>>
<1>a. none \in Seq(Commands)
  BY <1>1
<1>b. service = [generation |-> 0, shown |-> "disabled", resumeAfter |-> FALSE,
                 resumeReady |-> FALSE, console |-> FALSE, sender |-> none]
  BY DEF Init, OutputInit
<1> HIDE DEF none
<1>c. service \in Services
  BY <1>a, <1>b DEF Services, Off
<1>2. OutputTypeOK
  <2>1. faults = 0 /\ 0 \in 0..MaxFaults
    BY OutputAssumption DEF OutputAssumption, Init, OutputInit
  <2>2. /\ worker = "waits" /\ output = None /\ stopError = FALSE /\ prepared = FALSE
        /\ lit = FALSE /\ forgotten = FALSE
    BY DEF Init, OutputInit
  <2> QED
    BY <1>c, <2>1, <2>2 DEF OutputTypeOK
<1>3. Served(service)
  BY <1>1, <1>2 DEF Init, OutputInit, OutputTypeOK, Served, Ordered, Quiet
<1>4. TypeOK
  <2> DEFINE empty == <<>>
  <2>1. empty \in Seq(Nat)
    BY <1>1
  <2>2. preview = [at |-> "looks", identity |-> 0, of |-> 0, sent |-> 0, log |-> empty]
    BY DEF Init
  <2> HIDE DEF empty
  <2>3. preview \in PreviewState
    BY <2>1, <2>2 DEF PreviewState
  <2>4. left \in LeftState /\ poll \in PollState
    BY PerformanceAssumption DEF PerformanceAssumption, Init, LeftState, PollState
  <2> QED
    BY <1>2, <2>3, <2>4 DEF Init, TypeOK, PreviewState, LeftState, PollState
<1>5. Sent
  BY DEF Init, Sent
<1> QED
  BY <1>2, <1>3, <1>4, <1>5 DEF Init, OutputInit, Inv, OffInv

LEMMA NextInv == Inv /\ [Next]_vars => Inv'
<1> SUFFICES ASSUME Inv, [Next]_vars PROVE Inv'
  OBVIOUS
<1>1. CASE Runs
  <2>1. OffInv'
    BY <1>1, WorkerKeeps DEF Runs, Inv
  <2> QED
    BY <1>1, <2>1 DEF Runs, desktopVars, Inv, OffInv, TypeOK, Sent
<1>2. CASE Desktop
  <2>1. OffInv'
    BY <1>2, DesktopKeeps DEF Inv
  <2>2. Performed'
    BY <1>2, DesktopPerforms DEF Inv, Performed, TypeOK, PreviewState
  <2>3. TypeOK'
    BY <1>2, <2>1, <2>2, ThreadsTyped, PollTyped DEF Inv, OffInv, Performed, TypeOK, PreviewState,
       LeftState, PollState
  <2> QED
    BY <2>1, <2>2, <2>3 DEF Inv, Performed
<1>3. CASE UNCHANGED vars
  <2>1. OffInv'
    BY <1>3, PreparedKeeps DEF vars, outputVars, Inv, OffInv, OutputTypeOK
  <2> QED
    BY <1>3, <2>1 DEF vars, desktopVars, Inv, OffInv, TypeOK, Sent
<1> QED
  BY <1>1, <1>2, <1>3 DEF Next, Desktop

LEMMA InvHolds == Spec => []Inv
<1>1. Init => Inv
  BY InitInv
<1>2. Inv /\ [Next]_vars => Inv'
  BY NextInv
<1> QED
  BY <1>1, <1>2, PTL DEF Spec

\* The state of live output, of the threads that use it and of the Preview
\* keeps its type.
THEOREM PerformanceTypeCorrect == Spec => []TypeOK
<1>1. Inv => TypeOK
  BY DEF Inv
<1> QED
  BY <1>1, InvHolds, PTL

\* Turning the output off ends dark: for any number of edits, commands and
\* failing transports, an output shown as disabled is closed, nothing on its
\* way opens it, and its lights are dark or an error said otherwise.
THEOREM OffMeansDark == Spec => []OffIsDark
<1>1. Inv => OffIsDark
  BY OffMeans DEF Inv
<1> QED
  BY <1>1, InvHolds, PTL

\* The Preview's commands are the beginning of the log of the performance it
\* shows, for any number of performances, inputs and reloads.
THEOREM PreviewFollows == Spec => []PreviewPlaysTheLog
<1>1. Inv => PreviewPlaysTheLog
  <2> SUFFICES ASSUME Inv, perform # None, preview.of = perform.generation
               PROVE  IsPrefix(preview.log, perform.log)
    BY DEF PreviewPlaysTheLog
  <2>1. /\ perform.log \in Seq(Nat) /\ preview.sent \in Nat /\ preview.sent <= Len(perform.log)
        /\ preview.log = SubSeq(perform.log, 1, preview.sent)
    BY DEF Inv, Sent, TypeOK, Performances
  <2>2. Len(preview.log) = preview.sent /\ SubSeq(preview.log, 1, preview.sent) = preview.log
    BY <2>1
  <2> QED
    BY <2>1, <2>2 DEF IsPrefix
<1> QED
  BY <1>1, InvHolds, PTL
-------------------------------------------------------------------------------
(* What the output plays of a performance.                                 *)

\* The queue is in the order of the generations, and a switch begins one.
InOrder(s) ==
  /\ \A i \in 1..Len(s.sender) : s.sender[i].generation <= s.generation
  /\ \A i, j \in 1..Len(s.sender) : i < j =>
       /\ s.sender[i].generation <= s.sender[j].generation
       /\ Switch(s.sender[j]) => s.sender[i].generation < s.sender[j].generation

\* The output that counts plays the feed, or will.
Attached(s, o, feed) ==
  \/ o # None /\ o.generation = s.generation /\ feed = o.feed
  \/ \E i \in 1..Len(s.sender) :
       /\ s.sender[i].do = "enable" /\ s.sender[i].generation = s.generation
       /\ feed = s.sender[i].feed

\* The commands that follow the first ones in a queue.
Late(queue, sent) == [i \in 1..(Len(queue) - sent) |-> queue[sent + i].event]

\* The queue's last commands are those that the output that counts has not
\* played of the log.
Heard(s, feed, log) ==
  \E sent \in 0..Len(s.sender) :
    /\ \A i \in 1..Len(s.sender) :
         i > sent <=> s.sender[i].do = "events" /\ s.sender[i].generation = s.generation
    /\ log = feed.log \o Late(s.sender, sent)

Played(s, o, p, count) ==
  /\ InOrder(s)
  /\ \A feed \in Feeds : Attached(s, o, feed) =>
       /\ feed.of <= count
       /\ feed.of # 0 => feed.kind = "console" /\ s.console
       /\ p # None /\ feed.of = p.generation => Heard(s, feed, p.log)

LogInv == Played(service, output, perform, armed)

\* A command and what it does.
LEMMA CommandTyped ==
  ASSUME NEW s \in Services, NEW i \in 1..Len(s.sender)
  PROVE  /\ s.generation \in Nat /\ s.sender \in Seq(Commands)
         /\ s.sender[i] \in Commands /\ s.sender[i].generation \in Nat
         /\ s.sender[i].do = "enable" => s.sender[i].feed \in Feeds
         /\ s.sender[i].do = "events" => s.sender[i].event \in Nat
         /\ Switch(s.sender[i]) <=> s.sender[i].do # "events"
<1>1. s.generation \in Nat /\ s.sender \in Seq(Commands) /\ s.sender[i] \in Commands
  BY DEF Services
<1> QED
  BY <1>1 DEF Commands, Switch

\* What the invariant says of the feeds that the output plays or will play.
LEMMA PlayingMeans ==
  ASSUME TypeOK, LogInv
  PROVE  OutputPlaysTheLog
<1> SUFFICES ASSUME perform # None, NEW feed \in Playing, feed.of = perform.generation
             PROVE  \E sent \in 0..Len(service.sender) :
                      /\ \A i \in 1..Len(service.sender) :
                           i > sent <=> /\ service.sender[i].do = "events"
                                        /\ OfService(service.sender[i])
                      /\ perform.log = feed.log \o Coming(sent)
  BY DEF OutputPlaysTheLog
<1>1. service \in Services /\ output \in Outputs \cup {None}
  BY DEF TypeOK, OutputTypeOK
<1>2. Attached(service, output, feed)
  <2>1. \A c \in Range(service.sender) : \E i \in 1..Len(service.sender) : c = service.sender[i]
    BY <1>1 DEF Range, Services
  <2> QED
    BY <2>1 DEF Playing, Opening, OfService, Attached
<1>3. feed \in Feeds
  BY <1>1, <1>2, CommandTyped DEF Attached, Outputs
<1>4. Heard(service, feed, perform.log)
  BY <1>2, <1>3 DEF LogInv, Played
<1>5. \A sent : Coming(sent) = Late(service.sender, sent)
  BY DEF Coming, Late
<1> QED
  BY <1>4, <1>5 DEF Heard, OfService

\* What is still in the queue is a sequence of commands.
LEMMA LateTyped ==
  ASSUME NEW s \in Services, NEW sent \in 0..Len(s.sender),
         \A i \in 1..Len(s.sender) : i > sent => s.sender[i].do = "events"
  PROVE  /\ Late(s.sender, sent) \in Seq(Nat)
         /\ Len(Late(s.sender, sent)) = Len(s.sender) - sent
         /\ \A i \in 1..(Len(s.sender) - sent) :
              Late(s.sender, sent)[i] = s.sender[sent + i].event
<1> DEFINE n == Len(s.sender) - sent
<1>1. n \in Nat /\ Len(s.sender) \in Nat
  BY DEF Services
<1>2. \A i \in 1..n : s.sender[sent + i].event \in Nat
  <2> SUFFICES ASSUME NEW i \in 1..n
               PROVE  s.sender[sent + i].event \in Nat
    OBVIOUS
  <2>1. sent + i \in 1..Len(s.sender) /\ sent + i > sent
    BY <1>1
  <2> QED
    BY <2>1, CommandTyped
<1>3. Late(s.sender, sent) = [i \in 1..n |-> s.sender[sent + i].event]
  BY DEF Late
<1> HIDE DEF n
<1>4. Late(s.sender, sent) \in [1..n -> Nat]
  BY <1>2, <1>3
<1>5. Late(s.sender, sent) \in Seq(Nat)
  BY <1>1, <1>4, SeqDef
<1>6. Len(Late(s.sender, sent)) = n
  BY <1>1, <1>4, <1>5, LenProperties
<1> QED
  BY <1>3, <1>5, <1>6 DEF n

\* Another queue with the same commands, when the feed stays.
LEMMA SamePlays ==
  ASSUME NEW s, NEW t, NEW o, NEW p, NEW count, Played(s, o, p, count),
         t.sender = s.sender, t.generation = s.generation, t.console = s.console
  PROVE  Played(t, o, p, count)
<1>1. InOrder(t)
  BY DEF InOrder, Played
<1>2. \A feed : Attached(t, o, feed) <=> Attached(s, o, feed)
  BY DEF Attached
<1>3. \A feed, log : Heard(t, feed, log) <=> Heard(s, feed, log)
  BY DEF Heard
<1> QED
  BY <1>1, <1>2, <1>3 DEF Played

\* Where the output is off, nothing is attached.
LEMMA OffPlays ==
  ASSUME NEW s \in Services, NEW t, NEW o, NEW p, NEW count, Played(s, o, p, count),
         s.shown \in Off, Quiet(s, o),
         t.sender = s.sender, t.generation = s.generation
  PROVE  Played(t, o, p, count)
<1>1. InOrder(t)
  BY DEF InOrder, Played
<1>2. \A feed : ~Attached(t, o, feed)
  BY DEF Attached, Quiet, Switch
<1> QED
  BY <1>1, <1>2 DEF Played

\* A switch leaves what its own feed plays, if it has one.
LEMMA SwitchPlays ==
  ASSUME NEW s \in Services, NEW t, NEW o \in Outputs \cup {None}, NEW p, NEW count,
         Played(s, o, p, count), o # None => o.generation <= s.generation,
         NEW c \in Commands, Switch(c), c.generation = s.generation + 1,
         t.sender = Append(s.sender, c), t.generation = s.generation + 1,
         c.do = "enable" =>
           /\ c.feed.of <= count
           /\ c.feed.of # 0 => c.feed.kind = "console" /\ t.console
           /\ p # None /\ c.feed.of = p.generation => c.feed.log = p.log
  PROVE  Played(t, o, p, count)
<1> DEFINE n == Len(s.sender)
<1>1. /\ s.generation \in Nat /\ s.sender \in Seq(Commands) /\ n \in Nat
      /\ Len(t.sender) = n + 1 /\ t.sender[n + 1] = c
      /\ \A i \in 1..n : t.sender[i] = s.sender[i] /\ s.sender[i].generation \in Nat
  <2>1. s.generation \in Nat /\ s.sender \in Seq(Commands)
    BY DEF Services
  <2> QED
    BY <2>1, CommandTyped
<1>2. \A i \in 1..(n + 1) : i \in 1..n \/ i = n + 1
  BY <1>1
<1>3. \A i \in 1..n : /\ s.sender[i].generation <= s.generation
                      /\ s.sender[i].generation < t.generation
  BY <1>1 DEF Played, InOrder
<1>4. InOrder(t)
  BY <1>1, <1>2, <1>3 DEF Played, InOrder
<1>5. ASSUME NEW feed \in Feeds, Attached(t, o, feed)
      PROVE  c.do = "enable" /\ feed = c.feed
  <2>1. o # None => o.generation # t.generation
    BY <1>1 DEF Outputs
  <2>2. PICK i \in 1..(n + 1) : /\ t.sender[i].do = "enable"
                                /\ t.sender[i].generation = t.generation
                                /\ feed = t.sender[i].feed
    BY <1>1, <1>5, <2>1 DEF Attached
  <2>3. i = n + 1
    BY <1>1, <1>2, <1>3, <2>2
  <2> QED
    BY <1>1, <2>2, <2>3
<1>6. ASSUME NEW feed \in Feeds, c.do = "enable", NEW log, log = feed.log
      PROVE  Heard(t, feed, log)
  <2>1. \A i \in 1..(n + 1) :
          ~(t.sender[i].do = "events" /\ t.sender[i].generation = t.generation)
    BY <1>1, <1>2, <1>3, <1>6
  <2>2. log = feed.log \o Late(t.sender, n + 1)
    <3>1. Late(t.sender, n + 1) = <<>>
      BY <1>1 DEF Late
    <3>2. feed.log \in Seq(Nat)
      BY DEF Feeds
    <3> QED
      BY <1>6, <3>1, <3>2, ConcatEmptySeq
  <2>3. Len(t.sender) = n + 1 /\ n + 1 \in 0..Len(t.sender)
        /\ \A i \in 1..(n + 1) : ~(i > n + 1)
    BY <1>1
  <2> HIDE DEF n
  <2>4. \A i \in 1..Len(t.sender) :
          i > n + 1 <=> t.sender[i].do = "events" /\ t.sender[i].generation = t.generation
    BY <2>1, <2>3
  <2> QED
    BY <2>2, <2>3, <2>4 DEF Heard
<1> QED
  BY <1>4, <1>5, <1>6 DEF Played

\* An output that is started plays its own feed.
LEMMA StartPlays ==
  ASSUME OutputTypeOK, NEW s, Served(s), NEW p, NEW count, Played(s, output, p, count),
         NEW feed \in Feeds, feed.of <= count, feed.of # 0 => feed.kind = "console",
         p # None /\ feed.of = p.generation => feed.log = p.log
  PROVE  Played(Started(s, feed), output, p, count)
<1> DEFINE c == [do |-> "enable", generation |-> s.generation + 1, feed |-> feed]
           t == Started(s, feed)
<1>1. s \in Services /\ s.generation \in Nat /\ s.sender \in Seq(Commands)
      /\ output \in Outputs \cup {None}
  BY DEF Served, Services, OutputTypeOK
<1>2. /\ c \in Commands /\ Switch(c) /\ c.generation = s.generation + 1
      /\ c.do = "enable" /\ c.feed = feed
  BY <1>1 DEF Commands, Switch
<1> HIDE DEF c
<1>3. /\ t.sender = Append(s.sender, c) /\ t.generation = s.generation + 1
      /\ t.console = (feed.kind = "console")
  BY <1>1 DEF Started, Services, c
<1>4. output # None => output.generation <= s.generation
  BY DEF Served, Ordered
<1> HIDE DEF t
<1>5. Played(t, output, p, count)
  BY <1>1, <1>2, <1>3, <1>4, SwitchPlays
<1> QED
  BY <1>5 DEF t

\* A stop attaches nothing.
LEMMA StopPlays ==
  ASSUME OutputTypeOK, NEW s, Served(s), NEW p, NEW count, Played(s, output, p, count)
  PROVE  Played(Stopped(s), output, p, count)
<1> DEFINE c == [do |-> "disable", generation |-> s.generation + 1]
           t == Stopped(s)
<1>1. s \in Services /\ s.generation \in Nat /\ s.sender \in Seq(Commands)
      /\ output \in Outputs \cup {None}
  BY DEF Served, Services, OutputTypeOK
<1>2. CASE s.shown \in Off
  <2>1. t.sender = s.sender /\ t.generation = s.generation
    BY <1>1, <1>2 DEF Stopped, Services
  <2> HIDE DEF t
  <2>2. Played(t, output, p, count)
    BY <1>1, <1>2, <2>1, OffPlays DEF Served
  <2> QED
    BY <2>2 DEF t
<1>3. CASE s.shown \notin Off
  <2>1. /\ c \in Commands /\ Switch(c) /\ c.generation = s.generation + 1
        /\ c.do = "disable"
    BY <1>1 DEF Commands, Switch
  <2> HIDE DEF c
  <2>2. t.sender = Append(s.sender, c) /\ t.generation = s.generation + 1
    BY <1>1, <1>3 DEF Stopped, Services, c
  <2>3. output # None => output.generation <= s.generation
    BY DEF Served, Ordered
  <2> HIDE DEF t
  <2>4. Played(t, output, p, count)
    BY <1>1, <2>1, <2>2, <2>3, SwitchPlays
  <2> QED
    BY <2>4 DEF t
<1> QED
  BY <1>2, <1>3

\* The service's operations but those that start or route.
LEMMA OperationsPlay ==
  ASSUME OffInv, LogInv
  PROVE  /\ Played(Disabled(service), output, perform, armed)
         /\ Played(Suspended(service), output, perform, armed)
         /\ Played(MarkedPrepared(service), output, perform, armed)
         /\ Played(ResumeTaken(service), output, perform, armed)
<1>1. /\ OutputTypeOK /\ Served(service) /\ Played(service, output, perform, armed)
      /\ service \in Services
  BY DEF OffInv, LogInv, Served
<1>2. ASSUME NEW ready \in BOOLEAN, NEW after \in BOOLEAN, NEW t,
             t = [service EXCEPT !.resumeReady = ready, !.resumeAfter = after]
      PROVE  Played(t, output, perform, armed) /\ Served(t)
  <2>1. t.sender = service.sender /\ t.generation = service.generation
        /\ t.console = service.console
    BY <1>1, <1>2 DEF Services
  <2> QED
    BY <1>1, <1>2, <2>1, SamePlays, FlagsServe
<1>3. service.resumeAfter \in BOOLEAN /\ service.resumeReady \in BOOLEAN
  BY <1>1 DEF Services
<1>4. Played(Disabled(service), output, perform, armed)
  <2> DEFINE t == [service EXCEPT !.resumeReady = FALSE, !.resumeAfter = FALSE]
  <2>1. t = [service EXCEPT !.resumeAfter = FALSE, !.resumeReady = FALSE]
    BY <1>1 DEF Services
  <2>2. Played(t, output, perform, armed) /\ Served(t)
    BY <1>2
  <2> HIDE DEF t
  <2> QED
    BY <1>1, <2>1, <2>2, StopPlays DEF Disabled
<1>5. Played(Suspended(service), output, perform, armed)
  <2> DEFINE after == service.resumeAfter \/ service.shown \in Live
             t == [service EXCEPT !.resumeReady = FALSE, !.resumeAfter = after]
  <2>1. after \in BOOLEAN
    OBVIOUS
  <2>2. Played(t, output, perform, armed) /\ Served(t)
    BY <1>2, <2>1
  <2>3. Suspended(service) = Stopped(t)
    BY DEF Suspended
  <2> HIDE DEF t
  <2> QED
    BY <1>1, <2>2, <2>3, StopPlays
<1>6. Played(MarkedPrepared(service), output, perform, armed)
  <2>1. MarkedPrepared(service)
          = [service EXCEPT !.resumeReady = TRUE, !.resumeAfter = service.resumeAfter]
    BY <1>1 DEF MarkedPrepared, Services
  <2> QED
    BY <1>2, <1>3, <2>1
<1>7. Played(ResumeTaken(service), output, perform, armed)
  <2> DEFINE wanted == service.resumeAfter /\ service.shown # "error"
             ready == service.resumeReady /\ service.shown # "stopping"
             t == [service EXCEPT !.resumeReady = service.resumeReady /\ ~ready,
                                  !.resumeAfter = wanted /\ ~ready]
  <2>1. ResumeTaken(service) = t
    BY DEF ResumeTaken
  <2>2. (service.resumeReady /\ ~ready) \in BOOLEAN /\ (wanted /\ ~ready) \in BOOLEAN
    OBVIOUS
  <2> QED
    BY <1>2, <2>1, <2>2
<1> QED
  BY <1>4, <1>5, <1>6, <1>7

\* An output that is turned on begins with the log.
LEMMA TurnedOnPlays ==
  ASSUME Inv, LogInv
  PROVE  /\ Played(TurnedOn(service), output, perform, armed)
         /\ Played(Started(service, Test), output, perform, armed)
<1>1. /\ OutputTypeOK /\ Served(service) /\ Played(service, output, perform, armed)
      /\ Feed \in Feeds /\ Test \in Feeds
      /\ armed \in Nat /\ (perform # None => perform.generation \in 1..armed)
  BY FeedTyped DEF Inv, OffInv, LogInv, TypeOK
<1>2. Feed.of <= armed /\ (Feed.of # 0 => Feed.kind = "console")
  BY <1>1 DEF Feed, Sequence
<1>3. perform # None /\ Feed.of = perform.generation => Feed.log = perform.log
  BY <1>1 DEF Feed, Sequence
<1>4. Test.of = 0
  BY DEF Test
<1>5. Played(Started(service, Feed), output, perform, armed)
  BY <1>1, <1>2, <1>3, StartPlays
<1>6. Played(Started(service, Test), output, perform, armed)
  BY <1>1, <1>4, StartPlays
<1> QED
  BY <1>1, <1>5, <1>6 DEF TurnedOn

\* A sequence that has one more element.
LEMMA AppendedIs ==
  ASSUME NEW s \in Seq(Nat), NEW longer \in Seq(Nat), NEW e \in Nat,
         Len(longer) = Len(s) + 1, \A i \in 1..Len(s) : longer[i] = s[i],
         longer[Len(s) + 1] = e
  PROVE  longer = Append(s, e)
<1> DEFINE t == Append(s, e)
<1>1. /\ t \in Seq(Nat) /\ Len(t) = Len(s) + 1 /\ Len(s) \in Nat
      /\ \A i \in 1..Len(s) : t[i] = s[i]
      /\ t[Len(s) + 1] = e
  OBVIOUS
<1>2. \A i \in 1..Len(longer) : longer[i] = t[i]
  <2> HIDE DEF t
  <2>1. \A i \in 1..Len(longer) : i \in 1..Len(s) \/ i = Len(s) + 1
    BY <1>1
  <2> QED
    BY <1>1, <2>1
<1> HIDE DEF t
<1>3. longer = t
  BY <1>1, <1>2, SeqEqual
<1> QED
  BY <1>3 DEF t

\* Appending to the second of two sequences.
LEMMA AppendConcat ==
  ASSUME NEW a \in Seq(Nat), NEW b \in Seq(Nat), NEW e \in Nat
  PROVE  Append(a \o b, e) = a \o Append(b, e)
<1>1. <<e>> \in Seq(Nat)
  OBVIOUS
<1>2. a \o b \in Seq(Nat)
  BY ConcatProperties
<1>3. Append(a \o b, e) = (a \o b) \o <<e>>
  BY <1>2, AppendIsConcat
<1>4. Append(b, e) = b \o <<e>>
  BY AppendIsConcat
<1> QED
  BY <1>1, <1>3, <1>4, ConcatAssociative

\* A command that is routed is the log's next, and the queue's last.
LEMMA EventPlays ==
  ASSUME OutputTypeOK, NEW s, Served(s), NEW count,
         NEW p \in Performances, p.generation \in 1..count, count \in Nat,
         Played(s, output, p, count),
         NEW event \in Nat, NEW q, q.generation = p.generation, q.log = Append(p.log, event)
  PROVE  Played(WithEvent(s, event), output, q, count)
<1> DEFINE t == WithEvent(s, event)
           c == [do |-> "events", generation |-> s.generation, event |-> event]
           n == Len(s.sender)
<1>1. s \in Services /\ s.generation \in Nat /\ s.sender \in Seq(Commands) /\ n \in Nat
      /\ p.log \in Seq(Nat) /\ p.generation # 0
      /\ p # None
  BY PerformanceAssumption DEF Served, Services, Performances, PerformanceAssumption
<1>2. CASE ~s.console
  <2>1. \A feed \in Feeds : Attached(s, output, feed) => feed.of # q.generation
    BY <1>1, <1>2 DEF Played
  <2> QED
    BY <1>2, <2>1 DEF WithEvent, Played
<1>3. CASE s.console
  <2>1. /\ c \in Commands /\ ~Switch(c) /\ c.do = "events"
        /\ c.generation = s.generation /\ c.event = event
    BY <1>1 DEF Commands, Switch
  <2> HIDE DEF c
  <2>2. /\ t.sender = Append(s.sender, c) /\ t.generation = s.generation
        /\ t.console /\ t \in Services
    <3>1. Append(s.sender, c) \in Seq(Commands)
      BY <1>1, <2>1
    <3>2. t = [s EXCEPT !.sender = Append(s.sender, c)]
      BY <1>1, <1>3 DEF WithEvent, Services, c
    <3> DEFINE queue == Append(s.sender, c)
    <3> HIDE DEF t, queue
    <3>3. queue \in Seq(Commands) /\ t = [s EXCEPT !.sender = queue]
      BY <3>1, <3>2 DEF queue
    <3>4. t \in Services /\ t.sender = queue /\ t.generation = s.generation
          /\ t.console = s.console
      BY <1>1, <3>3 DEF Services
    <3> QED
      BY <1>3, <3>4 DEF queue
  <2> HIDE DEF t
  <2>3. /\ Len(t.sender) = n + 1 /\ t.sender[n + 1] = c
        /\ \A i \in 1..n : t.sender[i] = s.sender[i] /\ s.sender[i].generation \in Nat
        /\ \A i \in 1..(n + 1) : i \in 1..n \/ i = n + 1
    BY <1>1, <2>1, <2>2, CommandTyped
  <2>4. InOrder(t)
    BY <1>1, <2>1, <2>2, <2>3 DEF InOrder, Played
  <2>5. \A feed : Attached(t, output, feed) => Attached(s, output, feed)
    BY <1>1, <2>1, <2>2, <2>3 DEF Attached
  <2>6. ASSUME NEW feed \in Feeds, Heard(s, feed, p.log)
        PROVE  Heard(t, feed, q.log)
    <3>1. PICK sent \in 0..n :
            /\ \A i \in 1..n :
                 i > sent <=> s.sender[i].do = "events" /\ s.sender[i].generation = s.generation
            /\ p.log = feed.log \o Late(s.sender, sent)
      BY <2>6 DEF Heard
    <3> DEFINE late == Late(s.sender, sent)
               more == Late(t.sender, sent)
    <3>2. /\ late \in Seq(Nat) /\ Len(late) = n - sent
          /\ \A i \in 1..(n - sent) : late[i] = s.sender[sent + i].event
      <4>1. /\ sent \in 0..Len(s.sender)
            /\ \A i \in 1..Len(s.sender) : i > sent => s.sender[i].do = "events"
        BY <3>1
      <4> HIDE DEF late
      <4>2. late = Late(s.sender, sent)
        BY DEF late
      <4> QED
        BY <1>1, <4>1, <4>2, LateTyped
    <3>3. \A i \in 1..(n + 1) :
            i > sent <=> t.sender[i].do = "events" /\ t.sender[i].generation = t.generation
      <4>1. n + 1 > sent
        BY <1>1
      <4>2. \A i \in 1..n : t.sender[i] = s.sender[i]
        BY <2>3
      <4>3. t.sender[n + 1].do = "events" /\ t.sender[n + 1].generation = t.generation
        BY <2>1, <2>2, <2>3
      <4>4. \A i \in 1..n :
              i > sent <=> s.sender[i].do = "events" /\ s.sender[i].generation = s.generation
        BY <3>1
      <4> HIDE DEF n
      <4> QED
        BY <2>2, <2>3, <4>1, <4>2, <4>3, <4>4
    <3>4. /\ more \in Seq(Nat) /\ Len(more) = n + 1 - sent
          /\ \A i \in 1..(n + 1 - sent) : more[i] = t.sender[sent + i].event
      <4>1. sent \in 0..Len(t.sender) /\ Len(t.sender) = n + 1
        BY <1>1, <2>3
      <4> HIDE DEF n
      <4>2. \A i \in 1..Len(t.sender) : i > sent => t.sender[i].do = "events"
        BY <3>3, <4>1
      <4>3. /\ Late(t.sender, sent) \in Seq(Nat)
            /\ Len(Late(t.sender, sent)) = Len(t.sender) - sent
            /\ \A i \in 1..(Len(t.sender) - sent) :
                 Late(t.sender, sent)[i] = t.sender[sent + i].event
        BY <2>2, <4>1, <4>2, LateTyped
      <4>4. Len(t.sender) - sent = n + 1 - sent
        BY <1>1, <4>1
      <4> HIDE DEF n
      <4> QED
        BY <4>3, <4>4, Zenon
    <3> HIDE DEF late, more
    <3>5. more = Append(late, event)
      <4>1. Len(more) = Len(late) + 1
        BY <1>1, <3>2, <3>4
      <4>2. ASSUME NEW i \in 1..Len(late)
            PROVE  more[i] = late[i]
        <5>1. i \in 1..(n - sent) /\ i \in 1..(n + 1 - sent) /\ sent + i \in 1..n
          BY <1>1, <3>2
        <5> QED
          BY <2>3, <3>2, <3>4, <5>1
      <4>3. more[Len(late) + 1] = event
        <5>1. /\ Len(late) + 1 \in 1..(n + 1 - sent)
              /\ sent + (Len(late) + 1) = n + 1
          BY <1>1, <3>2
        <5> QED
          BY <2>1, <2>3, <3>4, <5>1
      <4> QED
        BY <3>2, <3>4, <4>1, <4>2, <4>3, AppendedIs
    <3>6. q.log = feed.log \o more
      <4>1. feed.log \in Seq(Nat) /\ p.log = feed.log \o late
        BY <3>1 DEF Feeds, late
      <4> QED
        BY <3>2, <3>5, <4>1, AppendConcat
    <3>7. sent \in 0..Len(t.sender)
      BY <1>1, <2>3
    <3> QED
      BY <2>3, <3>3, <3>6, <3>7 DEF Heard, more
  <2>7. Played(t, output, q, count)
    BY <1>1, <2>2, <2>4, <2>5, <2>6 DEF Played
  <2> QED
    BY <2>7 DEF t
<1> QED
  BY <1>2, <1>3
-------------------------------------------------------------------------------
(* The worker takes the queue's commands.                                  *)

\* The worker's answers leave the queue.
LEMMA ToldSame ==
  ASSUME NEW s \in Services, NEW generation, NEW state,
         NEW t, t = Told(s, generation, state)
  PROVE  t.sender = s.sender /\ t.generation = s.generation /\ t.console = s.console
BY DEF Told, Services

\* An output that stops is not attached any more.
LEMMA DetachedPlays ==
  ASSUME NEW s, NEW o, NEW p, NEW count, Played(s, o, p, count)
  PROVE  Played(s, None, p, count)
<1>1. \A feed : Attached(s, None, feed) => Attached(s, o, feed)
  BY DEF Attached
<1> QED
  BY <1>1 DEF Played

\* The queue without its first command.
LEMMA TailIs ==
  ASSUME NEW s \in Services, s.sender # <<>>
  PROVE  /\ Tail(s.sender) \in Seq(Commands) /\ Len(s.sender) \in Nat /\ Len(s.sender) >= 1
         /\ Len(Tail(s.sender)) = Len(s.sender) - 1
         /\ Head(s.sender) = s.sender[1]
         /\ \A i \in 1..Len(Tail(s.sender)) : /\ Tail(s.sender)[i] = s.sender[i + 1]
                                              /\ i + 1 \in 1..Len(s.sender)
BY DEF Services

\* Every feed attached to the rest of the queue was attached, and the command
\* that was taken is none of those that the feed has not played.
LEMMA ShorterPlays ==
  ASSUME NEW s \in Services, s.sender # <<>>, NEW o, NEW o2, NEW p, NEW count,
         Played(s, o, p, count), p # None => p.generation # 0,
         NEW t \in Services, t.sender = Tail(s.sender), t.generation = s.generation,
         t.console = s.console,
         \A feed \in Feeds : Attached(t, o2, feed) => Attached(s, o, feed),
         NEW c, c = Head(s.sender), c.do = "events" /\ c.generation = s.generation =>
           \A feed \in Feeds : Attached(s, o, feed) => feed.of = 0
  PROVE  Played(t, o2, p, count)
<1> DEFINE n == Len(s.sender)
           queue == Tail(s.sender)
<1>1. /\ queue \in Seq(Commands) /\ n \in Nat /\ n >= 1 /\ Len(queue) = n - 1
      /\ c = s.sender[1] /\ s.generation \in Nat
      /\ \A i \in 1..(n - 1) : queue[i] = s.sender[i + 1] /\ i + 1 \in 1..n
  BY TailIs DEF Services
<1> HIDE DEF queue
<1>2. t.sender = queue
  BY DEF queue
<1>3. InOrder(t)
  <2>1. \A i, j \in 1..(n - 1) : i < j => i + 1 < j + 1
    BY <1>1
  <2> QED
    BY <1>1, <1>2, <2>1 DEF Played, InOrder
<1>4. ASSUME NEW feed \in Feeds, Heard(s, feed, p.log),
             ~(c.do = "events" /\ c.generation = s.generation)
      PROVE  Heard(t, feed, p.log)
  <2>1. PICK sent \in 0..n :
          /\ \A i \in 1..n :
               i > sent <=> s.sender[i].do = "events" /\ s.sender[i].generation = s.generation
          /\ p.log = feed.log \o Late(s.sender, sent)
    BY <1>4 DEF Heard
  <2>2. sent \in 1..n /\ sent - 1 \in 0..(n - 1)
    BY <1>1, <1>4, <2>1
  <2>3. \A i \in 1..(n - 1) :
          i > sent - 1 <=> queue[i].do = "events" /\ queue[i].generation = s.generation
    BY <1>1, <2>1, <2>2
  <2>4. Late(queue, sent - 1) = Late(s.sender, sent)
    <3>1. Len(queue) - (sent - 1) = n - sent /\ n - sent \in Nat
      BY <1>1, <2>2
    <3>2. \A i \in 1..(n - sent) : queue[(sent - 1) + i] = s.sender[sent + i]
      <4> SUFFICES ASSUME NEW i \in 1..(n - sent)
                   PROVE  queue[(sent - 1) + i] = s.sender[sent + i]
        OBVIOUS
      <4>1. (sent - 1) + i \in 1..(n - 1) /\ (sent - 1) + i + 1 = sent + i
        BY <1>1, <2>2
      <4> QED
        BY <1>1, <4>1
    <3>3. Late(queue, sent - 1) = [i \in 1..(n - sent) |-> queue[(sent - 1) + i].event]
      BY <3>1 DEF Late
    <3>4. Late(s.sender, sent) = [i \in 1..(n - sent) |-> s.sender[sent + i].event]
      BY DEF Late
    <3> QED
      BY <3>2, <3>3, <3>4
  <2> QED
    BY <1>1, <1>2, <2>1, <2>2, <2>3, <2>4 DEF Heard
<1>5. ASSUME NEW feed \in Feeds, Attached(t, o2, feed)
      PROVE  /\ feed.of <= count
             /\ feed.of # 0 => feed.kind = "console" /\ t.console
             /\ p # None /\ feed.of = p.generation => Heard(t, feed, p.log)
  <2>1. Attached(s, o, feed)
    BY <1>5
  <2>2. /\ feed.of <= count
        /\ feed.of # 0 => feed.kind = "console" /\ s.console
        /\ p # None /\ feed.of = p.generation => Heard(s, feed, p.log)
    BY <2>1 DEF Played
  <2>3. p # None /\ feed.of = p.generation => ~(c.do = "events" /\ c.generation = s.generation)
    BY <2>1
  <2> QED
    BY <1>4, <2>2, <2>3
<1> QED
  BY <1>3, <1>5 DEF Played

\* A command of the generation that counts follows everything that switches it.
LEMMA EventIsLate ==
  ASSUME NEW s \in Services, s.sender # <<>>, InOrder(s),
         Head(s.sender).generation = s.generation, NEW i \in 1..Len(s.sender), i # 1
  PROVE  s.sender[i].do # "enable"
<1>1. /\ s.sender[1].generation = s.generation /\ 1 \in 1..Len(s.sender) /\ 1 < i
      /\ s.generation \in Nat /\ s.sender[i].generation \in Nat
  BY TailIs, CommandTyped
<1>2. s.sender[i].generation <= s.generation
  BY DEF InOrder
<1> QED
  BY <1>1, <1>2 DEF InOrder, Switch

\* A sequence that has one more element before it.
LEMMA PrependedIs ==
  ASSUME NEW s \in Seq(Nat), NEW longer \in Seq(Nat), NEW e \in Nat,
         Len(longer) = Len(s) + 1, longer[1] = e,
         \A i \in 1..Len(s) : longer[i + 1] = s[i]
  PROVE  longer = <<e>> \o s
<1> DEFINE one == <<e>>
           t == one \o s
<1>1. one \in Seq(Nat) /\ Len(one) = 1 /\ one[1] = e /\ Len(s) \in Nat
  OBVIOUS
<1> HIDE DEF one
<1>2. /\ t \in Seq(Nat) /\ Len(t) = 1 + Len(s)
      /\ \A i \in 1..(1 + Len(s)) : t[i] = IF i <= 1 THEN one[i] ELSE s[i - 1]
  <2>1. /\ one \o s \in Seq(Nat) /\ Len(one \o s) = Len(one) + Len(s)
        /\ \A i \in 1..Len(one) + Len(s) : (one \o s)[i] =
             IF i <= Len(one) THEN one[i] ELSE s[i - Len(one)]
    BY <1>1, ConcatProperties, Zenon
  <2> QED
    BY <1>1, <2>1
<1> HIDE DEF t
<1>3. ASSUME NEW i \in 1..Len(longer)
      PROVE  longer[i] = t[i]
  <2>1. CASE i = 1
    BY <1>1, <1>2, <2>1
  <2>2. CASE i # 1
    <3>1. i - 1 \in 1..Len(s) /\ (i - 1) + 1 = i /\ i \in 1..(1 + Len(s)) /\ ~(i <= 1)
      BY <1>1, <2>2
    <3> QED
      BY <1>2, <3>1
  <2> QED
    BY <2>1, <2>2
<1>4. Len(longer) = Len(t) /\ t \in Seq(Nat)
  BY <1>1, <1>2
<1>5. longer = t
  BY <1>3, <1>4, SeqEqual, Zenon
<1> QED
  BY <1>5 DEF t, one

\* Appending to the first of two sequences.
LEMMA AppendBefore ==
  ASSUME NEW a \in Seq(Nat), NEW b \in Seq(Nat), NEW e \in Nat
  PROVE  Append(a, e) \o b = a \o (<<e>> \o b)
<1>1. <<e>> \in Seq(Nat)
  OBVIOUS
<1>2. Append(a, e) = a \o <<e>>
  BY AppendIsConcat
<1> QED
  BY <1>1, <1>2, ConcatAssociative

\* A command that the output takes joins what it has played.
LEMMA EventTakenPlays ==
  ASSUME Inv, LogInv, service.sender # <<>>, NEW c, c = Head(service.sender),
         c.do = "events", ConsoleEvents(c), UNCHANGED <<perform, armed>>
  PROVE  LogInv'
<1>1. /\ service \in Services /\ Played(service, output, perform, armed)
      /\ InOrder(service) /\ output \in Outputs \cup {None}
      /\ perform # None => perform \in Performances /\ perform.generation \in 1..armed
      /\ armed \in Nat /\ service' = Waiting
  BY DEF Inv, OffInv, OutputTypeOK, TypeOK, LogInv, Played, ConsoleEvents
<1>2. /\ Waiting \in Services /\ Waiting.sender = Tail(service.sender)
      /\ Waiting.generation = service.generation /\ Waiting.console = service.console
  <2>1. Waiting \in Services
    BY Taken DEF Inv
  <2> QED
    BY <1>1, <2>1 DEF Waiting, Services
<1>3. perform # None => perform.generation # 0
  BY <1>1
<1>4. c = service.sender[1] /\ c \in Commands /\ c.event \in Nat
  BY <1>1, TailIs, CommandTyped
<1>5. ASSUME NEW feed, Attached(Waiting, output, feed)
      PROVE  Attached(service, output, feed)
  BY <1>1, <1>2, <1>5, TailIs DEF Attached
<1>6. ASSUME c.generation = service.generation, NEW feed, Attached(service, output, feed)
      PROVE  output # None /\ output.generation = service.generation /\ feed = output.feed
  <2>1. \A i \in 1..Len(service.sender) : service.sender[i].do # "enable"
    BY <1>1, <1>4, <1>6, EventIsLate
  <2> QED
    BY <1>6, <2>1 DEF Attached
<1>7. CASE output' = output
  <2>1. ASSUME c.generation = service.generation, NEW feed \in Feeds,
               Attached(service, output, feed)
        PROVE  feed.of = 0
    <3>1. output # None /\ output.generation = service.generation /\ feed = output.feed
      BY <1>6, <2>1
    <3>2. output.feed.kind = "console" => output.feed.log # Append(output.feed.log, c.event)
      BY <2>1, <3>1 DEF Feeds
    <3>3. output.feed.kind # "console"
      BY <1>1, <1>7, <2>1, <3>1, <3>2 DEF ConsoleEvents, Outputs, Feeds
    <3> QED
      BY <1>1, <2>1, <3>1, <3>3 DEF Played
  <2>2. Played(Waiting, output, perform, armed)
    BY <1>1, <1>2, <1>3, <1>5, <2>1, ShorterPlays
  <2> QED
    BY <1>1, <1>7, <2>2 DEF LogInv
<1>8. CASE output' # output
  <2> DEFINE log == Append(output.feed.log, c.event)
             feed == [output.feed EXCEPT !.log = log]
             queue == Tail(service.sender)
             n == Len(service.sender)
  <2>1. /\ output # None /\ output \in Outputs /\ output.feed \in Feeds
        /\ output.feed.kind = "console" /\ output.generation = c.generation
        /\ output' = [output EXCEPT !.feed.log = log]
    BY <1>1, <1>8 DEF ConsoleEvents, Outputs
  <2>2. output.feed.log \in Seq(Nat) /\ log \in Seq(Nat)
    BY <1>4, <2>1 DEF Feeds
  <2> HIDE DEF log
  <2>3. /\ feed.log = log /\ feed.of = output.feed.of /\ feed.kind = output.feed.kind
        /\ feed \in Feeds
    BY <2>1, <2>2 DEF Feeds
  <2>4. output'.generation = output.generation /\ output'.feed = feed /\ output' # None
    <3>1. output' = [output EXCEPT !.feed = feed]
      BY <2>1 DEF Outputs
    <3> HIDE DEF feed
    <3>2. [output EXCEPT !.feed = feed] \in Outputs
      BY <2>1, <2>3 DEF Outputs
    <3> QED
      BY <2>1, <3>1, <3>2, OutputAssumption DEF Outputs, OutputAssumption
  <2> HIDE DEF feed
  <2>5. InOrder(Waiting)
    <3>1. \A i, j \in 1..Len(queue) : i < j => i + 1 < j + 1
      BY <1>1, TailIs
    <3> QED
      BY <1>1, <1>2, <3>1, TailIs DEF InOrder
  <2>6. CASE output.generation = service.generation
    <3>1. ASSUME NEW f \in Feeds, Attached(Waiting, output', f)
          PROVE  f = feed
      <4>1. \A i \in 1..Len(queue) : queue[i].do # "enable"
        BY <1>1, <1>4, <2>1, <2>6, TailIs, EventIsLate
      <4> QED
        BY <1>2, <2>4, <3>1, <4>1 DEF Attached
    <3>2. Attached(service, output, output.feed)
      BY <2>1, <2>6 DEF Attached
    <3>3. ASSUME perform # None, feed.of = perform.generation
          PROVE  Heard(Waiting, feed, perform.log)
      <4>1. PICK sent \in 0..n :
              /\ \A i \in 1..n : i > sent <=> /\ service.sender[i].do = "events"
                                              /\ service.sender[i].generation = service.generation
              /\ perform.log = output.feed.log \o Late(service.sender, sent)
        BY <1>1, <2>1, <2>3, <3>2, <3>3 DEF Played, Heard
      <4>2. sent = 0 /\ n \in Nat /\ n >= 1
        <5>1. n \in Nat /\ n >= 1
          BY <1>1, TailIs
        <5>2. 1 > sent
          BY <1>4, <2>1, <2>6, <4>1, <5>1
        <5> QED
          BY <5>1, <5>2
      <4>3. /\ queue \in Seq(Commands) /\ Len(queue) = n - 1
            /\ \A i \in 1..(n - 1) : queue[i] = service.sender[i + 1] /\ i + 1 \in 1..n
        BY <1>1, TailIs
      <4>4. \A i \in 1..(n - 1) :
              queue[i].do = "events" /\ queue[i].generation = service.generation
        BY <4>1, <4>2, <4>3
      <4> DEFINE rest == Late(Waiting.sender, 0)
                 all == Late(service.sender, 0)
      <4>5. /\ all \in Seq(Nat) /\ Len(all) = n
            /\ \A i \in 1..n : all[i] = service.sender[i].event
        BY <1>1, <4>1, <4>2, LateTyped
      <4>6. /\ rest \in Seq(Nat) /\ Len(rest) = n - 1
            /\ \A i \in 1..(n - 1) : rest[i] = queue[i].event
        <5>1. /\ Waiting.sender = queue /\ Len(Waiting.sender) = n - 1
              /\ 0 \in 0..Len(Waiting.sender) /\ Len(Waiting.sender) - 0 = n - 1
              /\ \A i \in 1..(n - 1) : 0 + i = i
          BY <1>2, <4>2, <4>3
        <5>2. \A i \in 1..Len(Waiting.sender) : i > 0 => Waiting.sender[i].do = "events"
          BY <4>4, <5>1
        <5>3. /\ rest \in Seq(Nat) /\ Len(rest) = Len(Waiting.sender) - 0
              /\ \A i \in 1..(Len(Waiting.sender) - 0) :
                   rest[i] = Waiting.sender[0 + i].event
          BY <1>2, <5>1, <5>2, LateTyped, Zenon
        <5> HIDE DEF rest, n, queue
        <5> QED
          BY <5>1, <5>3, Zenon
      <4> HIDE DEF rest, all
      <4>7. all = <<c.event>> \o rest
        <5>1. Len(all) = Len(rest) + 1
          BY <4>2, <4>5, <4>6
        <5>2. all[1] = c.event
          BY <1>4, <4>2, <4>5
        <5>3. \A i \in 1..Len(rest) : all[i + 1] = rest[i]
          BY <4>2, <4>3, <4>5, <4>6
        <5> QED
          BY <1>4, <4>5, <4>6, <5>1, <5>2, <5>3, PrependedIs
      <4>8. perform.log = log \o rest
        <5> DEFINE before == output.feed.log
        <5>1. before \in Seq(Nat) /\ rest \in Seq(Nat) /\ log = Append(before, c.event)
          BY <2>2, <4>6 DEF log
        <5>2. perform.log = before \o (<<c.event>> \o rest)
          BY <4>1, <4>2, <4>7 DEF all
        <5> HIDE DEF before
        <5> QED
          BY <1>4, <5>1, <5>2, AppendBefore
      <4>9. 0 \in 0..Len(Waiting.sender) /\ Len(Waiting.sender) = Len(queue)
        BY <1>2, <4>2, <4>3
      <4>10. \A i \in 1..Len(Waiting.sender) :
              i > 0 <=> /\ Waiting.sender[i].do = "events"
                        /\ Waiting.sender[i].generation = Waiting.generation
        BY <1>2, <4>2, <4>3, <4>4, <4>9
      <4>11. perform.log = feed.log \o Late(Waiting.sender, 0)
        BY <2>3, <4>8 DEF rest
      <4> QED
        BY <4>9, <4>10, <4>11, Zenon DEF Heard
    <3> QED
      BY <1>1, <1>2, <2>1, <2>3, <2>5, <3>1, <3>2, <3>3 DEF LogInv, Played
  <2>7. CASE output.generation # service.generation
    <3>1. ASSUME NEW f \in Feeds, Attached(Waiting, output', f)
          PROVE  Attached(service, output, f)
      BY <1>1, <1>2, <2>4, <2>7, <3>1, TailIs DEF Attached
    <3>2. Played(Waiting, output', perform, armed)
      BY <1>1, <1>2, <1>3, <2>1, <2>7, <3>1, ShorterPlays
    <3> QED
      BY <1>1, <3>2 DEF LogInv
  <2> QED
    BY <2>6, <2>7
<1> QED
  BY <1>7, <1>8
-------------------------------------------------------------------------------
(* Every step keeps LogInv.                                                *)

\* A switch that is taken and answered attaches only its own feed.
LEMMA SwitchTakenPlays ==
  ASSUME Inv, LogInv, service.sender # <<>>, NEW c, c = Head(service.sender), Switch(c),
         NEW state \in States, service' = Told(Waiting, c.generation, state),
         UNCHANGED <<perform, armed>>,
         \/ output' = None
         \/ c.do = "enable" /\ output'.generation = c.generation /\ output'.feed = c.feed
  PROVE  LogInv'
<1>1. /\ service \in Services /\ Played(service, output, perform, armed)
      /\ perform # None => perform.generation # 0
  BY DEF Inv, OffInv, OutputTypeOK, TypeOK, LogInv
<1>2. /\ Waiting \in Services /\ Waiting.sender = Tail(service.sender)
      /\ Waiting.generation = service.generation /\ Waiting.console = service.console
  <2>1. Waiting \in Services
    BY Taken DEF Inv
  <2> QED
    BY <1>1, <2>1 DEF Waiting, Services
<1>3. /\ service' \in Services /\ service'.sender = Tail(service.sender)
      /\ service'.generation = service.generation /\ service'.console = service.console
  BY <1>2, ToldTyped, ToldSame
<1>4. c = service.sender[1] /\ 1 \in 1..Len(service.sender) /\ c.do # "events"
  BY <1>1, TailIs DEF Switch
<1>5. ASSUME NEW feed, Attached(service', output', feed)
      PROVE  Attached(service, output, feed)
  <2>1. CASE /\ output' # None /\ output'.generation = service'.generation
             /\ feed = output'.feed
    BY <1>3, <1>4, <2>1 DEF Attached
  <2>2. CASE \E i \in 1..Len(service'.sender) :
               /\ service'.sender[i].do = "enable"
               /\ service'.sender[i].generation = service'.generation
               /\ feed = service'.sender[i].feed
    <3>1. PICK i \in 1..Len(service'.sender) :
            /\ service'.sender[i].do = "enable"
            /\ service'.sender[i].generation = service'.generation
            /\ feed = service'.sender[i].feed
      BY <2>2
    <3>2. i + 1 \in 1..Len(service.sender) /\ service'.sender[i] = service.sender[i + 1]
      BY <1>1, <1>3, TailIs
    <3> QED
      BY <1>3, <3>1, <3>2 DEF Attached
  <2> QED
    BY <1>5, <2>1, <2>2 DEF Attached
<1>6. Played(service', output', perform, armed)
  BY <1>1, <1>3, <1>4, <1>5, ShorterPlays
<1> QED
  BY <1>6 DEF LogInv

\* An output that stops by itself.
LEMMA EndPlays ==
  ASSUME Inv, LogInv, NEW generation, NEW state,
         service' = Told(service, generation, state), output' = None,
         UNCHANGED <<perform, armed>>
  PROVE  LogInv'
<1>1. service \in Services /\ Played(service, None, perform, armed)
  BY DetachedPlays DEF Inv, OffInv, OutputTypeOK, LogInv
<1>2. Played(service', None, perform, armed)
  BY <1>1, ToldSame, SamePlays
<1> QED
  BY <1>2 DEF LogInv

\* The worker's steps.
LEMMA WorkerPlays ==
  ASSUME Inv, LogInv, WorkerStep, UNCHANGED <<perform, armed>>
  PROVE  LogInv'
<1>1. CASE Receive
  <2> DEFINE c == Head(service.sender)
  <2>1. /\ service.sender # <<>>
        /\ \/ c.do = "enable" /\ Enable(c)
           \/ c.do = "disable" /\ Disable(c)
           \/ c.do = "events" /\ ConsoleEvents(c)
    BY <1>1 DEF Receive
  <2>2. CASE c.do = "enable" /\ Enable(c)
    <3>1. PICK open \in BOOLEAN :
            /\ output' = IF open THEN [generation |-> c.generation, feed |-> c.feed] ELSE None
            /\ service' = Told(Waiting, c.generation,
                               IF ~open THEN "error"
                               ELSE IF c.feed.kind = "test" THEN "testing" ELSE "playing")
      BY <2>2 DEF Enable
    <3> DEFINE state == IF ~open THEN "error"
                        ELSE IF c.feed.kind = "test" THEN "testing" ELSE "playing"
    <3>2. state \in States /\ Switch(c)
      BY <2>2 DEF States, Off, Live, Switch
    <3>3. service' = Told(Waiting, c.generation, state)
      BY <3>1
    <3>4. \/ output' = None
          \/ c.do = "enable" /\ output'.generation = c.generation /\ output'.feed = c.feed
      BY <2>2, <3>1
    <3> HIDE DEF state
    <3> QED
      BY <2>1, <3>2, <3>3, <3>4, SwitchTakenPlays
  <2>3. CASE c.do = "disable" /\ Disable(c)
    <3>1. /\ output' = None /\ Switch(c)
          /\ \E state \in {"error", "disabled"} : service' = Told(Waiting, c.generation, state)
      BY <2>3 DEF Disable, StopOutput, Switch
    <3>2. {"error", "disabled"} \subseteq States
      BY DEF States, Off
    <3> QED
      BY <2>1, <3>1, <3>2, SwitchTakenPlays
  <2>4. CASE c.do = "events" /\ ConsoleEvents(c)
    BY <2>1, <2>4, EventTakenPlays
  <2> QED
    BY <2>1, <2>2, <2>3, <2>4
<1>2. CASE UNCHANGED <<service, output>>
  BY <1>2 DEF LogInv
<1>3. CASE Timeout
  BY <1>2, <1>3 DEF Timeout
<1>4. CASE Tick
  <2>1. output # None
    BY <1>4 DEF Tick, Inv, OffInv, OutputTypeOK
  <2>2. CASE Sends
    BY <1>2, <2>2 DEF Sends
  <2>3. CASE TestEnds \/ RenderFails \/ SendFails
    <3>1. output' = None /\ \E generation, state : service' = Told(service, generation, state)
      BY <2>1, <2>3 DEF TestEnds, RenderFails, SendFails, StopOutput
    <3> QED
      BY <3>1, EndPlays
  <2> QED
    BY <1>4, <2>2, <2>3 DEF Tick
<1> QED
  BY <1>1, <1>3, <1>4 DEF WorkerStep

\* A performance armed has a number that no feed has.
LEMMA ArmPlays ==
  ASSUME Inv, LogInv, NEW carry \in BOOLEAN, Arm(carry), UNCHANGED <<service, output>>
  PROVE  LogInv'
<1>1. armed \in Nat /\ armed' = armed + 1 /\ perform'.generation = armed + 1
  BY DEF Inv, TypeOK, Arm
<1>2. ASSUME NEW feed \in Feeds, Attached(service, output, feed)
      PROVE  /\ feed.of <= armed' /\ feed.of # perform'.generation
             /\ feed.of # 0 => feed.kind = "console" /\ service.console
  BY <1>1, <1>2 DEF LogInv, Played, Feeds
<1> QED
  BY <1>2 DEF LogInv, Played

\* A performance that is over is not played.
LEMMA OverPlays ==
  ASSUME LogInv, perform' = None, UNCHANGED <<service, output, armed>>
  PROVE  LogInv'
BY DEF LogInv, Played

\* An operation of the service that keeps what is played.
LEMMA ServesPlays ==
  ASSUME NEW s, Played(s, output, perform, armed), Serves(s), UNCHANGED <<perform, armed>>
  PROVE  LogInv'
BY DEF Serves, LogInv

\* The steps of the threads that use the output.
LEMMA DesktopPlays ==
  ASSUME Inv, LogInv, Desktop
  PROVE  LogInv'
<1>1. /\ OutputTypeOK /\ Served(service) /\ Played(service, output, perform, armed)
      /\ Played(TurnedOn(service), output, perform, armed)
      /\ Played(Started(service, Test), output, perform, armed)
      /\ Played(Disabled(service), output, perform, armed)
      /\ Played(Suspended(service), output, perform, armed)
      /\ Played(MarkedPrepared(service), output, perform, armed)
      /\ Played(ResumeTaken(service), output, perform, armed)
  BY TurnedOnPlays, OperationsPlay DEF Inv, OffInv, LogInv
<1>2. CASE UNCHANGED <<service, output, perform, armed>>
  BY <1>2 DEF LogInv
<1>3. CASE TurnOn \/ TurnOff \/ PerformingStopped \/ StartTest
  BY <1>1, <1>3, ServesPlays DEF TurnOn, TurnOff, PerformingStopped, StartTest
<1>4. CASE StopPerforming
  BY <1>4, OverPlays DEF StopPerforming, outputVars
<1>5. CASE Touch
  <2>1. /\ left.touches \in Nat /\ perform \in Performances /\ perform.generation \in 1..armed
        /\ armed \in Nat
    BY <1>5, PerformanceAssumption DEF Inv, TypeOK, PerformanceAssumption, Touch
  <2> DEFINE log == Append(perform.log, left.touches)
  <2>2. /\ perform' = [perform EXCEPT !.log = log] /\ armed' = armed
        /\ Serves(WithEvent(service, left.touches))
    BY <1>5 DEF Touch
  <2>3. perform'.generation = perform.generation /\ perform'.log = log
    BY <2>1, <2>2 DEF Performances
  <2>4. Played(WithEvent(service, left.touches), output, perform', armed)
    BY <1>1, <2>1, <2>3, EventPlays
  <2> QED
    BY <2>2, <2>4 DEF Serves, LogInv
<1>6. CASE Starter
  <2>1. CASE Arm(FALSE) /\ UNCHANGED outputVars
    BY <2>1, ArmPlays DEF outputVars
  <2>2. CASE UNCHANGED outputVars /\ UNCHANGED <<perform, armed>>
    BY <1>2, <2>2 DEF outputVars
  <2>3. CASE /\ Serves(TurnedOn(service)) \/ Serves(ResumeTaken(service))
             /\ UNCHANGED <<perform, armed>>
    BY <1>1, <2>3, ServesPlays
  <2> QED
    BY <1>6, <2>1, <2>2, <2>3 DEF Starter
<1>7. CASE Complete
  BY <1>2, <1>7 DEF Complete
<1>8. CASE Author
  <2>1. UNCHANGED <<perform, armed>>
    BY <1>8 DEF Author
  <2>2. CASE \E s \in {service, Suspended(service), Disabled(service), TurnedOn(service),
                       MarkedPrepared(service), ResumeTaken(service)} : Serves(s)
    BY <1>1, <2>1, <2>2, ServesPlays
  <2>3. CASE \E to \in {"arms", "free"} : Unload(to)
    BY <1>2, <2>1, <2>3 DEF Unload
  <2> QED
    BY <1>8, <2>2, <2>3 DEF Author, Then
<1>9. CASE Rearm
  BY <1>9, ArmPlays DEF Rearm, outputVars
<1>10. CASE Poll
  BY <1>1, <1>10, ServesPlays DEF Poll
<1>11. CASE StartPerforming \/ Edit \/ Choose \/ PreviewStep
  BY <1>2, <1>11 DEF StartPerforming, Edit, Choose, PreviewStep, PreviewWaits, PreviewLooks,
     PreviewLoads, PreviewPlays, outputVars
<1> QED
  BY <1>3, <1>4, <1>5, <1>6, <1>7, <1>8, <1>9, <1>10, <1>11 DEF Desktop

\* At first nothing is in the queue.
LEMMA InitPlays == Init => LogInv
<1> SUFFICES ASSUME Init PROVE LogInv
  OBVIOUS
<1>1. service.sender = <<>> /\ output = None
  BY DEF Init, OutputInit
<1> QED
  BY <1>1 DEF LogInv, Played, InOrder, Attached

\* What the output plays of the performance in progress, with the commands in
\* its queue, is the performance's log, for any number of performances, inputs,
\* stops, suspensions and failing transports.
THEOREM OutputFollows == Spec => []OutputPlaysTheLog
<1>1. Init => LogInv
  BY InitPlays
<1>2. Inv /\ LogInv /\ [Next]_vars => LogInv'
  <2> SUFFICES ASSUME Inv, LogInv, [Next]_vars PROVE LogInv'
    OBVIOUS
  <2>1. CASE Runs
    BY <2>1, WorkerPlays DEF Runs, desktopVars
  <2>2. CASE Desktop
    BY <2>2, DesktopPlays
  <2>3. CASE UNCHANGED vars
    BY <2>3 DEF vars, outputVars, desktopVars, LogInv
  <2> QED
    BY <2>1, <2>2, <2>3 DEF Next, Desktop
<1>3. Inv /\ LogInv => OutputPlaysTheLog
  BY PlayingMeans DEF Inv
<1> QED
  BY <1>1, <1>2, <1>3, InvHolds, PTL DEF Spec
===============================================================================
