------------------------------ MODULE LiveOutput ------------------------------
(***************************************************************************)
(* The live output service and its worker thread (output/live.rs).         *)
(*                                                                         *)
(* Each operation of the service is a function of its record, so that a    *)
(* caller who holds the lock can make several in one step.  The worker     *)
(* takes commands from the queue `sender`, in order.  Whoever reads the    *)
(* service's state first takes the updates the worker has sent, so an      *)
(* update counts here from the moment it is sent (Told).  Holding and      *)
(* Streaming are one state, "playing": no code tells them apart.           *)
(***************************************************************************)
EXTENDS Integers, Sequences, SequencesExt

CONSTANTS None, MaxFaults     \* how often a transport may fail

Off == {"disabled", "error"}
Live == {"preparing", "playing"}

\* What an output plays; a console's feed has the performance's number and
\* the commands it was given.
Feeds == [kind : {"sequence", "console", "test"}, of : Nat, log : Seq(Nat)]
Outputs == [generation : Nat, feed : Feeds]
Commands == [do : {"enable"}, generation : Nat, feed : Feeds]
              \cup [do : {"disable"}, generation : Nat]
              \cup [do : {"events"}, generation : Nat, event : Nat]
Services == [generation : Nat, shown : Off \cup Live \cup {"testing", "stopping"},
             resumeAfter : BOOLEAN, resumeReady : BOOLEAN, console : BOOLEAN,
             sender : Seq(Commands)]

ASSUME OutputAssumption == MaxFaults \in Nat /\ None \notin Outputs

VARIABLES service,     \* what LiveOutputService holds
          worker,      \* the worker waits for a command or is about to tick
          output,      \* the active output: its generation and its feed
          stopError,   \* whether an output that failed left its error
          prepared,    \* whether a sequence is prepared to be rendered
          lit,         \* whether a frame that went out, or part of one, still shows
          forgotten,   \* a start took away the error that said they may be lit
          faults

outputVars == <<service, worker, output, stopError, prepared, lit, forgotten, faults>>

Sequence == [kind |-> "sequence", of |-> 0, log |-> <<>>]
Test == [kind |-> "test", of |-> 0, log |-> <<>>]

OutputInit ==
  /\ service = [generation |-> 0, shown |-> "disabled", resumeAfter |-> FALSE,
                resumeReady |-> FALSE, console |-> FALSE, sender |-> <<>>]
  /\ worker = "waits" /\ output = None /\ stopError = FALSE /\ prepared = FALSE
  /\ lit = FALSE /\ forgotten = FALSE /\ faults = 0

OutputTypeOK ==
  /\ service \in Services
  /\ worker \in {"waits", "ticks"} /\ (worker = "ticks" => output # None)
  /\ output \in Outputs \cup {None} /\ (output # None => ~stopError)
  /\ stopError \in BOOLEAN /\ prepared \in BOOLEAN /\ lit \in BOOLEAN /\ forgotten \in BOOLEAN
  /\ faults \in 0..MaxFaults
-------------------------------------------------------------------------------
(* The operations of the service.                                          *)

Started(s, feed) ==
  [s EXCEPT !.resumeAfter = FALSE, !.resumeReady = FALSE,
            !.console = (feed.kind = "console"), !.generation = @ + 1,
            !.shown = IF feed.kind = "test" THEN "testing" ELSE "preparing",
            !.sender = Append(@, [do |-> "enable", generation |-> s.generation + 1, feed |-> feed])]

Stopped(s) ==
  IF s.shown \in Off THEN [s EXCEPT !.console = FALSE]
  ELSE [s EXCEPT !.console = FALSE, !.generation = @ + 1, !.shown = "stopping",
                 !.sender = Append(@, [do |-> "disable", generation |-> s.generation + 1])]

Disabled(s) == Stopped([s EXCEPT !.resumeAfter = FALSE, !.resumeReady = FALSE])

Suspended(s) ==
  Stopped([s EXCEPT !.resumeReady = FALSE, !.resumeAfter = @ \/ s.shown \in Live])

MarkedPrepared(s) == [s EXCEPT !.resumeReady = TRUE]

\* take_resume_after_prepare: whether the output is to be resumed, and what
\* the service keeps.
Resumes(s) ==
  s.resumeReady /\ s.resumeAfter /\ s.shown \notin {"error", "stopping"}
ResumeTaken(s) ==
  LET wanted == s.resumeAfter /\ s.shown # "error"
      ready == s.resumeReady /\ s.shown # "stopping"
  IN  [s EXCEPT !.resumeReady = @ /\ ~ready, !.resumeAfter = wanted /\ ~ready]

\* A command routed by a performance goes to the output that plays one.
WithEvent(s, event) ==
  IF ~s.console THEN s
  ELSE [s EXCEPT !.sender = Append(@, [do |-> "events", generation |-> s.generation, event |-> event])]

ToldAnyway(s, generation, state) == [s EXCEPT !.shown = state]

\* The worker's answer counts for the generation it names.
Told(s, generation, state) ==
  IF s.generation = generation THEN [s EXCEPT !.shown = state] ELSE s
-------------------------------------------------------------------------------
(* The worker.                                                             *)

Fails(fault) ==
  IF fault THEN faults < MaxFaults /\ faults' = faults + 1 ELSE faults' = faults

\* stop_output, answering `generation`: blackout and termination succeed or
\* not (dark); failed says that a failure is the reason of the stop.
StopOutput(s, generation, failed, dark) ==
  IF output = None
    THEN /\ service' = Told(s, generation, IF stopError THEN "error" ELSE "disabled")
         /\ dark
         /\ UNCHANGED <<output, stopError, lit>>
    ELSE /\ output' = None
         /\ lit' = (lit /\ ~dark)
         /\ stopError' = (failed \/ ~dark)
         /\ service' = Told(s, generation, IF failed \/ ~dark THEN "error" ELSE "disabled")

Waiting == [service EXCEPT !.sender = Tail(@)]

Enable(c) ==
  \E dark, opens \in BOOLEAN :
    LET refused == output # None /\ ~dark
        open == ~refused /\ opens
    IN  /\ output = None => dark
        /\ refused => opens
        /\ Fails(refused \/ ~opens)
        /\ lit' = (lit /\ (output = None \/ ~dark))
        /\ stopError' = refused
        /\ forgotten' = (lit' /\ (forgotten \/ stopError))
        /\ output' = IF open THEN [generation |-> c.generation, feed |-> c.feed] ELSE None
        /\ service' = Told(Waiting, c.generation,
                           IF ~open THEN "error"
                           ELSE IF c.feed.kind = "test" THEN "testing" ELSE "playing")

DisableUnderItsOwnNumber(c) ==
  \E dark \in BOOLEAN :
    /\ StopOutput(Waiting, IF output = None THEN c.generation ELSE output.generation, FALSE, dark)
    /\ Fails(~dark)
    /\ forgotten' = (forgotten /\ lit')

Disable(c) ==
  \E dark \in BOOLEAN :
    /\ StopOutput(Waiting, c.generation, FALSE, dark)
    /\ Fails(~dark)
    /\ forgotten' = (forgotten /\ lit')

ConsoleEvents(c) ==
  /\ service' = Waiting
  /\ output' = IF output # None /\ output.feed.kind = "console" /\ output.generation = c.generation
                 THEN [output EXCEPT !.feed.log = Append(@, c.event)] ELSE output
  /\ UNCHANGED <<stopError, lit, forgotten, faults>>

\* An active output ticks after every command, and when none comes in time.
Receive ==
  /\ worker = "waits" /\ service.sender # <<>>
  /\ LET c == Head(service.sender)
     IN  \/ c.do = "enable" /\ Enable(c)
         \/ c.do = "disable" /\ Disable(c)
         \/ c.do = "events" /\ ConsoleEvents(c)
  /\ worker' = IF output' = None THEN "waits" ELSE "ticks"
  /\ UNCHANGED prepared

Timeout ==
  /\ worker = "waits" /\ service.sender = <<>> /\ output # None
  /\ worker' = "ticks"
  /\ UNCHANGED <<service, output, stopError, prepared, lit, forgotten, faults>>

\* A frame goes out, or the output stops: its test is over, there is no
\* prepared sequence to render, or the transports fail, with a part of the
\* frame sent or none.
Sends ==
  /\ output.feed.kind = "sequence" => prepared
  /\ lit' = TRUE
  /\ UNCHANGED <<service, output, stopError, forgotten, faults>>

TestEnds ==
  /\ output.feed.kind = "test"
  /\ \E dark \in BOOLEAN :
       StopOutput(service, output.generation, FALSE, dark) /\ Fails(~dark)
  /\ forgotten' = (forgotten /\ lit')

RenderFails ==
  /\ output.feed.kind = "sequence" /\ ~prepared
  /\ \E dark \in BOOLEAN :
       StopOutput(service, output.generation, TRUE, dark) /\ Fails(~dark)
  /\ forgotten' = (forgotten /\ lit')

SendFails ==
  /\ output.feed.kind = "sequence" => prepared
  /\ Fails(TRUE)
  /\ \E sent, dark \in BOOLEAN : lit' = ((lit \/ sent) /\ ~dark)
  /\ output' = None /\ stopError' = TRUE
  /\ service' = Told(service, output.generation, "error")
  /\ forgotten' = (forgotten /\ lit')

Tick ==
  /\ worker = "ticks" /\ worker' = "waits"
  /\ Sends \/ TestEnds \/ RenderFails \/ SendFails
  /\ UNCHANGED prepared

WorkerStep == Receive \/ Timeout \/ Tick
===============================================================================
