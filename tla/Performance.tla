------------------------------ MODULE Performance -----------------------------
(***************************************************************************)
(* Who uses the live output service: the window's commands, the thread     *)
(* that starts a performance, the holder of the authoring mutex (an edit,  *)
(* the choice of a sequence, the end of a preparation), the poll that      *)
(* publishes the output's state, and the loop that feeds the Preview       *)
(* (desktop_state.rs, desktop_state/perform.rs, rendering.rs,              *)
(* working_copy.rs, audio.rs, commands.rs, preview.rs).                    *)
(*                                                                         *)
(* A performance's log holds its commands: 0 stands for those that start   *)
(* its `always` clips, a positive number for what one input routed to.     *)
(***************************************************************************)
EXTENDS LiveOutput

CONSTANTS MaxActs,       \* edits, choices of a sequence, commands, performances started
          MaxTouches     \* inputs a performance plays

Performances == [generation : Nat, log : Seq(Nat)]

ASSUME PerformanceAssumption ==
  /\ None \notin Performances
  /\ MaxActs \in Nat /\ MaxTouches \in Nat

VARIABLES perform,      \* the performance in progress: its generation and log
          armed,        \* PerformService::generation
          user,         \* the window's main thread
          starter,      \* the thread of start_performing
          authoring,    \* what the holder of the authoring mutex does next
          refresh,      \* whether a preparation is pending or running
          poll,         \* the thread that publishes the output's state
          preview,      \* the Preview's sync loop, and what the Preview holds
          left          \* what the bounds leave to do

desktopVars == <<perform, armed, user, starter, authoring, refresh, poll, preview, left>>
vars == <<outputVars, desktopVars>>

Init ==
  /\ OutputInit
  /\ perform = None /\ armed = 0
  /\ user = "idle" /\ starter = "idle" /\ authoring = "free" /\ refresh = FALSE
  /\ poll = [at |-> "off", last |-> FALSE]
  /\ preview = [at |-> "looks", identity |-> 0, of |-> 0, sent |-> 0, log |-> <<>>]
  /\ left = [acts |-> MaxActs, touches |-> MaxTouches]

TypeOK ==
  /\ OutputTypeOK
  /\ armed \in Nat
  /\ perform # None =>
       perform \in Performances /\ perform.generation \in 1..armed /\ perform.log # <<>>
  /\ user \in {"idle", "stops"}
  /\ starter \in {"idle", "armsLive", "arms", "turns", "asks", "resumes"}
  /\ authoring \in {"free", "suspends", "unloads", "arms", "follows", "turns",
                    "disables", "drops", "marks", "takes", "gives"}
  /\ refresh \in BOOLEAN
  /\ poll \in [at : {"off", "takes", "resumes", "looks"}, last : BOOLEAN]
  /\ preview \in [at : {"waits", "looks", "renews", "loads", "plays"}, identity : Nat,
                  of : Nat, sent : Nat, log : Seq(Nat)]
  /\ left \in [acts : 0..MaxActs, touches : 0..MaxTouches]

\* Steps that change nothing but the service, and its caller.
Serves(s) ==
  /\ service' = s
  /\ UNCHANGED <<worker, output, stopError, prepared, lit, forgotten, faults>>

Spend(what) == left[what] > 0 /\ left' = [left EXCEPT ![what] = @ - 1]
-------------------------------------------------------------------------------
(* Turning the output on (set_live_output_active).  It holds the           *)
(* performance while the output starts.  What was prepared may be dropped  *)
(* between this test and the start; that is left out, since it comes to the*)
(* same as a start just before the drop: neither touches what the other    *)
(* does, and the output finds nothing to render in both.                   *)

CanTurnOn == (perform # None \/ prepared) /\ service.shown # "stopping"

FeedFromNow == IF perform = None THEN Sequence
               ELSE [kind |-> "console", of |-> perform.generation, log |-> <<>>]

Feed == IF perform = None THEN Sequence
        ELSE [kind |-> "console", of |-> perform.generation, log |-> perform.log]

TurnedOn(s) == IF CanTurnOn THEN Started(s, Feed) ELSE s

\* start_poll: one thread at a time.  A thread that has let go and looks a
\* last time goes on in place of the new one.
Polling == IF poll.at = "off" THEN [at |-> "takes", last |-> FALSE]
           ELSE [poll EXCEPT !.last = FALSE]
-------------------------------------------------------------------------------
(* The window's commands, one after another on the main thread.            *)

TurnOn ==
  /\ user = "idle" /\ Spend("acts")
  /\ Serves(TurnedOn(service))
  /\ poll' = IF CanTurnOn THEN Polling ELSE poll
  /\ UNCHANGED <<perform, armed, user, starter, authoring, refresh, preview>>

TurnOff ==
  /\ user = "idle" /\ Spend("acts")
  /\ Serves(Disabled(service))
  /\ poll' = Polling
  /\ UNCHANGED <<perform, armed, user, starter, authoring, refresh, preview>>

StartTest ==
  /\ user = "idle" /\ authoring = "free" /\ Spend("acts")
  /\ service.shown # "stopping"
  /\ Serves(Started(service, Test))
  /\ poll' = Polling
  /\ UNCHANGED <<perform, armed, user, starter, authoring, refresh, preview>>

StopPerforming ==
  /\ user = "idle" /\ perform # None /\ Spend("acts")
  /\ perform' = None
  /\ user' = "stops"
  /\ UNCHANGED <<outputVars, armed, starter, authoring, refresh, poll, preview>>

PerformingStopped ==
  /\ user = "stops" /\ user' = "idle"
  /\ Serves(Disabled(service))
  /\ poll' = Polling
  /\ UNCHANGED <<perform, armed, starter, authoring, refresh, preview, left>>

\* route, under the performance's lock: a key, a MIDI or an OSC message.
Touch ==
  /\ perform # None /\ Spend("touches")
  /\ perform' = [perform EXCEPT !.log = Append(@, left.touches)]
  /\ Serves(WithEvent(service, left.touches))
  /\ UNCHANGED <<armed, user, starter, authoring, refresh, poll, preview>>
-------------------------------------------------------------------------------
(* start_performing, on a thread of its own, without the authoring mutex.  *)

\* arm_performance: carried inputs are replayed after the start.
Arm(carry) ==
  /\ armed' = armed + 1
  /\ perform' = [generation |-> armed + 1,
                 log |-> IF carry THEN <<0>> \o Tail(perform.log) ELSE <<0>>]

StartPerforming ==
  /\ starter = "idle" /\ Spend("acts")
  /\ starter' = IF service.shown \in Live THEN "armsLive" ELSE "arms"
  /\ UNCHANGED <<outputVars, perform, armed, user, authoring, refresh, poll, preview>>

Starter ==
  /\ \/ /\ starter \in {"armsLive", "arms"} /\ Arm(FALSE)
        /\ starter' = IF starter = "armsLive" THEN "turns" ELSE "asks"
        /\ UNCHANGED <<outputVars, poll>>
     \/ /\ starter \in {"armsLive", "arms"}        \* the console cannot be armed
        /\ starter' = "idle"
        /\ UNCHANGED <<outputVars, perform, armed, poll>>
     \/ /\ starter = "turns" /\ starter' = "asks"
        /\ Serves(TurnedOn(service))
        /\ UNCHANGED <<perform, armed, poll>>
     \/ /\ starter = "asks"
        /\ Serves(ResumeTaken(service))
        /\ starter' = IF Resumes(service) THEN "resumes" ELSE "idle"
        /\ poll' = IF Resumes(service) THEN poll ELSE Polling
        /\ UNCHANGED <<perform, armed>>
     \/ /\ starter = "resumes" /\ starter' = "idle"
        /\ Serves(TurnedOn(service))
        /\ poll' = Polling
        /\ UNCHANGED <<perform, armed>>
  /\ UNCHANGED <<user, authoring, refresh, preview, left>>
-------------------------------------------------------------------------------
(* Under the authoring mutex.  A performance owns live output, so each     *)
(* asks whether one is in progress before it touches the output.           *)

Performing == perform # None

\* accept_gui_sources: drop what was prepared, ask for a preparation, and arm
\* the performance again when the edit changed its console.
Edit ==
  /\ authoring = "free" /\ Spend("acts")
  /\ authoring' = IF Performing THEN "unloads" ELSE "suspends"
  /\ refresh' = FALSE
  /\ UNCHANGED <<outputVars, perform, armed, user, starter, poll, preview>>

\* load_sequence_audio: another sequence turns the output off.
Choose ==
  /\ authoring = "free" /\ Spend("acts")
  /\ authoring' = IF Performing THEN "drops" ELSE "disables"
  /\ UNCHANGED <<outputVars, perform, armed, user, starter, refresh, poll, preview>>

\* complete_render_refresh, of a preparation that no edit has made stale.
Complete ==
  /\ authoring = "free" /\ refresh
  /\ refresh' = FALSE
  /\ \/ /\ prepared' = TRUE
        /\ authoring' = IF Performing THEN "free" ELSE "marks"
     \/ /\ prepared' = prepared
        /\ authoring' = IF Performing THEN "free" ELSE "gives"
  /\ UNCHANGED <<service, worker, output, stopError, lit, forgotten, faults>>
  /\ UNCHANGED <<perform, armed, user, starter, poll, preview, left>>

Unload(to) ==
  /\ prepared' = FALSE /\ refresh' = TRUE /\ authoring' = to
  /\ UNCHANGED <<service, worker, output, stopError, lit, forgotten, faults>>

Then(s, to) == Serves(s) /\ authoring' = to /\ UNCHANGED refresh

Author ==
  /\ \/ authoring = "suspends" /\ Then(Suspended(service), "unloads")
     \/ authoring = "gives" /\ Then(Suspended(service), "free")
     \/ authoring = "disables" /\ Then(Disabled(service), "drops")
     \/ authoring = "unloads" /\ Unload("arms")
     \/ authoring = "drops" /\ Unload("free")
     \/ authoring = "arms" /\ Then(service, "free")   \* the console is as it was
     \/ authoring = "follows"
        /\ Then(service, IF service.shown \in Live THEN "turns" ELSE "free")
     \/ authoring = "turns" /\ Then(TurnedOn(service), "free")
     \/ authoring = "marks" /\ Then(MarkedPrepared(service), "takes")
     \/ authoring = "takes"
        /\ Then(ResumeTaken(service), IF Resumes(service) THEN "turns" ELSE "free")
  /\ UNCHANGED <<perform, armed, user, starter, poll, preview, left>>

Rearm ==
  /\ authoring = "arms" /\ Performing
  /\ Arm(TRUE)
  /\ authoring' = "follows"
  /\ UNCHANGED <<outputVars, user, starter, refresh, poll, preview, left>>
-------------------------------------------------------------------------------
(* The poll: live_output_snapshot resumes what is ready, then reads the    *)
(* state; off, it lets go and looks a last time.                           *)

PollOnce ==
  /\ \/ /\ poll.at = "takes"
        /\ Serves(ResumeTaken(service))
        /\ poll' = [poll EXCEPT !.at = IF Resumes(service) THEN "resumes" ELSE "looks"]
     \/ /\ poll.at = "resumes"
        /\ Serves(TurnedOn(service))
        /\ poll' = [poll EXCEPT !.at = "looks"]
     \/ /\ poll.at = "looks"
        /\ poll' = [at |-> IF service.shown \in Off THEN "off" ELSE "takes", last |-> FALSE]
        /\ Serves(service)
  /\ UNCHANGED <<perform, armed, user, starter, authoring, refresh, preview, left>>

Poll ==
  /\ \/ /\ poll.at = "takes"
        /\ Serves(ResumeTaken(service))
        /\ poll' = [poll EXCEPT !.at = IF Resumes(service) THEN "resumes" ELSE "looks"]
     \/ /\ poll.at = "resumes"
        /\ Serves(TurnedOn(service))
        /\ poll' = [poll EXCEPT !.at = "looks"]
     \/ /\ poll.at = "looks"
        /\ poll' = IF service.shown \notin Off THEN [at |-> "takes", last |-> FALSE]
                   ELSE [at |-> IF poll.last THEN "off" ELSE "takes", last |-> ~poll.last]
        /\ Serves(service)
  /\ UNCHANGED <<perform, armed, user, starter, authoring, refresh, preview, left>>
-------------------------------------------------------------------------------
(* run_sync_loop: content when its identity changed, then the commands the *)
(* content's performance has and the Preview has not.  Another part of the *)
(* identity may change at any time.  Identity and content are read under   *)
(* the authoring mutex, each after finish_pending: that waits for the      *)
(* preparation asked for, or returns at once when there is none; before the*)
(* mutex is taken an edit may ask for another one.                         *)

Generation == IF perform = None THEN 0 ELSE perform.generation

PreviewWaits ==
  /\ preview.at \in {"waits", "renews"} /\ ~refresh
  /\ preview' = [preview EXCEPT !.at = IF @ = "waits" THEN "looks" ELSE "loads"]
  /\ UNCHANGED <<outputVars, perform, armed, user, starter, authoring, refresh, poll, left>>

NextLook == IF refresh THEN "waits" ELSE "looks"

PreviewLooksOnce ==
  /\ preview.at = "looks" /\ authoring = "free"
  /\ preview' = [preview EXCEPT !.at = "plays"]
  /\ UNCHANGED <<outputVars, perform, armed, user, starter, authoring, refresh, poll, left>>

PreviewLooks ==
  /\ preview.at = "looks" /\ authoring = "free"
  /\ \/ preview' = [preview EXCEPT !.at = IF refresh THEN "renews" ELSE "loads", !.identity = Generation]
     \/ preview.identity = Generation /\ preview' = [preview EXCEPT !.at = "plays"]
  /\ UNCHANGED <<outputVars, perform, armed, user, starter, authoring, refresh, poll, left>>

PreviewLoadsAndCounts ==
  /\ preview.at = "loads" /\ authoring = "free"
  /\ preview' = [preview EXCEPT !.at = "plays", !.of = Generation, !.log = <<>>]
  /\ UNCHANGED <<outputVars, perform, armed, user, starter, authoring, refresh, poll, left>>

PreviewLoads ==
  /\ preview.at = "loads" /\ authoring = "free"
  /\ preview' = [preview EXCEPT !.at = "plays", !.of = Generation, !.sent = 0, !.log = <<>>]
  /\ UNCHANGED <<outputVars, perform, armed, user, starter, authoring, refresh, poll, left>>

PreviewPlays ==
  /\ preview.at = "plays"
  /\ preview' =
       IF perform = None \/ preview.of # perform.generation THEN [preview EXCEPT !.at = NextLook]
       ELSE [preview EXCEPT !.at = NextLook, !.sent = Len(perform.log),
                            !.log = @ \o SubSeq(perform.log, preview.sent + 1, Len(perform.log))]
  /\ UNCHANGED <<outputVars, perform, armed, user, starter, authoring, refresh, poll, left>>

PreviewStep == PreviewWaits \/ PreviewLooks \/ PreviewLoads \/ PreviewPlays
-------------------------------------------------------------------------------
Runs == WorkerStep /\ UNCHANGED desktopVars

Next ==
  \/ Runs
  \/ TurnOn \/ TurnOff \/ StartTest \/ StopPerforming \/ PerformingStopped \/ Touch
  \/ StartPerforming \/ Starter
  \/ Edit \/ Choose \/ Complete \/ Author \/ Rearm
  \/ Poll \/ PreviewStep

\* The threads go on, and a preparation ends; the window's commands and the
\* edits may never come.  The Preview's loop looks again every 50 ms while a
\* performance plays.
Fairness ==
  /\ WF_vars(Runs) /\ WF_vars(PerformingStopped) /\ WF_vars(Starter)
  /\ WF_vars(Complete) /\ WF_vars(Author) /\ WF_vars(Poll)
  /\ WF_vars(PreviewStep)

Spec == Init /\ [][Next]_vars /\ Fairness
-------------------------------------------------------------------------------
(* Properties.                                                             *)

\* "Output is opt-in and fails closed" (docs/architecture.md): where the
\* service says that the output is disabled, no output is open or about to
\* be, and the lights are dark, unless a start took away the error that said
\* that they may have kept a frame.
OffIsDark ==
  service.shown = "disabled" =>
    /\ output = None
    /\ \A c \in Range(service.sender) : c.do # "enable" \/ c.generation # service.generation
    /\ lit => forgotten

\* perform_live_output "holds the performance while the output starts, so no
\* command is missed": the last commands in the queue are those for the output
\* that counts, and what it has played of the performance in progress, with
\* them, is the performance's log, in order and once.
OfService(c) == c.generation = service.generation
Coming(sent) ==
  [i \in 1..(Len(service.sender) - sent) |-> service.sender[sent + i].event]
Opening == {c \in Range(service.sender) : c.do = "enable" /\ OfService(c)}
Playing ==
  {c.feed : c \in Opening} \cup
    (IF output # None /\ output.generation = service.generation THEN {output.feed} ELSE {})
OutputPlaysTheLog ==
  perform # None =>
    \A feed \in Playing : feed.of = perform.generation =>
      \E sent \in 0..Len(service.sender) :
        /\ \A i \in 1..Len(service.sender) :
             LET c == service.sender[i]
             IN  i > sent <=> c.do = "events" /\ OfService(c)
        /\ perform.log = feed.log \o Coming(sent)

\* The Preview "receives the console show as its content, then the events as
\* they arrive" (docs/architecture.md): what it was sent of the performance in
\* progress is the beginning of its log, whatever reloads came between.
PreviewPlaysTheLog ==
  perform # None /\ preview.of = perform.generation => IsPrefix(preview.log, perform.log)

\* The Preview catches up with every performance that goes on.
PreviewCatchesUp ==
  perform # None ~>
    perform = None \/ (preview.of = perform.generation /\ preview.log = perform.log)

\* Every stop is answered: nobody has to wait for the output to finish
\* stopping for ever before it can be started again.
StopsEnd == service.shown = "stopping" ~> service.shown # "stopping"

\* "Live output stays on through Stop and Pause until you turn it off or open
\* another sequence or project" (docs/first_show.md): an output that an edit
\* suspended, and whose sequence is prepared again, is turned on or given up
\* while the poll runs.  Only the window's commands start the poll: once it
\* has ended, nobody turns the output on.  Nor does anybody when the sequence is
\* unloaded after the resumption was taken and before the output is turned on.
OutputComesBack ==
  service.resumeAfter /\ service.resumeReady /\ poll.at # "off"
    ~> ~(service.resumeAfter /\ service.resumeReady)
===============================================================================
