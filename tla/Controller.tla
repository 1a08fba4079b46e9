------------------------------ MODULE Controller ------------------------------
(***************************************************************************)
(* The ESP32 controller (firmware/esp32/src/bin/loader.rs) from power on:  *)
(* it restores the newest saved show, then its HTTP workers replace the    *)
(* show or change the configuration.  Shows are kept in two flash slots    *)
(* (crates/donder-device-storage/src/show_slots.rs); StoragePause is how a *)
(* worker gets the flash.  Power may go at any step.                       *)
(*                                                                         *)
(* A step on the flash is one erase or one write that completed.  One that *)
(* the power cut interrupted leaves what was there before it (a torn       *)
(* header or torn data does not count) or what it was to leave.            *)
(***************************************************************************)
EXTENDS StoragePause, Integers, FiniteSets

CONSTANTS Main,            \* the task that boots; the others are HTTP workers
          Shows,
          Generations      \* generations count modulo this; the code has 2^32

Workers == Tasks \ {Main}
Partial == "partial"       \* erased or half-written data

ASSUME ControllerAssumption == /\ Main \in Tasks
                               /\ None \notin Shows \cup Nat
                               /\ Partial \notin Shows
                               /\ Generations \in Nat \ {0, 1, 2}

VARIABLES slot,        \* the two flash slots
          playback,    \* the show in RAM that the rendering core plays
          upload,      \* who holds the upload gate
          job          \* the request that each task handles

vars == <<access, slot, playback, upload, job>>

Index == {0, 1}
Slot == [generation : 0..(Generations - 1) \cup {None}, show : Shows \cup {Partial}]
Job == [step : {"begin", "stop", "receive", "access", "erase", "append", "admit",
                "commit", "play", "reply", "end"},
        show : Shows \cup {None},
        index : Index \cup {None},
        generation : 0..(Generations - 1) \cup {None}]

ASSUME JobAssumption == None \notin Job

TypeOK == /\ PauseTypeOK
          /\ slot \in [Index -> Slot]
          /\ playback \in Shows \cup {None}
          /\ upload \in Tasks \cup {None}
          /\ job \in [Tasks -> Job \cup {None}]
-----------------------------------------------------------------------------
(***************************************************************************)
(* The slots.                                                              *)
(***************************************************************************)
\* Wrong variants of the definitions stand before them, each the way a bug would
\* make it; the properties at the end must refute every one.

NewerPlain(a, b) == a > b

\* generation.wrapping_sub(old) as i32 > 0
Newer(a, b) == LET ahead == (a - b) % Generations
               IN  0 < ahead /\ 2 * ahead < Generations

Committed(i) == slot[i].generation # None

\* show_slots::latest
Latest ==
  CASE Committed(0) /\ Committed(1) ->
         IF Newer(slot[1].generation, slot[0].generation) THEN 1 ELSE 0
    [] Committed(0) /\ ~Committed(1) -> 0
    [] Committed(1) /\ ~Committed(0) -> 1
    [] OTHER -> None

SavedShow == IF Latest = None THEN None ELSE slot[Latest].show

NextIndex == IF Latest = None THEN 0 ELSE 1 - Latest
NextGeneration == IF Latest = None THEN 1
                  ELSE (slot[Latest].generation + 1) % Generations
-----------------------------------------------------------------------------
(***************************************************************************)
(* Requests.  At(t, s): the task handles a request and has come to s.      *)
(***************************************************************************)
At(t, step) == job[t] # None /\ job[t].step = step

Continues(t, step) == job' = [job EXCEPT ![t].step = step]
Goes(t, from, to) == At(t, from) /\ Continues(t, to)

Using(t) == task[t] = "using"

NewJob(step, show) ==
  [step |-> step, show |-> show, index |-> None, generation |-> None]

\* The workers start when the show is restored.
Booted == core # "off" /\ job[Main] = None

UploadShow(t, show) ==
  /\ Booted /\ t \in Workers
  /\ job[t] = None
  /\ job' = [job EXCEPT ![t] = NewJob("begin", show)]
  /\ UNCHANGED <<access, slot, playback, upload>>

UpdateConfig(t) ==
  /\ Booted /\ t \in Workers
  /\ job[t] = None
  /\ job' = [job EXCEPT ![t] = NewJob("begin", None)]
  /\ UNCHANGED <<access, slot, playback, upload>>

TakeGateAnyway(t) ==
  /\ At(t, "begin")
  /\ upload' = t
  /\ Continues(t, IF job[t].show = None THEN "access" ELSE "stop")
  /\ UNCHANGED <<access, slot, playback>>

\* One show replaces another at a time.
TakeGate(t) ==
  /\ At(t, "begin")
  /\ upload = None
  /\ upload' = t
  /\ Continues(t, IF job[t].show = None THEN "access" ELSE "stop")
  /\ UNCHANGED <<access, slot, playback>>

\* The show is too long for a slot.
RefuseLength(t) ==
  /\ Goes(t, "stop", "end")
  /\ UNCHANGED <<access, slot, playback, upload>>

StopPlaybackLater(t) ==
  /\ Goes(t, "stop", "receive")
  /\ UNCHANGED <<access, slot, playback, upload>>

\* The show in RAM is dropped before the new one is allocated.
StopPlayback(t) ==
  /\ Goes(t, "stop", "receive")
  /\ playback' = None
  /\ UNCHANGED <<access, slot, upload>>

\* The body arrives, or memory, the client or the connection fails.
Receive(t) ==
  /\ Goes(t, "receive", "access") \/ Goes(t, "receive", "end")
  /\ UNCHANGED <<access, slot, playback, upload>>

AskForStorage(t) ==
  /\ At(t, "access")
  /\ Access(t)
  /\ UNCHANGED <<slot, playback, upload, job>>

\* show_slots::begin chooses the slot and erases its blocks, the header first.
EraseHeader(t) ==
  /\ At(t, "access") /\ Using(t)
  /\ job[t].show # None
  /\ slot' = [slot EXCEPT ![NextIndex].generation = None]
  /\ job' = [job EXCEPT ![t] = [step |-> "erase", show |-> job[t].show,
                                index |-> NextIndex,
                                generation |-> NextGeneration]]
  /\ UNCHANGED <<access, playback, upload>>

EraseData(t) ==
  /\ Goes(t, "erase", "append") /\ Using(t)
  /\ slot' = [slot EXCEPT ![job[t].index].show = Partial]
  /\ UNCHANGED <<access, playback, upload>>

AppendData(t) ==
  /\ Goes(t, "append", "admit") /\ Using(t)
  /\ slot' = [slot EXCEPT ![job[t].index].show = job[t].show]
  /\ UNCHANGED <<access, playback, upload>>

\* admit: the show opens, fits and suits the outputs, or it is rejected.
Admit(t) ==
  /\ Goes(t, "admit", "commit") \/ Goes(t, "admit", "reply")
  /\ UNCHANGED <<access, slot, playback, upload>>

Commits(t) == slot' = [slot EXCEPT ![job[t].index].generation = job[t].generation]

Commit(t) ==
  /\ Goes(t, "commit", "play") /\ Using(t)
  /\ Commits(t)
  /\ UNCHANGED <<access, playback, upload>>

\* A flash call returns an error, with or without its effect; the latest slot
\* cannot be read.
FlashFails(t) ==
  /\ Using(t)
  /\ \E step \in {"access", "erase", "append", "commit"} : Goes(t, step, "reply")
  /\ \/ UNCHANGED slot
     \/ /\ At(t, "access") /\ job[t].show # None
        /\ slot' = [slot EXCEPT ![NextIndex].generation = None]
     \/ At(t, "erase") /\ slot' = [slot EXCEPT ![job[t].index].show = Partial]
     \/ At(t, "commit") /\ Commits(t)
  /\ UNCHANGED <<access, playback, upload>>

Play(t) ==
  /\ Goes(t, "play", "reply")
  /\ playback' = job[t].show
  /\ UNCHANGED <<access, slot, upload>>

SaveConfig(t) ==
  /\ t \in Workers
  /\ Goes(t, "access", "reply") /\ Using(t)
  /\ job[t].show = None
  /\ UNCHANGED <<access, slot, playback, upload>>

\* restore_show: the newest saved show, when it can be read and admitted.
RestoreShow(t) ==
  /\ t = Main
  /\ Goes(t, "access", "reply") /\ Using(t)
  /\ playback' \in (IF SavedShow = None THEN {playback} ELSE {SavedShow, None})
  /\ UNCHANGED <<access, slot, upload>>

\* The handlers let the storage go; an upload first sends its reply, so the
\* outputs stand still for that long.
Reply(t) ==
  /\ Goes(t, "reply", "end")
  /\ Releases(t)
  /\ UNCHANGED <<slot, playback, upload>>

Unlock(t) ==
  /\ At(t, "end")
  /\ Unlocks(t)
  /\ UNCHANGED <<slot, playback, upload, job>>

FinishKeepingGate(t) ==
  /\ At(t, "end")
  /\ task[t] = "idle"
  /\ job' = [job EXCEPT ![t] = None]
  /\ UNCHANGED <<access, slot, playback, upload>>

Finish(t) ==
  /\ At(t, "end")
  /\ task[t] = "idle"
  /\ job' = [job EXCEPT ![t] = None]
  /\ upload' = IF upload = t THEN None ELSE upload
  /\ UNCHANGED <<access, slot, playback>>
-----------------------------------------------------------------------------
\* The task that boots restores the saved show.
Restoring == [t \in Tasks |-> IF t = Main THEN NewJob("access", None) ELSE None]

\* A new controller is switched on.
Init == /\ PauseInit
        /\ slot \in [Index -> {[generation |-> None, show |-> Partial]}]
        /\ playback = None
        /\ upload = None
        /\ job = Restoring

Restart == /\ Reset
           /\ playback' = None
           /\ upload' = None
           /\ job' = Restoring
           /\ UNCHANGED slot

Waits(t) == /\ Lock(t)
            /\ UNCHANGED <<slot, playback, upload, job>>

Handles(t) ==
  \/ RefuseLength(t) \/ StopPlayback(t) \/ Receive(t) \/ AskForStorage(t)
  \/ /\ Drained(t) \/ Asks(t) \/ Granted(t)
     /\ UNCHANGED <<slot, playback, upload, job>>
  \/ EraseHeader(t) \/ EraseData(t) \/ AppendData(t) \/ Admit(t) \/ Commit(t)
  \/ FlashFails(t) \/ Play(t) \/ SaveConfig(t) \/ RestoreShow(t)
  \/ Reply(t) \/ Unlock(t) \/ Finish(t)

Renders == Core /\ UNCHANGED <<slot, playback, upload, job>>

Next == \/ \E t \in Tasks : \/ UpdateConfig(t) \/ TakeGate(t) \/ Waits(t)
                            \/ Handles(t)
        \/ \E t \in Tasks, show \in Shows : UploadShow(t, show)
        \/ Renders
        \/ Restart

\* The rendering core loops, every request that is under way goes on (its reads
\* and writes have timeouts), and a mutex is not refused to a waiter for ever.
\* The power may stay on or go; nobody has to send a request.
Fairness == /\ WF_vars(Renders)
            /\ \A t \in Tasks : /\ WF_vars(Handles(t))
                                /\ SF_vars(TakeGate(t))
                                /\ SF_vars(Waits(t))

Spec == Init /\ [][Next]_vars
FairSpec == Spec /\ Fairness
-----------------------------------------------------------------------------
(***************************************************************************)
(* Correctness.                                                            *)
(***************************************************************************)
\* What a restart would restore changes only when a complete, admitted show is
\* committed, and to that show: whatever fails or is cut short before leaves
\* the saved show alone ("the previous committed flash slot survives until the
\* new show is admitted").  A commit that is reported has replaced it.
OnlyCommitReplaces ==
  [][/\ SavedShow' # SavedShow =>
          \E t \in Tasks : At(t, "commit") /\ SavedShow' = job[t].show
     /\ \A t \in Tasks : At(t, "commit") /\ At(t, "play")' =>
          SavedShow' = job[t].show]_vars

\* The show that plays is the one a restart brings back.
PlayingIsSaved == playback # None => playback = SavedShow

\* At most one show is in memory: the one that plays or one that is being
\* received ("each needs the free heap"; an allocation failure is a reset).
HasBytes(t) == job[t] # None /\ job[t].show # None /\
               job[t].step \in {"receive", "access", "erase", "append", "admit",
                                "commit", "play"}
OneShowInMemory ==
  Cardinality({t \in Tasks : HasBytes(t)}) + (IF playback = None THEN 0 ELSE 1) <= 1

\* The outputs come back: however the workers follow one another, the rendering
\* core leaves its wait between two of them.
FramesResume == core # "frames" ~> core = "frames"

\* Every request is answered, unless the power goes.
RequestsEnd == \A t \in Tasks : job[t] # None ~> job[t] = None \/ core = "off"
=============================================================================
