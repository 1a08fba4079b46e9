--------------------------- MODULE ControllerProofs ---------------------------
(***************************************************************************)
(* The pause protocol, and the controller that obeys it.                   *)
(*                                                                         *)
(* The two cores never use the flash at once, for any number of tasks.     *)
(* FlashAlone says nothing of the moments before the flash is used.  Inv   *)
(* follows one access through the two flags: the request is up while its   *)
(* holder waits or uses, `paused` is up while the core waits or leaves, and*)
(* a core that leaves answers no later request, because a task asks only   *)
(* after it saw `paused` down and nobody else holds the mutex.             *)
(*                                                                         *)
(* The controller obeys that protocol, so all this holds of everything its *)
(* workers do.  What is in RAM and in the slots rests on the upload gate   *)
(* (UploadInv), on what a request has made of its slot (SlotInv), and on   *)
(* the newest generation being found although generations wrap round.      *)
(***************************************************************************)
EXTENDS Controller, FiniteSetTheorems, TLAPS

(* The pause protocol of StoragePause, by itself.                          *)

Holding(t) == task[t] \notin {"idle", "locking"}
Requesting(t) == task[t] \in {"waiting", "using"}

InvHolder == \A t \in Tasks : Holding(t) => holder = t
InvRequest == /\ \A t \in Tasks : Requesting(t) => requested
              /\ requested => \E t \in Tasks : Requesting(t)
InvPaused == paused <=> core \in {"waiting", "leaving"}
InvCore == /\ core = "pausing" => requested
           /\ core = "leaving" => ~requested
InvAsking == \A t \in Tasks : task[t] = "asking" => ~paused
InvUsing == \A t \in Tasks : task[t] = "using" => core = "waiting"

Inv == /\ PauseTypeOK
       /\ InvHolder
       /\ InvRequest
       /\ InvPaused
       /\ InvCore
       /\ InvAsking
       /\ InvUsing

\* The controller starts with no access under way and the rendering core off.
LEMMA InitInv == PauseInit => Inv
<1> SUFFICES ASSUME PauseInit PROVE Inv
  OBVIOUS
<1>1. requested \in BOOLEAN /\ paused \in BOOLEAN
  BY Zenon DEF PauseInit
<1>2. PauseTypeOK
  BY <1>1 DEF PauseInit, PauseTypeOK, CorePlace, TaskPlace
<1>3. \A t \in Tasks : task[t] = "idle"
  BY DEF PauseInit
<1> QED
  BY <1>2, <1>3 DEF PauseInit, Inv, InvHolder, InvRequest, InvPaused, InvCore, InvAsking,
                    InvUsing, Holding, Requesting

\* Every load and every store keeps the types.
LEMMA TypeStep == PauseTypeOK /\ [PauseNext]_access => PauseTypeOK'
<1> SUFFICES ASSUME PauseTypeOK, [PauseNext]_access PROVE PauseTypeOK'
  OBVIOUS
<1> USE DEF PauseTypeOK, CorePlace, TaskPlace
<1>1. CASE Core
  BY <1>1 DEF Core, StartCore, SeesRequest, Pauses, SeesRelease, Resumes
<1>2. ASSUME NEW t \in Tasks, Accesses(t) PROVE PauseTypeOK'
  BY <1>2 DEF Accesses, Moves, Access, Lock, Drained, Asks, Granted, Releases, Unlocks
<1>3. CASE Reset
  <2>1. requested' \in BOOLEAN /\ paused' \in BOOLEAN
    BY <1>3, Zenon DEF Reset
  <2> QED
    BY <1>3, <2>1 DEF Reset
<1>4. CASE UNCHANGED access
  BY <1>4 DEF access
<1> QED
  BY <1>1, <1>2, <1>3, <1>4 DEF PauseNext

\* Every load and every store keeps the invariant.
LEMMA InvStep == Inv /\ [PauseNext]_access => Inv'
<1> SUFFICES ASSUME Inv, [PauseNext]_access PROVE Inv'
  OBVIOUS
<1>0. PauseTypeOK /\ PauseTypeOK'
  BY TypeStep DEF Inv
<1> DEFINE Rest == /\ InvHolder /\ InvRequest /\ InvPaused
                   /\ InvCore /\ InvAsking /\ InvUsing
<1>a. Rest
  BY DEF Inv
<1> SUFFICES Rest'
  BY <1>0 DEF Inv
<1> USE StoragePauseAssumption
    DEF StoragePauseAssumption, PauseTypeOK, InvHolder, InvRequest, InvPaused, InvCore,
        InvAsking, InvUsing, Holding, Requesting
<1>1. CASE StartCore
  BY <1>0, <1>a, <1>1 DEF StartCore
<1>2. CASE SeesRequest
  BY <1>0, <1>a, <1>2 DEF SeesRequest
<1>3. CASE Pauses
  BY <1>0, <1>a, <1>3 DEF Pauses
<1>4. CASE SeesRelease
  BY <1>0, <1>a, <1>4 DEF SeesRelease
<1>5. CASE Resumes
  BY <1>0, <1>a, <1>5 DEF Resumes
<1>6. ASSUME NEW t \in Tasks, Access(t) PROVE Rest'
  BY <1>0, <1>a, <1>6 DEF Access, Moves
<1>7. ASSUME NEW t \in Tasks, Lock(t) PROVE Rest'
  BY <1>0, <1>a, <1>7 DEF Lock, Moves
<1>8. ASSUME NEW t \in Tasks, Drained(t) PROVE Rest'
  BY <1>0, <1>a, <1>8 DEF Drained, Moves
<1>9. ASSUME NEW t \in Tasks, Asks(t) PROVE Rest'
  BY <1>0, <1>a, <1>9 DEF Asks, Moves
<1>10. ASSUME NEW t \in Tasks, Granted(t) PROVE Rest'
  BY <1>0, <1>a, <1>10 DEF Granted, Moves
<1>11. ASSUME NEW t \in Tasks, Releases(t) PROVE Rest'
  BY <1>0, <1>a, <1>11 DEF Releases, Moves
<1>12. ASSUME NEW t \in Tasks, Unlocks(t) PROVE Rest'
  BY <1>0, <1>a, <1>12 DEF Unlocks, Moves
<1>13. CASE Reset
  BY <1>13 DEF Reset
<1>14. CASE UNCHANGED access
  BY <1>a, <1>14 DEF access
<1> QED
  BY <1>1, <1>2, <1>3, <1>4, <1>5, <1>6, <1>7, <1>8, <1>9, <1>10, <1>11, <1>12, <1>13, <1>14
  DEF PauseNext, Core, Accesses

\* The invariant holds throughout.
THEOREM Invariance == PauseSpec => []Inv
<1>1. PauseInit => Inv
  BY InitInv
<1>2. Inv /\ [PauseNext]_access => Inv'
  BY InvStep
<1> QED
  BY <1>1, <1>2, PTL DEF PauseSpec

\* The flags, the mutex and the places keep their types.
THEOREM TypeCorrect == PauseSpec => []PauseTypeOK
<1>1. Inv => PauseTypeOK
  BY DEF Inv
<1> QED
  BY <1>1, Invariance, PTL

\* While a task uses the flash, the rendering core waits in RAM, the request
\* stays up and no other task is past the mutex.
THEOREM FlashIsAlone == PauseSpec => []FlashAlone
<1>1. Inv => FlashAlone
  BY StoragePauseAssumption
  DEF StoragePauseAssumption, Inv, InvUsing, InvRequest, InvHolder, Holding,
      Requesting, FlashAlone, PauseTypeOK, TaskPlace
<1> QED
  BY <1>1, Invariance, PTL
-------------------------------------------------------------------------------
(* The controller.                                                         *)

\* Every step of a request, of the rendering core or of the power is a step of
\* the pause protocol or leaves its flags, its mutex and its places alone.
LEMMA PauseStep == [Next]_vars => [PauseNext]_access
<1> SUFFICES ASSUME [Next]_vars PROVE PauseNext \/ UNCHANGED access
  OBVIOUS
<1>1. ASSUME NEW t \in Tasks, UpdateConfig(t) \/ TakeGate(t)
      PROVE  UNCHANGED access
  BY <1>1 DEF UpdateConfig, TakeGate
<1>2. ASSUME NEW t \in Tasks, Waits(t) PROVE PauseNext
  BY <1>2 DEF Waits, PauseNext, Accesses
<1>3. ASSUME NEW t \in Tasks, Handles(t)
      PROVE  Accesses(t) \/ UNCHANGED access
  BY <1>3
  DEF Handles, RefuseLength, StopPlayback, Receive, AskForStorage, EraseHeader,
      EraseData, AppendData, Admit, Commit, FlashFails, Play, SaveConfig,
      RestoreShow, Reply, Unlock, Finish, Accesses
<1>4. ASSUME NEW t \in Tasks, NEW show \in Shows, UploadShow(t, show)
      PROVE  UNCHANGED access
  BY <1>4 DEF UploadShow
<1>5. CASE Renders
  BY <1>5 DEF Renders, PauseNext
<1>6. CASE Restart
  BY <1>6 DEF Restart, PauseNext
<1>7. CASE UNCHANGED vars
  BY <1>7 DEF vars
<1> QED
  BY <1>1, <1>2, <1>3, <1>4, <1>5, <1>6, <1>7 DEF Next, PauseNext

\* The controller implements the pause protocol.
THEOREM ObeysPause == Spec => PauseSpec
<1>1. Init => PauseInit
  BY DEF Init
<1> QED
  BY <1>1, PauseStep, PTL DEF Spec, PauseSpec

\* Whatever the workers upload, save, fail at or restart in, the flash is used
\* by one of them and only while the rendering core waits in RAM.
THEOREM ControllerFlashIsAlone == Spec => []FlashAlone
  BY ObeysPause, FlashIsAlone, PTL
-----------------------------------------------------------------------------
(***************************************************************************)
(* Generations.                                                            *)
(***************************************************************************)
\* A generation is newer than the one before it, also when it has wrapped.
LEMMA NextIsNewer ==
  ASSUME NEW a \in 0..(Generations - 1)
  PROVE  LET b == (a + 1) % Generations
         IN  b \in 0..(Generations - 1) /\ Newer(b, a) /\ ~Newer(a, b)
<1> USE ControllerAssumption DEF ControllerAssumption
<1> DEFINE b == (a + 1) % Generations
<1>1. CASE a = Generations - 1
  <2>1. b = 0
    BY <1>1
  <2>2. (b - a) % Generations = 1
    BY <1>1, <2>1
  <2>3. (a - b) % Generations = Generations - 1
    BY <1>1, <2>1
  <2> HIDE DEF b
  <2> QED
    BY <2>1, <2>2, <2>3 DEF Newer
<1>2. CASE a # Generations - 1
  <2>1. b = a + 1
    BY <1>2
  <2>2. (b - a) % Generations = 1
    BY <2>1
  <2>3. (a - b) % Generations = Generations - 1
    <3>1. a - b = -1
      BY <2>1
    <3>2. (-1) % Generations = Generations - 1
      OBVIOUS
    <3> HIDE DEF b
    <3> QED
      BY <3>1, <3>2
  <2> HIDE DEF b
  <2> QED
    BY <1>2, <2>1, <2>2, <2>3 DEF Newer
<1> QED
  BY <1>1, <1>2

-----------------------------------------------------------------------------
(***************************************************************************)
(* The inductive invariant.                                                *)
(***************************************************************************)
Writing == {"erase", "append", "admit", "commit"}
Bytes == {"receive", "access", "play"} \cup Writing
JobStep == {"begin", "stop", "reply", "end"} \cup Bytes

\* A show is handled under the upload gate, and nothing plays meanwhile; the
\* task that boots restores before there is a request.
UploadInv ==
  /\ job[Main] # None => /\ job[Main].show = None
                         /\ job[Main].step # "begin"
                         /\ upload = None
                         /\ \A t \in Workers : job[t] = None
  /\ \A t \in Workers : job[t] # None /\ job[t].step # "begin" => upload = t
  /\ \A t \in Tasks : job[t] # None /\ job[t].show = None =>
       job[t].step \in {"begin", "access", "reply", "end"}
  /\ \A t \in Tasks : HasBytes(t) => playback = None

\* The slot that a request writes is not committed, and is to follow the other.
SlotInv ==
  /\ \A i \in Index : slot[i].generation # None => slot[i].show \in Shows
  /\ \A t \in Tasks : job[t] # None /\ job[t].step \in Writing =>
       LET i == job[t].index
       IN  /\ i \in Index
           /\ job[t].generation \in 0..(Generations - 1)
           /\ slot[i].generation = None
           /\ slot[1 - i].generation # None =>
                job[t].generation = (slot[1 - i].generation + 1) % Generations
           /\ job[t].step \in {"admit", "commit"} => slot[i].show = job[t].show
  /\ \A t \in Tasks : At(t, "play") => SavedShow = job[t].show

ShowInv == TypeOK /\ UploadInv /\ SlotInv /\ PlayingIsSaved

\* All of it but the pause's own types.
Show == /\ slot \in [Index -> Slot]
        /\ playback \in Shows \cup {None}
        /\ upload \in Tasks \cup {None}
        /\ job \in [Tasks -> Job \cup {None}]
        /\ UploadInv /\ SlotInv /\ PlayingIsSaved
\* It holds when the controller is switched on for the first time.
LEMMA InitShow == Init => ShowInv
<1> SUFFICES ASSUME Init PROVE ShowInv
  OBVIOUS
<1> USE ControllerAssumption, JobAssumption, StoragePauseAssumption
    DEF ControllerAssumption, JobAssumption, StoragePauseAssumption, Init
<1>1. NewJob("access", None) \in Job
  BY DEF NewJob, Job
<1>2. job \in [Tasks -> Job \cup {None}]
  BY <1>1 DEF Restoring
<1>3. \A t \in Tasks : job[t] # None => job[t].step = "access" /\ job[t].show = None
  BY DEF Restoring, NewJob
<1>4. PauseTypeOK
  BY DEF PauseInit, PauseTypeOK, CorePlace, TaskPlace
<1>5. TypeOK
  BY <1>2, <1>4 DEF TypeOK, Slot
<1>6. UploadInv
  BY <1>3 DEF UploadInv, HasBytes, Restoring, Workers
<1>7. SlotInv
  BY <1>3 DEF SlotInv, Writing, At
<1> QED
  BY <1>5, <1>6, <1>7 DEF ShowInv, PlayingIsSaved

\* A request that goes on keeps what it asks for; the others stay.
LEMMA JobMoves ==
  ASSUME job \in [Tasks -> Job \cup {None}], NEW t \in Tasks, job[t] # None,
         NEW to \in JobStep, Continues(t, to)
  PROVE  /\ job' \in [Tasks -> Job \cup {None}]
         /\ job'[t] \in Job /\ job'[t] # None
         /\ job'[t].step = to /\ job'[t].show = job[t].show
         /\ job'[t].index = job[t].index /\ job'[t].generation = job[t].generation
         /\ \A u \in Tasks \ {t} : job'[u] = job[u]
<1> DEFINE j == [job[t] EXCEPT !.step = to]
<1>1. job[t] \in Job
  OBVIOUS
<1>2. j \in Job /\ j.step = to /\ j.show = job[t].show /\ j.index = job[t].index
      /\ j.generation = job[t].generation
  BY <1>1 DEF Job, JobStep, Bytes, Writing
<1>3. job' = [job EXCEPT ![t] = j]
  BY DEF Continues
<1> HIDE DEF j
<1> QED
  BY <1>2, <1>3, JobAssumption DEF JobAssumption

\* The show a restart restores depends on the slots alone.
LEMMA SavedSame == UNCHANGED slot => SavedShow' = SavedShow
BY DEF SavedShow, Latest, Committed, Newer

\* A request that goes on, and leaves the slots, the show in RAM and the gate.
LEMMA QuietShow ==
  ASSUME ShowInv, NEW t \in Tasks, NEW from, NEW to \in JobStep \ {"begin", "play"},
         Goes(t, from, to), from # "begin", UNCHANGED <<slot, playback, upload>>,
         to \in Writing => from \in Writing,
         to \in {"admit", "commit"} => from \in {"admit", "commit"},
         to \in Bytes => from \in Bytes,
         job[t].show = None => to \in {"access", "reply", "end"}
  PROVE  /\ job' \in [Tasks -> Job \cup {None}]
         /\ UploadInv' /\ SlotInv' /\ PlayingIsSaved'
<1>0. /\ job \in [Tasks -> Job \cup {None}]
      /\ job[t] # None /\ job[t].step = from /\ Continues(t, to)
      /\ UploadInv /\ SlotInv /\ PlayingIsSaved
  BY DEF ShowInv, TypeOK, Goes, At
<1>1. /\ job' \in [Tasks -> Job \cup {None}]
      /\ job'[t] \in Job /\ job'[t] # None
      /\ job'[t].step = to /\ job'[t].show = job[t].show
      /\ job'[t].index = job[t].index /\ job'[t].generation = job[t].generation
      /\ \A u \in Tasks \ {t} : job'[u] = job[u]
  BY <1>0, JobMoves
<1>2. UploadInv'
  BY <1>0, <1>1, ControllerAssumption
  DEF UploadInv, HasBytes, Bytes, JobStep, Writing, Workers, ControllerAssumption
<1>3. SavedShow' = SavedShow
  BY SavedSame
<1>4. SlotInv'
  BY <1>0, <1>1, <1>3 DEF SlotInv, At
<1> QED
  BY <1>0, <1>1, <1>2, <1>3, <1>4 DEF PlayingIsSaved

\* A step that leaves all but the pause's flags.
LEMMA SameShow ==
  ASSUME ShowInv, UNCHANGED <<slot, playback, upload, job>>
  PROVE  UploadInv' /\ SlotInv' /\ PlayingIsSaved'
BY SavedSame DEF ShowInv, UploadInv, SlotInv, PlayingIsSaved, HasBytes, At

\* Who handles a show past its beginning is a worker, and nobody else is.
LEMMA OnlyUpload ==
  ASSUME ShowInv, NEW t \in Tasks, job[t] # None, job[t].show # None,
         job[t].step # "begin"
  PROVE  /\ t \in Workers
         /\ job[Main] = None
         /\ \A u \in Tasks \ {t} : job[u] # None => job[u].step = "begin"
BY ControllerAssumption DEF ControllerAssumption, ShowInv, UploadInv, Workers

\* A new request.
LEMMA JobBegins ==
  ASSUME ShowInv, NEW t \in Workers, NEW j \in Job, j.step = "begin",
         job[t] = None, job[Main] = None,
         job' = [job EXCEPT ![t] = j], UNCHANGED <<slot, playback, upload>>
  PROVE  /\ job' \in [Tasks -> Job \cup {None}]
         /\ UploadInv' /\ SlotInv' /\ PlayingIsSaved'
<1>0. /\ job \in [Tasks -> Job \cup {None}]
      /\ UploadInv /\ SlotInv /\ PlayingIsSaved
  BY DEF ShowInv, TypeOK
<1>1. /\ job' \in [Tasks -> Job \cup {None}] /\ job'[t] = j /\ t \in Tasks
      /\ \A u \in Tasks \ {t} : job'[u] = job[u]
  BY <1>0 DEF Workers
<1>2. UploadInv'
  BY <1>0, <1>1, ControllerAssumption
  DEF UploadInv, HasBytes, Workers, ControllerAssumption
<1>3. SavedShow' = SavedShow
  BY SavedSame
<1>4. SlotInv'
  BY <1>0, <1>1, <1>3 DEF SlotInv, At, Writing
<1> QED
  BY <1>0, <1>1, <1>2, <1>3, <1>4 DEF PlayingIsSaved

\* The end of one, which opens the gate if it had it.
LEMMA JobEnds ==
  ASSUME ShowInv, NEW t \in Tasks, job' = [job EXCEPT ![t] = None],
         UNCHANGED <<slot, playback>>,
         upload' = IF upload = t THEN None ELSE upload, upload = t => t \in Workers
  PROVE  /\ job' \in [Tasks -> Job \cup {None}]
         /\ UploadInv' /\ SlotInv' /\ PlayingIsSaved'
<1>0. /\ job \in [Tasks -> Job \cup {None}]
      /\ UploadInv /\ SlotInv /\ PlayingIsSaved
  BY DEF ShowInv, TypeOK
<1>1. /\ job' \in [Tasks -> Job \cup {None}] /\ job'[t] = None
      /\ \A u \in Tasks \ {t} : job'[u] = job[u]
  BY <1>0
<1>2. UploadInv'
  BY <1>0, <1>1, ControllerAssumption
  DEF UploadInv, HasBytes, Workers, ControllerAssumption
<1>3. SavedShow' = SavedShow
  BY SavedSame
<1>4. SlotInv'
  BY <1>0, <1>1, <1>3 DEF SlotInv, At, Writing
<1> QED
  BY <1>0, <1>1, <1>2, <1>3, <1>4 DEF PlayingIsSaved

\* A slot keeps its type, and the other one stays.
LEMMA SlotMoves ==
  ASSUME slot \in [Index -> Slot], NEW i \in Index
  PROVE  /\ \A g \in 0..(Generations - 1) \cup {None} :
              slot' = [slot EXCEPT ![i].generation = g] =>
                /\ slot' \in [Index -> Slot]
                /\ slot'[i].generation = g /\ slot'[i].show = slot[i].show
                /\ \A k \in Index \ {i} : slot'[k] = slot[k]
         /\ \A show \in Shows \cup {Partial} :
              slot' = [slot EXCEPT ![i].show = show] =>
                /\ slot' \in [Index -> Slot]
                /\ slot'[i].show = show
                /\ slot'[i].generation = slot[i].generation
                /\ \A k \in Index \ {i} : slot'[k] = slot[k]
BY DEF Slot

\* The slot to be written next is a slot, its generation a generation, and it
\* follows the one that stays.
LEMMA NextSlot ==
  ASSUME slot \in [Index -> Slot]
  PROVE  /\ NextIndex \in Index
         /\ NextGeneration \in 0..(Generations - 1)
         /\ slot[1 - NextIndex].generation # None =>
              NextGeneration = (slot[1 - NextIndex].generation + 1) % Generations
<1> USE ControllerAssumption DEF ControllerAssumption
<1>1. Latest \in Index \cup {None}
  BY DEF Latest, Index
<1>2. None \notin Index
  BY DEF Index
<1>3. CASE Latest = None
  <2>1. \A i \in Index : slot[i].generation = None
    BY <1>2, <1>3 DEF Latest, Committed, Index
  <2> QED
    BY <1>3, <2>1 DEF NextIndex, NextGeneration, Index
<1>4. CASE Latest # None
  <2>1. slot[Latest].generation # None
    BY <1>4 DEF Latest, Committed
  <2>2. slot[Latest].generation \in 0..(Generations - 1)
    BY <1>1, <1>4, <2>1 DEF Slot
  <2>3. (slot[Latest].generation + 1) % Generations \in 0..(Generations - 1)
    BY <2>2, NextIsNewer
  <2>4. 1 - NextIndex = Latest
    BY <1>1, <1>4 DEF NextIndex, Index
  <2> QED
    BY <1>1, <1>4, <2>3, <2>4 DEF NextIndex, NextGeneration, Index
<1> QED
  BY <1>3, <1>4
\* A step of a show's request that changes the slot it writes, or chooses it:
\* nothing plays, so only what is written of this slot matters.
LEMMA WriteShow ==
  ASSUME ShowInv, NEW t \in Tasks, job[t] # None, job[t].show # None,
         job[t].step \in Bytes, NEW i \in Index,
         /\ slot' \in [Index -> Slot]
         /\ \A k \in Index \ {i} : slot'[k] = slot[k]
         /\ slot'[i].generation # None => slot'[i].show \in Shows,
         /\ job' \in [Tasks -> Job \cup {None}]
         /\ \A u \in Tasks \ {t} : job'[u] = job[u]
         /\ job'[t] # None /\ job'[t].show = job[t].show
         /\ job'[t].step \in JobStep \ {"begin"},
         job'[t].step \in Writing =>
           /\ job'[t].index = i
           /\ job'[t].generation \in 0..(Generations - 1)
           /\ slot'[i].generation = None
           /\ slot[1 - i].generation # None =>
                job'[t].generation = (slot[1 - i].generation + 1) % Generations
           /\ job'[t].step \in {"admit", "commit"} => slot'[i].show = job[t].show,
         job'[t].step = "play" => SavedShow' = job[t].show,
         UNCHANGED <<playback, upload>>
  PROVE  Show'
<1>0. /\ job \in [Tasks -> Job \cup {None}]
      /\ UploadInv /\ SlotInv /\ PlayingIsSaved
      /\ playback \in Shows \cup {None} /\ upload \in Tasks \cup {None}
  BY DEF ShowInv, TypeOK
<1>1. /\ t \in Workers /\ job[Main] = None
      /\ \A u \in Tasks \ {t} : job[u] # None => job[u].step = "begin"
  BY OnlyUpload DEF Bytes, Writing
<1>2. playback = None
  BY <1>0 DEF UploadInv, HasBytes, Bytes, Writing
<1>3. job'[Main] = None
  BY <1>1, ControllerAssumption DEF Workers, ControllerAssumption
<1>4. upload = t
  BY <1>0, <1>1 DEF UploadInv, Bytes, Writing
<1>5. UploadInv'
  BY <1>0, <1>1, <1>2, <1>3, <1>4 DEF UploadInv, HasBytes, Workers
<1>6. 1 - i \in Index \ {i}
  BY DEF Index
<1>7. \A k \in Index : slot'[k].generation # None => slot'[k].show \in Shows
  BY <1>0 DEF SlotInv
<1>8. SlotInv'
  BY <1>0, <1>1, <1>6, <1>7 DEF SlotInv, At, Writing
<1> QED
  BY <1>0, <1>2, <1>5, <1>8 DEF Show, PlayingIsSaved

\* A commit makes its show the one that a restart restores.
LEMMA CommitSaves ==
  ASSUME ShowInv, NEW t \in Tasks, At(t, "commit"), Commits(t)
  PROVE  SavedShow' = job[t].show
<1> DEFINE i == job[t].index
<1>1. /\ slot \in [Index -> Slot]
      /\ i \in Index /\ job[t].generation \in 0..(Generations - 1)
      /\ slot[1 - i].generation # None =>
           job[t].generation = (slot[1 - i].generation + 1) % Generations
      /\ slot[i].show = job[t].show
  BY DEF ShowInv, TypeOK, SlotInv, Writing, At
<1>2. 1 - i \in Index \ {i}
  BY <1>1 DEF Index
<1>3. /\ slot' \in [Index -> Slot] /\ slot'[i].generation = job[t].generation
      /\ slot'[i].show = job[t].show /\ slot'[1 - i] = slot[1 - i]
  <2>1. slot' = [slot EXCEPT ![i].generation = job[t].generation]
    BY DEF Commits
  <2> QED
    BY <1>1, <1>2, <2>1, SlotMoves
<1>4. slot'[i].generation # None
  BY <1>1, <1>3, ControllerAssumption DEF ControllerAssumption
<1>5. slot'[1 - i].generation # None =>
        /\ Newer(slot'[i].generation, slot'[1 - i].generation)
        /\ ~Newer(slot'[1 - i].generation, slot'[i].generation)
  <2>1. slot'[1 - i].generation # None =>
          /\ slot'[1 - i].generation \in 0..(Generations - 1)
          /\ slot'[i].generation = (slot'[1 - i].generation + 1) % Generations
    BY <1>1, <1>2, <1>3 DEF Slot
  <2> HIDE DEF i
  <2> QED
    BY <2>1, NextIsNewer
<1>6. Latest' = i
  BY <1>1, <1>2, <1>4, <1>5 DEF Latest, Committed, Index
<1> QED
  BY <1>1, <1>3, <1>6, ControllerAssumption
  DEF SavedShow, Index, ControllerAssumption

\* The steps on the flash.
LEMMA FlashShow ==
  ASSUME ShowInv, NEW t \in Tasks,
         EraseHeader(t) \/ EraseData(t) \/ AppendData(t) \/ Commit(t)
  PROVE  Show'
<1>0. /\ job \in [Tasks -> Job \cup {None}] /\ slot \in [Index -> Slot]
      /\ UploadInv /\ SlotInv
  BY DEF ShowInv, TypeOK
<1>1. CASE EraseHeader(t)
  <2> DEFINE j == [step |-> "erase", show |-> job[t].show, index |-> NextIndex,
                   generation |-> NextGeneration]
  <2>1. job[t] # None /\ job[t].step = "access" /\ job[t].show # None
    BY <1>1 DEF EraseHeader, At
  <2>2. /\ NextIndex \in Index
        /\ NextGeneration \in 0..(Generations - 1)
        /\ slot[1 - NextIndex].generation # None =>
             NextGeneration = (slot[1 - NextIndex].generation + 1) % Generations
    BY <1>0, NextSlot
  <2>3. job[t] \in Job
    BY <1>0, <2>1
  <2>4. j \in Job /\ j # None
    BY <2>2, <2>3, JobAssumption DEF Job, JobAssumption
  <2>5. /\ slot' \in [Index -> Slot] /\ slot'[NextIndex].generation = None
        /\ \A k \in Index \ {NextIndex} : slot'[k] = slot[k]
    BY <1>0, <1>1, <2>2, SlotMoves DEF EraseHeader
  <2>6. job' = [job EXCEPT ![t] = j] /\ UNCHANGED <<playback, upload>>
    BY <1>1 DEF EraseHeader
  <2>7. job'[t] = j /\ job' \in [Tasks -> Job \cup {None}]
        /\ \A u \in Tasks \ {t} : job'[u] = job[u]
    BY <1>0, <2>4, <2>6
  <2>8. /\ j.step = "erase" /\ j.show = job[t].show /\ j.index = NextIndex
        /\ j.generation = NextGeneration
    OBVIOUS
  <2> HIDE DEF j
  <2> QED
    BY <2>1, <2>2, <2>4, <2>5, <2>6, <2>7, <2>8, WriteShow DEF Bytes, JobStep, Writing
<1>2. ASSUME EraseData(t) \/ AppendData(t) \/ Commit(t)
      PROVE  Show'
  <2> DEFINE i == job[t].index
  <2>1. job[t] # None /\ job[t].step \in {"erase", "append", "commit"}
        /\ job[t] \in Job
    BY <1>0, <1>2 DEF EraseData, AppendData, Commit, Goes, At
  <2>2. job[t].show # None /\ job[t].show \in Shows
    BY <1>0, <2>1 DEF UploadInv, Job
  <2>3. /\ i \in Index /\ slot[i].generation = None
        /\ job[t].generation \in 0..(Generations - 1)
        /\ slot[1 - i].generation # None =>
             job[t].generation = (slot[1 - i].generation + 1) % Generations
        /\ job[t].step = "commit" => slot[i].show = job[t].show
    BY <1>0, <2>1 DEF SlotInv, Writing
  <2>4. UNCHANGED <<playback, upload>>
    BY <1>2 DEF EraseData, AppendData, Commit
  <2>5. CASE EraseData(t) \/ AppendData(t)
    <3>1. PICK to2 \in {"append", "admit"} : Goes(t, job[t].step, to2)
            /\ (to2 = "append" => slot' = [slot EXCEPT ![i].show = Partial])
            /\ (to2 = "admit" => slot' = [slot EXCEPT ![i].show = job[t].show])
      BY <2>5 DEF EraseData, AppendData, Goes, At
    <3>2. /\ job' \in [Tasks -> Job \cup {None}] /\ job'[t] # None
          /\ job'[t].step = to2 /\ job'[t].show = job[t].show
          /\ job'[t].index = job[t].index /\ job'[t].generation = job[t].generation
          /\ \A u \in Tasks \ {t} : job'[u] = job[u]
      BY <1>0, <2>1, <3>1, JobMoves DEF Goes, JobStep, Bytes, Writing
    <3>3. /\ slot' \in [Index -> Slot] /\ slot'[i].generation = None
          /\ \A k \in Index \ {i} : slot'[k] = slot[k]
          /\ to2 = "admit" => slot'[i].show = job[t].show
      BY <1>0, <2>2, <2>3, <3>1, SlotMoves
    <3> HIDE DEF i
    <3>4. job[t].index = i
      BY DEF i
    <3> QED
      BY <2>1, <2>2, <2>3, <2>4, <3>2, <3>3, <3>4, WriteShow
      DEF Bytes, JobStep, Writing
  <2>6. CASE Commit(t)
    <3>1. Goes(t, "commit", "play") /\ job[t].step = "commit"
          /\ slot' = [slot EXCEPT ![i].generation = job[t].generation]
      BY <2>6 DEF Commit, Goes, At, Commits
    <3>2. /\ job' \in [Tasks -> Job \cup {None}] /\ job'[t] # None
          /\ job'[t].step = "play" /\ job'[t].show = job[t].show
          /\ \A u \in Tasks \ {t} : job'[u] = job[u]
      BY <1>0, <2>1, <3>1, JobMoves DEF Goes, JobStep, Bytes, Writing
    <3>3. /\ slot' \in [Index -> Slot] /\ slot'[i].generation = job[t].generation
          /\ slot'[i].show = job[t].show
          /\ \A k \in Index \ {i} : slot'[k] = slot[k]
      BY <1>0, <2>3, <3>1, SlotMoves
    <3>4. SavedShow' = job[t].show
      BY <2>6, CommitSaves DEF Commit, Goes
    <3> HIDE DEF i
    <3> QED
      BY <2>1, <2>2, <2>3, <2>4, <3>2, <3>3, <3>4, WriteShow
      DEF Bytes, JobStep, Writing
  <2> QED
    BY <1>2, <2>5, <2>6
<1> QED
  BY <1>1, <1>2
\* Every step of a request.
LEMMA HandlesShow ==
  ASSUME ShowInv, NEW t \in Tasks, Handles(t)
  PROVE  Show'
<1>0. /\ slot \in [Index -> Slot] /\ playback \in Shows \cup {None}
      /\ upload \in Tasks \cup {None} /\ job \in [Tasks -> Job \cup {None}]
      /\ UploadInv /\ SlotInv /\ PlayingIsSaved
  BY DEF ShowInv, TypeOK
<1>1. CASE RefuseLength(t)
  <2>1. Goes(t, "stop", "end") /\ UNCHANGED <<slot, playback, upload>>
    BY <1>1 DEF RefuseLength
  <2>2. job[t].show # None
    BY <1>0, <2>1 DEF UploadInv, Goes, At
  <2> QED
    BY <1>0, <2>1, <2>2, QuietShow DEF Show, JobStep, Bytes, Writing
<1>2. CASE StopPlayback(t)
  <2>1. job[t] # None /\ job[t].step = "stop" /\ Continues(t, "receive")
        /\ playback' = None /\ UNCHANGED <<slot, upload>>
    BY <1>2 DEF StopPlayback, Goes, At
  <2>2. /\ job' \in [Tasks -> Job \cup {None}] /\ job'[t] # None
        /\ job'[t].step = "receive" /\ job'[t].show = job[t].show
        /\ \A u \in Tasks \ {t} : job'[u] = job[u]
    BY <1>0, <2>1, JobMoves DEF JobStep, Bytes
  <2>3. job[t].show # None
    BY <1>0, <2>1 DEF UploadInv
  <2>4. t \in Workers /\ job[Main] = None /\ upload = t
    BY <1>0, <2>1, <2>3, OnlyUpload DEF UploadInv
  <2>5. UploadInv'
    BY <1>0, <2>1, <2>2, <2>3, <2>4, ControllerAssumption
    DEF UploadInv, HasBytes, Workers, ControllerAssumption
  <2>6. SavedShow' = SavedShow
    BY <2>1, SavedSame
  <2>7. SlotInv'
    BY <1>0, <2>1, <2>2, <2>6 DEF SlotInv, At, Writing
  <2> QED
    BY <1>0, <2>1, <2>2, <2>5, <2>7 DEF Show, PlayingIsSaved
<1>3. CASE Receive(t)
  <2>1. PICK to \in {"access", "end"} : Goes(t, "receive", to)
    BY <1>3 DEF Receive
  <2>2. job[t].show # None
    BY <1>0, <2>1 DEF UploadInv, Goes, At
  <2> QED
    BY <1>0, <1>3, <2>1, <2>2, QuietShow DEF Receive, Show, JobStep, Bytes, Writing
<1>4. CASE \/ AskForStorage(t) \/ Unlock(t)
           \/ (Drained(t) \/ Asks(t) \/ Granted(t))
              /\ UNCHANGED <<slot, playback, upload, job>>
  <2>1. UNCHANGED <<slot, playback, upload, job>>
    BY <1>4 DEF AskForStorage, Unlock
  <2> QED
    BY <1>0, <2>1, SameShow DEF Show
<1>5. CASE EraseHeader(t) \/ EraseData(t) \/ AppendData(t) \/ Commit(t)
  BY <1>5, FlashShow
<1>6. CASE Admit(t)
  <2>1. PICK to \in {"commit", "reply"} : Goes(t, "admit", to)
    BY <1>6 DEF Admit
  <2>2. job[t].show # None
    BY <1>0, <2>1 DEF UploadInv, Goes, At
  <2> QED
    BY <1>0, <1>6, <2>1, <2>2, QuietShow DEF Admit, Show, JobStep, Bytes, Writing
<1>7. CASE FlashFails(t)
  <2>1. PICK from \in {"access", "erase", "append", "commit"} :
          Goes(t, from, "reply")
    BY <1>7 DEF FlashFails
  <2>2. job[t] # None /\ job[t].step = from /\ UNCHANGED <<playback, upload>>
    BY <1>7, <2>1 DEF FlashFails, Goes, At
  <2>3. CASE UNCHANGED slot
    BY <1>0, <2>1, <2>2, <2>3, QuietShow DEF Show, JobStep, Bytes, Writing
  <2>4. CASE ~UNCHANGED slot
    <3>1. job[t].show # None /\ job[t].show \in Shows
      BY <1>0, <1>7, <2>2, <2>4 DEF FlashFails, UploadInv, At, Job
    <3>2. /\ job' \in [Tasks -> Job \cup {None}] /\ job'[t] # None
          /\ job'[t].step = "reply" /\ job'[t].show = job[t].show
          /\ \A u \in Tasks \ {t} : job'[u] = job[u]
      BY <1>0, <2>1, <2>2, JobMoves DEF Goes, JobStep
    <3>3. PICK i \in Index :
            /\ slot' \in [Index -> Slot]
            /\ \A k \in Index \ {i} : slot'[k] = slot[k]
            /\ slot'[i].generation # None => slot'[i].show \in Shows
      <4>1. CASE from = "access"
        <5>1. NextIndex \in Index
          BY <1>0, NextSlot
        <5>2. slot' = [slot EXCEPT ![NextIndex].generation = None]
          BY <1>7, <2>2, <2>4, <4>1 DEF FlashFails, At
        <5> QED
          BY <1>0, <5>1, <5>2, SlotMoves
      <4>2. CASE from = "append"
        BY <1>7, <2>2, <2>4, <4>2 DEF FlashFails, At
      <4>3. CASE from \in {"erase", "commit"}
        <5>1. /\ job[t].index \in Index /\ slot[job[t].index].generation = None
              /\ job[t].generation \in 0..(Generations - 1)
              /\ from = "commit" => slot[job[t].index].show = job[t].show
          BY <1>0, <2>2, <4>3 DEF SlotInv, Writing
        <5>2. \/ slot' = [slot EXCEPT ![job[t].index].show = Partial]
              \/ /\ from = "commit"
                 /\ slot' = [slot EXCEPT ![job[t].index].generation = job[t].generation]
          BY <1>7, <2>2, <2>4, <4>3 DEF FlashFails, At, Commits
        <5> QED
          BY <1>0, <3>1, <5>1, <5>2, SlotMoves
      <4> QED
        BY <4>1, <4>2, <4>3
    <3> QED
      BY <2>2, <3>1, <3>2, <3>3, WriteShow DEF Bytes, JobStep, Writing
  <2> QED
    BY <2>3, <2>4
<1>8. CASE Play(t)
  <2>1. job[t] # None /\ job[t].step = "play" /\ Continues(t, "reply")
        /\ playback' = job[t].show /\ UNCHANGED <<slot, upload>>
    BY <1>8 DEF Play, Goes, At
  <2>2. /\ job' \in [Tasks -> Job \cup {None}] /\ job'[t] # None
        /\ job'[t].step = "reply" /\ job'[t].show = job[t].show
        /\ \A u \in Tasks \ {t} : job'[u] = job[u]
    BY <1>0, <2>1, JobMoves DEF JobStep
  <2>3. job[t].show # None /\ job[t].show \in Shows
    BY <1>0, <2>1 DEF UploadInv, Job
  <2>4. /\ t \in Workers /\ job[Main] = None /\ upload = t
        /\ \A u \in Tasks \ {t} : job[u] # None => job[u].step = "begin"
    BY <1>0, <2>1, <2>3, OnlyUpload DEF UploadInv
  <2>5. UploadInv'
    BY <1>0, <2>1, <2>2, <2>3, <2>4, ControllerAssumption
    DEF UploadInv, HasBytes, Workers, ControllerAssumption
  <2>6. SavedShow' = SavedShow /\ SavedShow = job[t].show
    BY <1>0, <2>1, SavedSame DEF SlotInv, At
  <2>7. SlotInv'
    BY <1>0, <2>1, <2>2, <2>6 DEF SlotInv, At, Writing
  <2> QED
    BY <1>0, <2>1, <2>2, <2>3, <2>5, <2>6, <2>7 DEF Show, PlayingIsSaved
<1>9. CASE SaveConfig(t)
  BY <1>0, <1>9, QuietShow DEF SaveConfig, Show, JobStep, Bytes, Writing
<1>10. CASE RestoreShow(t)
  <2>1. job[t] # None /\ job[t].step = "access" /\ Continues(t, "reply") /\ t = Main
        /\ playback' \in (IF SavedShow = None THEN {playback} ELSE {SavedShow, None})
        /\ UNCHANGED <<slot, upload>>
    BY <1>10 DEF RestoreShow, Goes, At
  <2>2. /\ job' \in [Tasks -> Job \cup {None}] /\ job'[t] # None
        /\ job'[t].step = "reply" /\ job'[t].show = job[t].show
        /\ \A u \in Tasks \ {t} : job'[u] = job[u]
    BY <1>0, <2>1, JobMoves DEF JobStep
  <2>3. UploadInv'
    BY <1>0, <2>1, <2>2 DEF UploadInv, HasBytes, Workers
  <2>4. SavedShow' = SavedShow
    BY <2>1, SavedSame
  <2>5. SlotInv'
    BY <1>0, <2>1, <2>2, <2>4 DEF SlotInv, At, Writing
  <2>6. SavedShow \in Shows \cup {None}
    BY <1>0 DEF SlotInv, SavedShow, Latest, Committed, Index
  <2> QED
    BY <1>0, <2>1, <2>2, <2>3, <2>4, <2>5, <2>6 DEF Show, PlayingIsSaved
<1>11. CASE Reply(t)
  BY <1>0, <1>11, QuietShow DEF Reply, Show, JobStep, Bytes, Writing
<1>12. CASE Finish(t)
  <2>1. /\ job' = [job EXCEPT ![t] = None] /\ UNCHANGED <<slot, playback>>
        /\ upload' = IF upload = t THEN None ELSE upload
        /\ job[t] # None
    BY <1>12 DEF Finish, At
  <2>2. upload = t => t \in Workers
    BY <1>0, <2>1, StoragePauseAssumption
    DEF UploadInv, Workers, StoragePauseAssumption
  <2>3. upload' \in Tasks \cup {None}
    BY <1>0, <2>1
  <2>4. /\ job' \in [Tasks -> Job \cup {None}]
        /\ UploadInv' /\ SlotInv' /\ PlayingIsSaved'
    BY <2>1, <2>2, JobEnds
  <2> QED
    BY <1>0, <2>1, <2>3, <2>4 DEF Show
<1> QED
  BY <1>1, <1>2, <1>3, <1>4, <1>5, <1>6, <1>7, <1>8, <1>9, <1>10, <1>11, <1>12
  DEF Handles

\* A new request, the gate, the mutex and the power.
LEMMA StartShow ==
  ASSUME ShowInv, NEW t \in Tasks,
         (\E show \in Shows : UploadShow(t, show)) \/ UpdateConfig(t) \/ TakeGate(t) \/ Waits(t)
  PROVE  Show'
<1>0. /\ slot \in [Index -> Slot] /\ playback \in Shows \cup {None}
      /\ upload \in Tasks \cup {None} /\ job \in [Tasks -> Job \cup {None}]
      /\ UploadInv /\ SlotInv /\ PlayingIsSaved
  BY DEF ShowInv, TypeOK
<1>1. CASE (\E show \in Shows : UploadShow(t, show)) \/ UpdateConfig(t)
  <2>1. PICK asked \in Shows \cup {None} :
          job' = [job EXCEPT ![t] = NewJob("begin", asked)]
    BY <1>1 DEF UploadShow, UpdateConfig
  <2> DEFINE j == NewJob("begin", asked)
  <2>2. j \in Job /\ j.step = "begin"
    BY DEF NewJob, Job
  <2>3. /\ job[Main] = None /\ t \in Workers /\ job[t] = None
        /\ UNCHANGED <<slot, playback, upload>>
    BY <1>1 DEF UploadShow, UpdateConfig, Booted
  <2>4. job' = [job EXCEPT ![t] = j]
    BY <2>1, <2>2
  <2> HIDE DEF j
  <2>5. /\ job' \in [Tasks -> Job \cup {None}]
        /\ UploadInv' /\ SlotInv' /\ PlayingIsSaved'
    BY <2>2, <2>3, <2>4, JobBegins
  <2> QED
    BY <1>0, <2>3, <2>5 DEF Show
<1>2. CASE TakeGate(t)
  <2>1. PICK to \in {"access", "stop"} :
          /\ Continues(t, to)
          /\ to = IF job[t].show = None THEN "access" ELSE "stop"
    BY <1>2 DEF TakeGate
  <2>2. job[t] # None /\ job[t].step = "begin" /\ upload = None /\ upload' = t
        /\ UNCHANGED <<slot, playback>>
    BY <1>2 DEF TakeGate, At
  <2>3. /\ job' \in [Tasks -> Job \cup {None}] /\ job'[t] # None
        /\ job'[t].step = to /\ job'[t].show = job[t].show
        /\ \A u \in Tasks \ {t} : job'[u] = job[u]
    BY <1>0, <2>1, <2>2, JobMoves DEF JobStep, Bytes
  <2>4. job[Main] = None
    BY <1>0, <2>2, ControllerAssumption
    DEF UploadInv, Workers, ControllerAssumption
  <2>5. \A u \in Workers \ {t} : job[u] # None => job[u].step = "begin"
    BY <1>0, <2>2, StoragePauseAssumption
    DEF UploadInv, Workers, StoragePauseAssumption
  <2>6. t \in Workers /\ job'[Main] = None
    BY <2>2, <2>3, <2>4, ControllerAssumption DEF Workers, ControllerAssumption
  <2>7. UploadInv'
    BY <1>0, <2>1, <2>2, <2>3, <2>5, <2>6 DEF UploadInv, HasBytes, Workers
  <2>8. SavedShow' = SavedShow
    BY <2>2, SavedSame
  <2>9. SlotInv'
    BY <1>0, <2>1, <2>2, <2>3, <2>8 DEF SlotInv, At, Writing
  <2> QED
    BY <1>0, <2>2, <2>3, <2>7, <2>8, <2>9 DEF Show, PlayingIsSaved
<1>3. CASE Waits(t)
  BY <1>0, <1>3, SameShow DEF Waits, Show
<1> QED
  BY <1>1, <1>2, <1>3

\* The power goes: the slots stay, the RAM does not.
LEMMA RestartShow == ShowInv /\ Restart => Show'
<1> SUFFICES ASSUME ShowInv, Restart PROVE Show'
  OBVIOUS
<1>1. NewJob("access", None) \in Job
  BY DEF NewJob, Job
<1>2. /\ job' \in [Tasks -> Job \cup {None}]
      /\ \A t \in Tasks : job'[t] # None =>
           t = Main /\ job'[t].step = "access" /\ job'[t].show = None
  BY <1>1 DEF Restart, Restoring, NewJob
<1>3. /\ slot' = slot /\ playback' = None /\ upload' = None
  BY DEF Restart
<1>4. UploadInv'
  BY <1>2, <1>3, ControllerAssumption
  DEF UploadInv, HasBytes, Workers, ControllerAssumption
<1>5. SlotInv'
  BY <1>2, <1>3 DEF SlotInv, At, Writing, ShowInv
<1> QED
  BY <1>2, <1>3, <1>4, <1>5 DEF Show, ShowInv, TypeOK, PlayingIsSaved

\* The invariant is inductive.
LEMMA ShowStep == ShowInv /\ [Next]_vars => ShowInv'
<1> SUFFICES ASSUME ShowInv, [Next]_vars PROVE ShowInv'
  OBVIOUS
<1>1. PauseTypeOK'
  BY PauseStep, TypeStep DEF ShowInv, TypeOK
<1>2. Show'
  <2>1. ASSUME NEW t \in Tasks, UpdateConfig(t) \/ TakeGate(t) \/ Waits(t)
        PROVE  Show'
    BY <2>1, StartShow
  <2>2. ASSUME NEW t \in Tasks, NEW show \in Shows, UploadShow(t, show)
        PROVE  Show'
    BY <2>2, StartShow
  <2>3. ASSUME NEW t \in Tasks, Handles(t)
        PROVE  Show'
    BY <2>3, HandlesShow
  <2>4. CASE Renders \/ UNCHANGED vars
    <3>1. UNCHANGED <<slot, playback, upload, job>>
      BY <2>4 DEF Renders, vars
    <3> QED
      BY <3>1, SameShow DEF Show, ShowInv, TypeOK
  <2>5. CASE Restart
    BY <2>5, RestartShow
  <2> QED
    BY <2>1, <2>2, <2>3, <2>4, <2>5 DEF Next
<1> QED
  BY <1>1, <1>2 DEF ShowInv, Show, TypeOK
\* What is in RAM, at the gate and in the slots holds together throughout.
THEOREM ShowInvariance == Spec => []ShowInv
<1>1. Init => ShowInv
  BY InitShow
<1>2. ShowInv /\ [Next]_vars => ShowInv'
  BY ShowStep
<1> QED
  BY <1>1, <1>2, PTL DEF Spec
-----------------------------------------------------------------------------
\* However many tasks, shows and generations there are, the controller's state
\* keeps its types.
THEOREM ControllerTypeCorrect == Spec => []TypeOK
<1>1. ShowInv => TypeOK
  BY DEF ShowInv
<1> QED
  BY <1>1, ShowInvariance, PTL

\* The show that plays is the one a restart brings back: wherever the power went,
\* whichever flash call failed, and after any number of uploads.
THEOREM PlayingShowIsSaved == Spec => []PlayingIsSaved
<1>1. ShowInv => PlayingIsSaved
  BY DEF ShowInv
<1> QED
  BY <1>1, ShowInvariance, PTL

\* At most one show is in the controller's memory.
THEOREM MemoryHoldsOneShow == Spec => []OneShowInMemory
<1>1. ASSUME ShowInv PROVE OneShowInMemory
  <2> DEFINE S == {t \in Tasks : HasBytes(t)}
  <2>1. S = {} => Cardinality(S) = 0
    BY FS_EmptySet
  <2>2. \A t \in S : S = {t} /\ playback = None
    <3> SUFFICES ASSUME NEW t \in S PROVE S = {t} /\ playback = None
      OBVIOUS
    <3>1. HasBytes(t) /\ playback = None
      BY <1>1 DEF ShowInv, UploadInv
    <3>2. \A u \in Tasks \ {t} : ~HasBytes(u)
      BY <1>1, <3>1, OnlyUpload DEF HasBytes
    <3> QED
      BY <3>1, <3>2
  <2>3. \A t \in S : Cardinality(S) = 1
    BY <2>2, FS_Singleton
  <2> HIDE DEF S
  <2>4. Cardinality(S) + (IF playback = None THEN 0 ELSE 1) <= 1
    <3>1. CASE S = {}
      BY <2>1, <3>1
    <3>2. CASE S # {}
      <4>1. PICK t \in S : TRUE
        BY <3>2
      <4> QED
        BY <2>2, <2>3, <4>1
    <3> QED
      BY <3>1, <3>2
  <2> QED
    BY <2>4 DEF S, OneShowInMemory
<1> QED
  BY <1>1, ShowInvariance, PTL
-----------------------------------------------------------------------------
(***************************************************************************)
(* What a restart would restore.                                           *)
(***************************************************************************)
\* Writing a slot that is not committed does not change it.
LEMMA UncommittedSame ==
  ASSUME NEW i \in Index, slot[1 - i] = slot'[1 - i],
         slot[i].generation = None, slot'[i].generation = None
  PROVE  SavedShow' = SavedShow
<1>1. Latest' = Latest /\ Latest # i
  BY ControllerAssumption DEF Latest, Committed, Index, ControllerAssumption
<1>2. Latest \in {1 - i, None}
  BY <1>1 DEF Latest, Index
<1> QED
  BY <1>1, <1>2 DEF SavedShow

\* Nor does it to choose the slot to write, and to erase its header.
LEMMA ChoosingSame ==
  ASSUME slot \in [Index -> Slot],
         slot' = [slot EXCEPT ![NextIndex].generation = None]
  PROVE  SavedShow' = SavedShow
<1> DEFINE i == NextIndex
<1>0. /\ Latest \in Index \cup {None} /\ None \notin Index
      /\ Latest = None => \A k \in Index : slot[k].generation = None
      /\ Latest # None => slot[Latest].generation # None
  BY ControllerAssumption DEF Latest, Committed, Index, ControllerAssumption
<1>1. /\ i \in Index /\ 1 - i \in Index \ {i} /\ Latest \in {1 - i, None}
  BY <1>0 DEF NextIndex, Index
<1>2. slot'[i].generation = None /\ slot'[1 - i] = slot[1 - i]
  BY <1>1, SlotMoves
<1>3. \A k \in Index : Committed(k)' <=> k = Latest
  <2>1. slot'[1 - i].generation # None <=> Latest = 1 - i
    BY <1>0, <1>1, <1>2
  <2>2. Index = {i, 1 - i} /\ i # Latest
    BY <1>0, <1>1 DEF Index
  <2> HIDE DEF i
  <2> QED
    BY <1>2, <2>1, <2>2 DEF Committed
<1>4. Latest' = Latest
  BY <1>0, <1>3 DEF Latest, Index
<1> QED
  BY <1>1, <1>2, <1>4 DEF SavedShow

\* A failing flash call commits its show, or changes nothing that is restored.
LEMMA FailingSaves ==
  ASSUME ShowInv, NEW t \in Tasks, FlashFails(t)
  PROVE  \/ SavedShow' = SavedShow
         \/ At(t, "commit") /\ SavedShow' = job[t].show
<1>1. slot \in [Index -> Slot]
  BY DEF ShowInv, TypeOK
<1>2. CASE UNCHANGED slot
  BY <1>2, SavedSame
<1>3. CASE slot' = [slot EXCEPT ![NextIndex].generation = None]
  BY <1>1, <1>3, ChoosingSame
<1>4. CASE At(t, "erase") /\ slot' = [slot EXCEPT ![job[t].index].show = Partial]
  <2>1. job[t].index \in Index /\ slot[job[t].index].generation = None
    BY <1>4 DEF ShowInv, SlotInv, Writing, At
  <2>2. 1 - job[t].index \in Index \ {job[t].index}
    BY <2>1 DEF Index
  <2> QED
    BY <1>1, <1>4, <2>1, <2>2, SlotMoves, UncommittedSame
<1>5. CASE At(t, "commit") /\ Commits(t)
  BY <1>5, CommitSaves
<1> QED
  BY <1>2, <1>3, <1>4, <1>5 DEF FlashFails

\* Nothing else that a request does changes what is restored, but its commit.
LEMMA HandlesSaves ==
  ASSUME ShowInv, NEW t \in Tasks, Handles(t)
  PROVE  \/ SavedShow' = SavedShow
         \/ At(t, "commit") /\ SavedShow' = job[t].show
<1>1. slot \in [Index -> Slot] /\ SlotInv /\ UploadInv
      /\ job \in [Tasks -> Job \cup {None}]
  BY DEF ShowInv, TypeOK
<1>2. CASE EraseHeader(t)
  BY <1>1, <1>2, ChoosingSame DEF EraseHeader
<1>3. CASE EraseData(t) \/ AppendData(t)
  <2> DEFINE i == job[t].index
  <2>1. /\ job[t] # None /\ job[t].step \in {"erase", "append"}
        /\ \E show \in {Partial, job[t].show} : slot' = [slot EXCEPT ![i].show = show]
    BY <1>3 DEF EraseData, AppendData, Goes, At
  <2>2. i \in Index /\ slot[i].generation = None /\ job[t].show \in Shows
    BY <1>1, <2>1 DEF SlotInv, UploadInv, Writing, Job
  <2>3. 1 - i \in Index \ {i}
    BY <2>2 DEF Index
  <2>4. slot'[i].generation = None /\ slot'[1 - i] = slot[1 - i]
    BY <1>1, <2>1, <2>2, <2>3, SlotMoves
  <2> HIDE DEF i
  <2> QED
    BY <2>2, <2>4, UncommittedSame
<1>4. CASE Commit(t)
  BY <1>4, CommitSaves DEF Commit, Goes
<1>5. CASE FlashFails(t)
  BY <1>5, FailingSaves
<1>6. CASE UNCHANGED slot
  BY <1>6, SavedSame
<1> QED
  BY <1>2, <1>3, <1>4, <1>5, <1>6
  DEF Handles, RefuseLength, StopPlayback, Receive, AskForStorage, Admit, Play,
      SaveConfig, RestoreShow, Reply, Unlock, Finish

\* A commit that is reported was made.
LEMMA ReportedSaves ==
  ASSUME ShowInv, [Next]_vars, NEW t \in Tasks, At(t, "commit"), At(t, "play")'
  PROVE  SavedShow' = job[t].show
<1>1. job \in [Tasks -> Job \cup {None}] /\ job[t] # None /\ job[t].step = "commit"
      /\ job'[t] # None /\ job'[t].step = "play"
  BY DEF ShowInv, TypeOK, At
<1>2. ASSUME NEW u \in Tasks, NEW from, NEW to \in JobStep, Goes(u, from, to)
      PROVE  u = t /\ to = "play"
  BY <1>1, <1>2, JobMoves DEF Goes, At
<1>3. job' # job
  BY <1>1
<1>4. ASSUME NEW u \in Tasks, NEW j, job' = [job EXCEPT ![u] = j], j = None \/ j.step # "play"
      PROVE  FALSE
  BY <1>1, <1>4
<1>5. ASSUME NEW u \in Tasks, Handles(u)
      PROVE  Commit(t)
  <2>1. ~EraseHeader(u) /\ ~Finish(u)
    BY <1>4 DEF EraseHeader, Finish
  <2>2. ~RefuseLength(u) /\ ~StopPlayback(u) /\ ~Receive(u) /\ ~EraseData(u)
    BY <1>2 DEF RefuseLength, StopPlayback, Receive, EraseData, JobStep, Bytes, Writing
  <2>3. ~AppendData(u) /\ ~Admit(u) /\ ~FlashFails(u) /\ ~Play(u)
    BY <1>2 DEF AppendData, Admit, FlashFails, Play, JobStep, Bytes, Writing
  <2>4. ~SaveConfig(u) /\ ~RestoreShow(u) /\ ~Reply(u)
    BY <1>2 DEF SaveConfig, RestoreShow, Reply, JobStep, Bytes, Writing
  <2>5. CASE Commit(u)
    BY <1>2, <2>5 DEF Commit, JobStep, Bytes
  <2> QED
    BY <1>3, <1>5, <2>1, <2>2, <2>3, <2>4, <2>5 DEF Handles, AskForStorage, Unlock
<1>6. ASSUME NEW u \in Tasks, UpdateConfig(u) \/ \E show \in Shows : UploadShow(u, show)
      PROVE  FALSE
  BY <1>4, <1>6 DEF UpdateConfig, UploadShow, NewJob
<1>7. ASSUME NEW u \in Tasks, TakeGate(u)
      PROVE  FALSE
  <2>1. PICK to \in {"access", "stop"} : Goes(u, "begin", to)
    BY <1>7 DEF TakeGate, Goes
  <2> QED
    BY <1>2, <2>1 DEF JobStep, Bytes
<1>8. ~Restart
  BY <1>1 DEF Restart, Restoring, NewJob
<1>9. ~Renders /\ ~UNCHANGED vars /\ \A u \in Tasks : ~Waits(u)
  BY <1>3 DEF Renders, vars, Waits
<1>10. Commit(t)
  BY <1>5, <1>6, <1>7, <1>8, <1>9 DEF Next
<1> QED
  BY <1>10, CommitSaves DEF Commit

\* What a restart would restore changes only when an admitted show is committed,
\* and to that show, and every commit that is reported changed it: wherever the
\* power goes, whichever flash call fails, and however often generations wrap.
THEOREM CommittedShowSurvives == Spec => OnlyCommitReplaces
<1> DEFINE Replaces ==
      /\ SavedShow' # SavedShow =>
           \E t \in Tasks : At(t, "commit") /\ SavedShow' = job[t].show
      /\ \A t \in Tasks : At(t, "commit") /\ At(t, "play")' =>
           SavedShow' = job[t].show
<1>1. ShowInv /\ [Next]_vars => [Replaces]_vars
  <2> SUFFICES ASSUME ShowInv, [Next]_vars
               PROVE  Replaces
    OBVIOUS
  <2>1. ASSUME NEW t \in Tasks,
               \/ UpdateConfig(t) \/ TakeGate(t) \/ Waits(t)
               \/ \E show \in Shows : UploadShow(t, show)
        PROVE  UNCHANGED slot
    BY <2>1 DEF UpdateConfig, TakeGate, Waits, UploadShow
  <2>2. CASE Renders \/ Restart \/ UNCHANGED vars
    BY <2>2, SavedSame, ReportedSaves DEF Renders, Restart, vars
  <2>3. SavedShow' # SavedShow =>
          \E t \in Tasks : At(t, "commit") /\ SavedShow' = job[t].show
    BY <2>1, <2>2, SavedSame, HandlesSaves DEF Next
  <2> QED
    BY <2>3, ReportedSaves
<1> QED
  BY <1>1, ShowInvariance, PTL DEF Spec, OnlyCommitReplaces
=============================================================================
