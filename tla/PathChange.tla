------------------------------ MODULE PathChange ------------------------------
(***************************************************************************)
(* apply_path_change (crates/donder-project-io/src/path_refactor.rs): a    *)
(* file or directory of the project moves by way of a temporary directory, *)
(* and every document is written again as it means the same at the new     *)
(* path.  The second pass of SourceSave writes them; its first pass stands *)
(* for the reading of what they hold, and `expected` for what it will read.*)
(*                                                                         *)
(* A plain save is the case in which nothing moves.                        *)
(***************************************************************************)
EXTENDS SourceSave

CONSTANT Moved         \* the documents under the path that moves

ASSUME PathChangeAssumption == Moved \subseteq File

VARIABLES step,        \* the step of the change; "none" in a plain save
          place,       \* where the moved file or directory is
          told         \* the error says that it is not back where it was

path == <<step, place, told>>
allVars == <<vars, path>>

Final == {"applied", "refused", "died"}
Step == {"none", "stage", "move", "restore", "write"} \cup Final

PathTypeOK == /\ step \in Step
              /\ place \in {"source", "staged", "destination"}
              /\ told \in BOOLEAN
              /\ step \in {"none", "stage"} => place = "source"
              /\ step \in {"move", "restore"} => place = "staged"
              /\ step = "write" => place = "destination"

PathInit == /\ Init
            /\ place = "source" /\ told = FALSE
            /\ step \in {"none", "stage"}

Goes(to) == step' = to /\ UNCHANGED <<vars, place, told>>
Renames(to) == place' = to /\ UNCHANGED <<vars, told>>

\* source -> staged
Stage == step = "stage" /\ Renames("staged") /\ step' = "move"

StageFails == step = "stage" /\ Goes("refused")

\* staged -> destination
Move == step = "move" /\ Renames("destination") /\ step' = "write"

MoveFails == step = "move" /\ Goes("restore")

PutBack == step = "restore" /\ Renames("source") /\ step' = "refused"

PutBackFailsSilently == step = "restore" /\ Goes("refused")

\* The temporary directory is kept, and the error names it.
PutBackFails == /\ step = "restore"
                /\ step' = "refused"
                /\ told' = TRUE
                /\ UNCHANGED <<vars, place>>

\* The documents are read and replaced.
Writes == /\ step = "write"
          /\ \/ Verify \/ VerifyFails \/ Verified \/ Recheck \/ Write \/ Written
             \/ ReplaceFails \/ Restore \/ RestoreFails \/ Restored
          /\ UNCHANGED path

Applied == step = "write" /\ phase = "saved" /\ Goes("applied")

MoveBackFirst == /\ step = "write" /\ phase \in {"rollback", "failed"}
                 /\ Renames("source")
                 /\ step' = IF phase = "failed" THEN "refused" ELSE step

\* destination -> source, once the documents hold what they held
MoveBack == /\ step = "write" /\ phase = "failed"
            /\ Renames("source")
            /\ step' = "refused"

MoveBackFails == /\ step = "write" /\ phase = "failed"
                 /\ step' = "refused"
                 /\ told' = TRUE
                 /\ UNCHANGED <<vars, place>>

\* Other programs do not find what is staged.
Others == /\ \E f \in File, content \in ContentOrNone :
               /\ f \in Moved => place # "staged"
               /\ ExternalWrite(f, content)
          /\ UNCHANGED path

Dies == /\ step \notin Final \cup {"none"}
        /\ step' = "died"
        /\ IF Over THEN UNCHANGED vars ELSE Crash
        /\ UNCHANGED <<place, told>>

Saves == step = "none" /\ Next /\ UNCHANGED path

PathNext == \/ Stage \/ StageFails \/ Move \/ MoveFails \/ PutBack \/ PutBackFails
            \/ Writes \/ Applied \/ MoveBack \/ MoveBackFails
            \/ Others \/ Dies \/ Saves

PathSpec == PathInit /\ [][PathNext]_allVars
-----------------------------------------------------------------------------
(***************************************************************************)
(* Correctness.                                                            *)
(***************************************************************************)
Untouched == \A f \in File \ failures : Alone(f) => disk[f] = start[f]

\* A change is made whole or not at all: it reports success when the path moved
\* and every document says so; otherwise the path is where it was, or the error
\* tells that it is not, and the documents whose restore did not fail hold what
\* they held (docs/architecture.md: "a failed staging restore reports where the
\* original payload was kept").
ChangeIsWhole ==
  /\ step = "applied" => /\ place = "destination"
                         /\ \A f \in File : Alone(f) => disk[f] = wanted[f]
  /\ step = "refused" => (place = "source" \/ told) /\ Untouched

\* No document names the new path while the path is not there, even when the
\* process dies: the move comes before the documents, and their rollback before
\* the way back.  Documents whose own way back failed, which the error names, and
\* those other programs wrote are left out.
NewTextNeedsTheMove == step # "none" /\ place # "destination" => Untouched
=============================================================================
