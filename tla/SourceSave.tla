------------------------------ MODULE SourceSave ------------------------------
(***************************************************************************)
(* write_source_texts and replace_files                                    *)
(* (crates/donder-project-io/src/serialization/mod.rs): the two passes of  *)
(* one save over its files, in path order, while other programs write the  *)
(* same files, reads and writes fail and the process may die.              *)
(*                                                                         *)
(* Every step is one call on the file system: another program may come     *)
(* between the read that rechecks a file and the replacement.              *)
(* atomic_write replaces a file as a whole or leaves it alone.             *)
(***************************************************************************)
EXTENDS Integers

CONSTANTS N,           \* how many files the save writes
          Contents,    \* what a file may hold
          None         \* a file that does not exist

ASSUME SourceSaveAssumption == N \in Nat /\ None \notin Contents

File == 1..N
ContentOrNone == Contents \cup {None}

VARIABLES disk,
          expected, wanted,    \* SourceTextWrite.expected and .text
          phase, at,           \* the pass, and its file
          failures,            \* the files whose rollback failed
          start,               \* what the files held when the save began
          theirs,              \* the files other programs wrote since
          raced                \* one of them came after the recheck of `at`

asked == <<expected, wanted, start>>
vars == <<disk, asked, phase, at, failures, theirs, raced>>

Phase == {"verify", "recheck", "write", "rollback", "saved", "failed", "crashed"}
Over == phase \in {"saved", "failed", "crashed"}

TypeOK == /\ disk \in [File -> ContentOrNone]
          /\ expected \in [File -> ContentOrNone]
          /\ wanted \in [File -> Contents]
          /\ start \in [File -> ContentOrNone]
          /\ phase \in Phase
          /\ at \in 0..(N + 1)
          /\ phase = "write" => at \in File
          /\ phase = "rollback" => at \in 0..N
          /\ phase \in {"verify", "recheck"} => at # 0
          /\ failures \subseteq (at + 1)..N
          /\ phase \in {"verify", "recheck", "write"} => failures = {}
          /\ theirs \subseteq File
          /\ raced \in BOOLEAN

Init == /\ disk \in [File -> ContentOrNone]
        /\ expected \in [File -> ContentOrNone]
        /\ wanted \in [File -> Contents]
        /\ start = disk
        /\ phase = "verify" /\ at = 1
        /\ failures = {} /\ theirs = {} /\ raced = FALSE

\* Wrong variants of the steps stand before them, each the way a bug would make
\* it; the properties at the end must refute every one.

\* The first pass: every precondition, before anything is written.
Verify == /\ phase = "verify"
          /\ at \in File
          /\ disk[at] = expected[at]
          /\ at' = at + 1
          /\ UNCHANGED <<disk, asked, phase, failures, theirs, raced>>

\* A file that changed, or that cannot be read (which may be any).
VerifyFails == /\ phase = "verify"
               /\ at \in File
               /\ phase' = "failed"
               /\ UNCHANGED <<disk, asked, at, failures, theirs, raced>>

VerifiedInPlace == /\ phase = "verify"
                   /\ at = N + 1
                   /\ phase' = "recheck"
                   /\ UNCHANGED <<disk, asked, at, failures, theirs, raced>>

Verified == /\ phase = "verify"
            /\ at = N + 1
            /\ phase' = "recheck"
            /\ at' = 1
            /\ UNCHANGED <<disk, asked, failures, theirs, raced>>

\* The second pass reads each file again ...
Recheck == /\ phase = "recheck"
           /\ at \in File
           /\ disk[at] = expected[at]
           /\ phase' = "write"
           /\ raced' = FALSE
           /\ UNCHANGED <<disk, asked, at, failures, theirs>>

WriteSkipsNext == /\ phase = "write"
                  /\ disk' = [disk EXCEPT ![at] = wanted[at]]
                  /\ phase' = "recheck"
                  /\ at' = IF at < N - 1 THEN at + 2 ELSE at + 1
                  /\ UNCHANGED <<asked, failures, theirs, raced>>

\* ... and replaces it.
Write == /\ phase = "write"
         /\ disk' = [disk EXCEPT ![at] = wanted[at]]
         /\ phase' = "recheck"
         /\ at' = at + 1
         /\ UNCHANGED <<asked, failures, theirs, raced>>

Written == /\ phase = "recheck"
           /\ at = N + 1
           /\ phase' = "saved"
           /\ UNCHANGED <<disk, asked, at, failures, theirs, raced>>

\* The recheck or the replacement fails; the files before `at` were written.
ReplaceFails == /\ phase \in {"recheck", "write"}
                /\ at \in File
                /\ phase' = "rollback"
                /\ at' = at - 1
                /\ UNCHANGED <<disk, asked, failures, theirs, raced>>

\* Restore one written file, the last one first, without reading it.
Restore == /\ phase = "rollback"
           /\ at # 0
           /\ disk' = [disk EXCEPT ![at] = expected[at]]
           /\ at' = at - 1
           /\ UNCHANGED <<asked, phase, failures, theirs, raced>>

\* A rollback that stops at the first error.
RestoreFailsAndStops == /\ phase = "rollback"
                        /\ at # 0
                        /\ failures' = failures \cup {at}
                        /\ at' = 0
                        /\ UNCHANGED <<disk, asked, phase, theirs, raced>>

RestoreFails == /\ phase = "rollback"
                /\ at # 0
                /\ failures' = failures \cup {at}
                /\ at' = at - 1
                /\ UNCHANGED <<disk, asked, phase, theirs, raced>>

Restored == /\ phase = "rollback"
            /\ at = 0
            /\ phase' = "failed"
            /\ UNCHANGED <<disk, asked, at, failures, theirs, raced>>

\* Another program replaces, creates or deletes a file.
ExternalWrite(f, content) ==
  /\ disk[f] # content
  /\ disk' = [disk EXCEPT ![f] = content]
  /\ theirs' = theirs \cup {f}
  /\ raced' = (raced \/ (phase = "write" /\ f = at))
  /\ UNCHANGED <<asked, phase, at, failures>>

\* The process dies.  What the disk holds then is all that is left.
Crash == /\ ~Over
         /\ phase' = "crashed"
         /\ UNCHANGED <<disk, asked, at, failures, theirs, raced>>

Next == \/ Verify \/ VerifyFails \/ Verified
        \/ Recheck \/ Write \/ Written
        \/ ReplaceFails \/ Restore \/ RestoreFails \/ Restored
        \/ \E f \in File, content \in ContentOrNone : ExternalWrite(f, content)
        \/ Crash

Spec == Init /\ [][Next]_vars
-----------------------------------------------------------------------------
(***************************************************************************)
(* Correctness.  What other programs write during the save is theirs.      *)
(***************************************************************************)
Alone(f) == f \notin theirs

\* A save that reports success has written every file.
SavedMeansWritten ==
  phase = "saved" => \A f \in File : Alone(f) => disk[f] = wanted[f]

\* "A failed write restores the files already touched and reports rollback
\* errors": after a failure every file holds what it held, except those the
\* error names, and those still hold the new text.
FailedMeansRestored ==
  phase = "failed" =>
    \A f \in File : Alone(f) =>
      disk[f] = IF f \in failures THEN wanted[f] ELSE start[f]

\* Whenever the process dies, the files it leaves are old or new, and the new
\* ones are the first of the list: a save never has files in progress between
\* others, and its rollback undoes the last one first.
CrashLeavesAPrefix ==
  failures = {} =>
    \E k \in 0..N : \A f \in File : Alone(f) =>
      disk[f] = IF f <= k THEN wanted[f] ELSE start[f]

\* A replacement destroys a change another program made only when that change
\* came between the replacement and the recheck just before it.
OverwritesOnlyInWindow ==
  [][phase = "write" /\ phase' = "recheck" =>
       disk[at] = expected[at] \/ raced]_vars
=============================================================================
