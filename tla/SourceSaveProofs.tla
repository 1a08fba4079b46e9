--------------------------- MODULE SourceSaveProofs ---------------------------
(***************************************************************************)
(* SourceSave's invariants for any number of files and any contents.       *)
(*                                                                         *)
(* None of them is inductive by itself: what a failed save restores        *)
(* depends on the two passes before it.  Inv says, phase by phase, what    *)
(* every file that no other program touched holds.                         *)
(*                                                                         *)
(* PathChange implements SourceSave: each of its steps is a step of a save *)
(* or leaves the save's state alone, so a change inherits every theorem    *)
(* about a save, for any number of documents.  What is its own rests on    *)
(* Order: the path moves before the save begins, and moves back after it   *)
(* has failed.                                                             *)
(***************************************************************************)
EXTENDS PathChange, TLAPS

\* Files up to `last` hold the new text, and so do the files in `stuck`.
Mixed(last, stuck) ==
  \A f \in File : Alone(f) =>
    disk[f] = IF f <= last \/ f \in stuck THEN wanted[f] ELSE start[f]

\* The files before `last` began as they were expected.
AsExpected(last) == \A f \in File : Alone(f) /\ f < last => start[f] = expected[f]

InvVerify == phase = "verify" =>
  failures = {} /\ Mixed(0, {}) /\ AsExpected(at)
InvReplace == phase \in {"recheck", "write"} =>
  failures = {} /\ Mixed(at - 1, {}) /\ AsExpected(N + 1)
InvWindow == phase = "write" => disk[at] = expected[at] \/ raced
InvRollback == phase = "rollback" =>
  Mixed(at, failures) /\ AsExpected(N + 1)
InvFailed == phase = "failed" => Mixed(0, failures)
InvSaved == phase = "saved" => failures = {} /\ Mixed(N, {})
InvCrashed == phase = "crashed" /\ failures = {} => \E k \in 0..N : Mixed(k, {})

Inv == /\ TypeOK
       /\ InvVerify
       /\ InvReplace
       /\ InvWindow
       /\ InvRollback
       /\ InvFailed
       /\ InvSaved
       /\ InvCrashed

\* The invariant holds when a save begins.
LEMMA InitInv == Init => Inv
<1> SUFFICES ASSUME Init PROVE Inv
  OBVIOUS
<1> USE SourceSaveAssumption DEF SourceSaveAssumption, Init
<1>1. TypeOK
  <2>1. raced \in BOOLEAN
    OBVIOUS
  <2>2. at \in 0..(N + 1) /\ failures \subseteq (at + 1)..N
    OBVIOUS
  <2> QED
    BY <2>1, <2>2 DEF TypeOK, Phase
<1>2. InvVerify
  BY DEF InvVerify, Mixed, AsExpected, File
<1>3. /\ InvReplace /\ InvWindow /\ InvRollback
      /\ InvFailed /\ InvSaved /\ InvCrashed
  BY DEF InvReplace, InvWindow, InvRollback, InvFailed, InvSaved, InvCrashed
<1> QED
  BY <1>1, <1>2, <1>3 DEF Inv

\* Every step keeps the types.
LEMMA TypeStep == TypeOK /\ [Next]_vars => TypeOK'
<1> SUFFICES ASSUME TypeOK, [Next]_vars PROVE TypeOK'
  OBVIOUS
<1> USE SourceSaveAssumption DEF SourceSaveAssumption, TypeOK, File, Phase, ContentOrNone, asked
<1>1. CASE Verify
  BY <1>1 DEF Verify
<1>2. CASE VerifyFails
  BY <1>2 DEF VerifyFails
<1>3. CASE Verified
  BY <1>3 DEF Verified
<1>4. CASE Recheck
  BY <1>4 DEF Recheck
<1>5. CASE Write
  BY <1>5 DEF Write
<1>6. CASE Written
  BY <1>6 DEF Written
<1>7. CASE ReplaceFails
  BY <1>7 DEF ReplaceFails
<1>8. CASE Restore
  BY <1>8 DEF Restore
<1>9. CASE RestoreFails
  BY <1>9 DEF RestoreFails
<1>10. CASE Restored
  BY <1>10 DEF Restored
<1>11. ASSUME NEW f \in File, NEW content \in ContentOrNone,
              ExternalWrite(f, content)
       PROVE  TypeOK'
  BY <1>11 DEF ExternalWrite
<1>12. CASE Crash
  BY <1>12 DEF Crash
<1>13. CASE UNCHANGED vars
  BY <1>13 DEF vars
<1> QED
  BY <1>1, <1>2, <1>3, <1>4, <1>5, <1>6, <1>7, <1>8, <1>9, <1>10, <1>11,
     <1>12, <1>13 DEF Next

\* Every step keeps the invariant.
LEMMA InvStep == Inv /\ [Next]_vars => Inv'
<1> SUFFICES ASSUME Inv, [Next]_vars PROVE Inv'
  OBVIOUS
<1> USE SourceSaveAssumption DEF SourceSaveAssumption
<1>0. TypeOK /\ TypeOK'
  BY TypeStep DEF Inv
<1> DEFINE Rest == /\ InvVerify /\ InvReplace /\ InvWindow /\ InvRollback
                   /\ InvFailed /\ InvSaved /\ InvCrashed
<1>a. Rest
  BY DEF Inv
<1> USE DEF InvVerify, InvReplace, InvWindow, InvRollback, InvFailed, InvSaved,
            InvCrashed, Mixed, AsExpected, Alone, TypeOK, File, Phase,
            ContentOrNone, asked
<1>1. CASE Verify
  <2>1. Rest'
    BY <1>0, <1>a, <1>1 DEF Verify
  <2> QED
    BY <1>0, <2>1 DEF Inv
<1>2. CASE VerifyFails
  <2>1. Rest'
    BY <1>0, <1>a, <1>2 DEF VerifyFails
  <2> QED
    BY <1>0, <2>1 DEF Inv
<1>3. CASE Verified
  <2>1. Rest'
    BY <1>0, <1>a, <1>3 DEF Verified
  <2> QED
    BY <1>0, <2>1 DEF Inv
<1>4. CASE Recheck
  <2>1. Rest'
    BY <1>0, <1>a, <1>4 DEF Recheck
  <2> QED
    BY <1>0, <2>1 DEF Inv
<1>5. CASE Write
  <2>1. Rest'
    BY <1>0, <1>a, <1>5 DEF Write
  <2> QED
    BY <1>0, <2>1 DEF Inv
<1>6. CASE Written
  <2>1. Rest'
    BY <1>0, <1>a, <1>6 DEF Written
  <2> QED
    BY <1>0, <2>1 DEF Inv
<1>7. CASE ReplaceFails
  <2>1. Rest'
    BY <1>0, <1>a, <1>7 DEF ReplaceFails
  <2> QED
    BY <1>0, <2>1 DEF Inv
<1>8. CASE Restore
  <2>1. Rest'
    BY <1>0, <1>a, <1>8 DEF Restore
  <2> QED
    BY <1>0, <2>1 DEF Inv
<1>9. CASE RestoreFails
  <2>1. Rest'
    BY <1>0, <1>a, <1>9 DEF RestoreFails
  <2> QED
    BY <1>0, <2>1 DEF Inv
<1>10. CASE Restored
  <2>1. Rest'
    BY <1>0, <1>a, <1>10 DEF Restored
  <2> QED
    BY <1>0, <2>1 DEF Inv
<1>11. CASE Crash
  <2>1. failures' = {} => \E k \in 0..N : Mixed(k, {})'
    <3>1. CASE phase = "verify"
      <4>1. Mixed(0, {})'
        BY <1>0, <1>a, <1>11, <3>1 DEF Crash
      <4> QED
        BY <4>1
    <3>2. CASE phase \in {"recheck", "write"}
      <4>1. at - 1 \in 0..N /\ Mixed(at - 1, {})
        BY <1>0, <1>a, <3>2
      <4> QED
        BY <4>1, <1>11 DEF Crash
    <3>3. CASE phase = "rollback"
      <4>1. at \in 0..N /\ Mixed(at, failures)
        BY <1>0, <1>a, <3>3
      <4> QED
        BY <4>1, <1>11 DEF Crash
    <3> QED
      BY <1>0, <1>11, <3>1, <3>2, <3>3 DEF Crash, Over
  <2>2. Rest'
    BY <1>0, <1>a, <1>11, <2>1 DEF Crash
  <2> QED
    BY <1>0, <2>2 DEF Inv
<1>12. ASSUME NEW f \in File, NEW content \in ContentOrNone,
              ExternalWrite(f, content)
       PROVE  Inv'
  <2>1. Rest'
    BY <1>0, <1>a, <1>12 DEF ExternalWrite
  <2> QED
    BY <1>0, <2>1 DEF Inv
<1>13. CASE UNCHANGED vars
  <2>1. Rest'
    BY <1>0, <1>a, <1>13 DEF vars
  <2> QED
    BY <1>0, <2>1 DEF Inv
<1> QED
  BY <1>1, <1>2, <1>3, <1>4, <1>5, <1>6, <1>7, <1>8, <1>9, <1>10, <1>11, <1>12, <1>13 DEF Next

\* The types, and what each phase leaves on disk, hold throughout.
THEOREM Invariance == Spec => []Inv
<1>1. Init => Inv
  BY InitInv
<1>2. Inv /\ [Next]_vars => Inv'
  BY InvStep
<1> QED
  BY <1>1, <1>2, PTL DEF Spec

\* However many files a save writes, its state keeps its types.
THEOREM TypeCorrect == Spec => []TypeOK
<1>1. Inv => TypeOK
  BY DEF Inv
<1> QED
  BY <1>1, Invariance, PTL

\* A save that reports success has written every file (replace_files).
THEOREM SavedIsWritten == Spec => []SavedMeansWritten
<1>1. Inv => SavedMeansWritten
  BY SourceSaveAssumption
  DEF SourceSaveAssumption, Inv, InvSaved, Mixed, SavedMeansWritten, File
<1> QED
  BY <1>1, Invariance, PTL

\* A save that fails has restored every file but those its error names.
THEOREM FailedIsRestored == Spec => []FailedMeansRestored
<1>1. Inv => FailedMeansRestored
  BY SourceSaveAssumption
  DEF SourceSaveAssumption, Inv, InvFailed, Mixed, FailedMeansRestored, File
<1> QED
  BY <1>1, Invariance, PTL

\* Whenever the process dies, the new files are the first of the list.
THEOREM CrashIsAPrefix == Spec => []CrashLeavesAPrefix
<1>1. ASSUME Inv PROVE CrashLeavesAPrefix
  <2> USE SourceSaveAssumption DEF SourceSaveAssumption
  <2> SUFFICES ASSUME failures = {} PROVE \E k \in 0..N : Mixed(k, {})
    BY DEF CrashLeavesAPrefix, Mixed
  <2>1. CASE phase = "verify"
    BY <1>1, <2>1 DEF Inv, InvVerify
  <2>2. CASE phase \in {"recheck", "write"}
    <3>1. at - 1 \in 0..N /\ Mixed(at - 1, {})
      BY <1>1, <2>2 DEF Inv, InvReplace, TypeOK, File
    <3> QED
      BY <3>1
  <2>3. CASE phase = "rollback"
    <3>1. at \in 0..N /\ Mixed(at, {})
      BY <1>1, <2>3 DEF Inv, InvRollback, TypeOK
    <3> QED
      BY <3>1
  <2>4. CASE phase = "failed"
    BY <1>1, <2>4 DEF Inv, InvFailed
  <2>5. CASE phase = "saved"
    BY <1>1, <2>5 DEF Inv, InvSaved
  <2>6. CASE phase = "crashed"
    BY <1>1, <2>6 DEF Inv, InvCrashed
  <2> QED
    BY <1>1, <2>1, <2>2, <2>3, <2>4, <2>5, <2>6 DEF Inv, TypeOK, Phase
<1> QED
  BY <1>1, Invariance, PTL

\* A replacement destroys only what another program wrote in the window
\* between the replacement and the recheck before it.
THEOREM OnlyInWindow == Spec => OverwritesOnlyInWindow
<1>1. Inv /\ [Next]_vars =>
        [phase = "write" /\ phase' = "recheck" => disk[at] = expected[at] \/ raced]_vars
  BY DEF Inv, InvWindow
<1> QED
  BY <1>1, Invariance, PTL DEF Spec, OverwritesOnlyInWindow
-----------------------------------------------------------------------------
(* The path change.                                                        *)

Before == step \in {"stage", "move", "restore"} => phase = "verify"
Done == step = "applied" => phase = "saved"
Order == /\ PathTypeOK
         /\ Before
         /\ Done
         /\ ChangeIsWhole
         /\ NewTextNeedsTheMove

\* A change only begins where a save does.
LEMMA InitRefines == PathInit => Init
  BY DEF PathInit

\* Every step of a change is a step of a save, or none.
LEMMA StepRefines == [PathNext]_allVars => [Next]_vars
<1> SUFFICES ASSUME [PathNext]_allVars PROVE [Next]_vars
  OBVIOUS
<1>1. CASE Writes
  BY <1>1 DEF Writes, Next
<1>2. CASE Others
  BY <1>2 DEF Others, Next
<1>3. CASE Dies
  BY <1>3 DEF Dies, Next
<1>4. CASE Saves
  BY <1>4 DEF Saves
<1>5. CASE \/ Stage \/ StageFails \/ Move \/ MoveFails \/ PutBack \/ PutBackFails
           \/ Applied \/ MoveBack \/ MoveBackFails
  <2>1. UNCHANGED vars
    BY <1>5 DEF Stage, StageFails, Move, MoveFails, PutBack, PutBackFails,
                Applied, MoveBack, MoveBackFails, Goes, Renames
  <2> QED
    BY <2>1
<1>6. CASE UNCHANGED allVars
  BY <1>6 DEF allVars
<1> QED
  BY <1>1, <1>2, <1>3, <1>4, <1>5, <1>6 DEF PathNext

\* apply_path_change implements replace_files: whatever holds of every save holds
\* of the documents a change writes.
THEOREM ChangeImplementsSave == PathSpec => Spec
<1>1. PathInit => Init
  BY InitRefines
<1>2. [PathNext]_allVars => [Next]_vars
  BY StepRefines
<1> QED
  BY <1>1, <1>2, PTL DEF PathSpec, Spec

\* What a save has written nothing of is untouched, and so is what it restored.
LEMMA UntouchedBefore == Inv /\ phase = "verify" => Untouched
  BY SourceSaveAssumption
  DEF SourceSaveAssumption, Inv, InvVerify, Mixed, Untouched, File

\* A save that failed has restored what it could.
LEMMA UntouchedAfter == Inv /\ phase = "failed" => Untouched
  BY SourceSaveAssumption
  DEF SourceSaveAssumption, Inv, InvFailed, Mixed, Untouched, File

\* Another program's write does not touch what is compared.
LEMMA UntouchedByOthers ==
  ASSUME TypeOK, NEW f \in File, NEW content \in ContentOrNone,
         ExternalWrite(f, content), Untouched
  PROVE  Untouched'
  BY DEF TypeOK, ExternalWrite, Untouched, Alone, asked

\* Nothing has moved when a change begins.
LEMMA InitOrder == PathInit => Order
  BY DEF PathInit, Init, Order, PathTypeOK, Before, Done, ChangeIsWhole,
         NewTextNeedsTheMove, Untouched, Step, Final

\* Every step of a change keeps its order.
LEMMA OrderStep == Inv /\ Inv' /\ Order /\ [PathNext]_allVars => Order'
<1> SUFFICES ASSUME Inv, Inv', Order, [PathNext]_allVars PROVE Order'
  OBVIOUS
<1> USE DEF Order, PathTypeOK, Before, Done, Step, Final, path
<1>0. /\ PathTypeOK /\ Before /\ Done /\ ChangeIsWhole /\ NewTextNeedsTheMove
      /\ phase = "verify" => Untouched
      /\ phase = "failed" => Untouched
  BY UntouchedBefore, UntouchedAfter
<1>v. UNCHANGED vars => (Untouched' <=> Untouched)
  BY DEF vars, asked, Untouched, Alone
<1>1. CASE UNCHANGED vars /\ (Stage \/ StageFails \/ Move \/ MoveFails \/ PutBack
                              \/ PutBackFails \/ MoveBack \/ MoveBackFails)
  BY <1>0, <1>1, <1>v
  DEF vars, Stage, StageFails, Move, MoveFails, PutBack, PutBackFails, MoveBack,
      MoveBackFails, Goes, Renames, ChangeIsWhole, NewTextNeedsTheMove
<1>2. CASE Applied
  <2>1. \A f \in File : Alone(f) => disk[f] = wanted[f]
    BY <1>2, SourceSaveAssumption
    DEF SourceSaveAssumption, Applied, Inv, InvSaved, Mixed, File
  <2> QED
    BY <1>0, <1>2, <2>1
    DEF Applied, Goes, vars, asked, Alone, ChangeIsWhole, NewTextNeedsTheMove
<1>3. CASE Writes
  BY <1>0, <1>3 DEF Writes, ChangeIsWhole, NewTextNeedsTheMove
<1>4. ASSUME NEW f \in File, NEW content \in ContentOrNone,
             ExternalWrite(f, content), UNCHANGED path
      PROVE  Order'
  <2>1. TypeOK /\ (Untouched => Untouched')
    BY <1>4, UntouchedByOthers DEF Inv
  <2>2. (\A g \in File : Alone(g) => disk[g] = wanted[g])
          => (\A g \in File : Alone(g) => disk[g] = wanted[g])'
    BY <1>4, <2>1 DEF TypeOK, ExternalWrite, Alone, asked
  <2> QED
    BY <1>0, <1>4, <2>1, <2>2 DEF ExternalWrite, ChangeIsWhole, NewTextNeedsTheMove
<1>5. CASE Dies
  <2>1. Untouched => Untouched'
    BY <1>5, <1>v DEF Dies, Crash, asked, Untouched, Alone
  <2> QED
    BY <1>0, <1>5, <2>1 DEF Dies, ChangeIsWhole, NewTextNeedsTheMove
<1>6. CASE Saves
  BY <1>0, <1>6 DEF Saves, ChangeIsWhole, NewTextNeedsTheMove
<1>7. CASE UNCHANGED allVars
  BY <1>0, <1>7, <1>v
  DEF allVars, vars, asked, Alone, ChangeIsWhole, NewTextNeedsTheMove
<1>8. Stage \/ StageFails \/ Move \/ MoveFails \/ PutBack \/ PutBackFails
        \/ MoveBack \/ MoveBackFails => UNCHANGED vars
  BY DEF Stage, StageFails, Move, MoveFails, PutBack, PutBackFails, MoveBack,
         MoveBackFails, Goes, Renames
<1> QED
  BY <1>1, <1>2, <1>3, <1>4, <1>5, <1>6, <1>7, <1>8 DEF PathNext, Others

\* The invariant of a save and the order of a change hold throughout.
THEOREM ChangeInvariance == PathSpec => []Order
<1>1. PathSpec => []Inv
  BY ChangeImplementsSave, Invariance, PTL
<1>2. PathInit => Order
  BY InitOrder
<1>3. Inv /\ Inv' /\ Order /\ [PathNext]_allVars => Order'
  BY OrderStep
<1> QED
  BY <1>1, <1>2, <1>3, PTL DEF PathSpec

\* However many documents move, the state of a change keeps its types, and the
\* path is where the step of the change says.
THEOREM ChangeTypeCorrect == PathSpec => []PathTypeOK
<1>1. Order => PathTypeOK
  BY DEF Order
<1> QED
  BY <1>1, ChangeInvariance, PTL

\* A path change is made whole or not at all, or its error says so.
THEOREM ChangesAreWhole == PathSpec => []ChangeIsWhole
<1>1. Order => ChangeIsWhole
  BY DEF Order
<1> QED
  BY <1>1, ChangeInvariance, PTL

\* Whenever the process dies, no document names a path that is not there, but for
\* those whose way back failed and those other programs wrote.
THEOREM NoTextBeforeTheMove == PathSpec => []NewTextNeedsTheMove
<1>1. Order => NewTextNeedsTheMove
  BY DEF Order
<1> QED
  BY <1>1, ChangeInvariance, PTL
=============================================================================
