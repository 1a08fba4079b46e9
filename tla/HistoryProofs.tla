---------------------------- MODULE HistoryProofs ----------------------------
(***************************************************************************)
(* WorkingCopy's undo history, its clients' edits, its conflicts and its   *)
(* typed project, for any files, texts and meanings.                       *)
(*                                                                         *)
(* Undo and redo step through the states the project went through.         *)
(* HistoryIsAPath says nothing about a project that is not typed, so it is *)
(* not inductive.  The states at which the two stacks meet (Meets) are     *)
(* kept while an external conflict takes the typed project away, and no    *)
(* check puts another project in its place before that conflict is         *)
(* decided, which clears the history.                                      *)
(***************************************************************************)
EXTENDS WorkingCopyProofs

UndoChain(s) == \A i \in 1..(Len(s) - 1) : s[i].after = s[i + 1].before
RedoChain(s) == \A i \in 1..(Len(s) - 1) : s[i].before = s[i + 1].after

\* Where undo and redo meet.
Meets(session) == /\ undo # <<>> => undo[Len(undo)].after = session
                  /\ redo # <<>> => redo[Len(redo)].before = session

Empty == undo = <<>> /\ redo = <<>>

\* A check of texts that were there before the last GUI edit, or a conflict that
\* keeps its result from being used.
Harmless(check) ==
  check # None =>
    /\ check.revision <= revision
    /\ check.revision = revision /\ check.sources # None =>
         Empty \/ Conflicted # {}

\* A check that is scheduled now, while there is no typed project or for its sake.
OfNow(check) == /\ check.revision = revision
                /\ check.sources # None => project.health # "ready"

HistoryInv ==
  /\ UndoChain(undo) /\ RedoChain(redo)
  /\ \E session : /\ Meets(session)
                  /\ project.health = "ready" => project.session = session
  /\ Empty \/ project.health = "ready" \/ Conflicted # {}
  /\ Harmless(pending) /\ Harmless(active)
  /\ \A f \in gate.writes : documents[f] # None /\ documents[f].external = "current"

\* It is the property, and more.
LEMMA HistoryImplies == HistoryInv => HistoryIsAPath
BY DEF HistoryInv, UndoChain, RedoChain, Meets, HistoryIsAPath
-----------------------------------------------------------------------------
(***************************************************************************)
(* The stacks.                                                             *)
(***************************************************************************)
\* Taking the last entry off a stack.
LEMMA PopChain ==
  ASSUME NEW s \in Seq(Entry), s # <<>>
  PROVE  /\ UndoChain(s) =>
              /\ UndoChain(Front(s))
              /\ Front(s) # <<>> => Front(s)[Len(Front(s))].after = s[Len(s)].before
         /\ RedoChain(s) =>
              /\ RedoChain(Front(s))
              /\ Front(s) # <<>> => Front(s)[Len(Front(s))].before = s[Len(s)].after
<1>1. Len(s) \in Nat \ {0}
  BY EmptySeq
<1>2. /\ Front(s) \in Seq(Entry) /\ Len(Front(s)) = Len(s) - 1
      /\ \A i \in 1..(Len(s) - 1) : Front(s)[i] = s[i]
  <2> DEFINE m == Len(s) - 1
             t == SubSeq(s, 1, m)
  <2>1. m \in Int /\ 1 \in Int /\ m >= 0
    BY <1>1
  <2>2. \A i \in 1..m : s[i] \in Entry
    BY <1>1, ElementOfSeq
  <2> HIDE DEF m
  <2>3. /\ t \in Seq(Entry)
        /\ Len(t) = IF 1 <= m THEN m - 1 + 1 ELSE 0
        /\ \A i \in 1..(m - 1 + 1) : t[i] = s[1 + i - 1]
    BY <2>1, <2>2, SubSeqProperties
  <2> HIDE DEF t
  <2>4. t \in Seq(Entry) /\ Len(t) = m /\ \A i \in 1..m : t[i] = s[i]
    BY <2>1, <2>3
  <2> QED
    BY <2>4 DEF Front, t, m
<1>3. Front(s) # <<>> => Len(s) - 1 \in 1..(Len(s) - 1)
  BY <1>1, <1>2, EmptySeq
<1> HIDE DEF Front
<1> QED
  BY <1>1, <1>2, <1>3 DEF UndoChain, RedoChain

\* Pushing an entry that begins where the stack ends, and forgetting the first.
LEMMA PushChain ==
  ASSUME NEW s \in Seq(Entry), NEW e \in Entry
  PROVE  /\ UndoChain(s) /\ (s # <<>> => s[Len(s)].after = e.before) =>
              /\ UndoChain(Append(s, e))
              /\ UndoChain(Trimmed(Append(s, e)))
         /\ RedoChain(s) /\ (s # <<>> => s[Len(s)].before = e.after) =>
              RedoChain(Append(s, e))
         /\ Append(s, e)[Len(Append(s, e))] = e
         /\ Trimmed(Append(s, e)) # <<>> =>
              Trimmed(Append(s, e))[Len(Trimmed(Append(s, e)))] = e
<1> DEFINE p == Append(s, e)
           n == Len(s)
<1>1. /\ p \in Seq(Entry) /\ n \in Nat /\ Len(p) = n + 1
      /\ p[n + 1] = e /\ \A i \in 1..n : p[i] = s[i]
  BY AppendProperties
<1>2. s # <<>> <=> n # 0
  BY EmptySeq
<1>3. /\ Tail(p) \in Seq(Entry) /\ Len(Tail(p)) = n
      /\ \A i \in 1..n : Tail(p)[i] = p[i + 1]
  BY <1>1, HeadTailProperties, EmptySeq
<1>4. Trimmed(p) \in {p, Tail(p)}
  BY DEF Trimmed
<1>5. Tail(p) # <<>> => n # 0
  BY <1>3, EmptySeq
<1> HIDE DEF p, n
<1>6. n = Len(s) /\ p = Append(s, e)
  BY DEF n, p
<1>7. UndoChain(s) /\ (s # <<>> => s[Len(s)].after = e.before) => UndoChain(p)
  BY <1>1, <1>2, <1>6 DEF UndoChain
<1>8. RedoChain(s) /\ (s # <<>> => s[Len(s)].before = e.after) => RedoChain(p)
  BY <1>1, <1>2, <1>6 DEF RedoChain
<1>9. UndoChain(p) => UndoChain(Tail(p))
  BY <1>1, <1>3 DEF UndoChain
<1>10. Tail(p) # <<>> => Tail(p)[n] = e
  BY <1>1, <1>3, <1>5
<1> QED
  BY <1>1, <1>3, <1>4, <1>6, <1>7, <1>8, <1>9, <1>10
-----------------------------------------------------------------------------
(***************************************************************************)
(* What the handlers share.                                                *)
(***************************************************************************)
\* A change of the sources clears the history.
LEMMA SourcesChangedHistory ==
  ASSUME IInv, HistoryInv, NEW docs, SourcesChanged(docs), gate' = Free
  PROVE  HistoryInv'
<1>1. /\ undo' = <<>> /\ redo' = <<>> /\ revision' = revision + 1
      /\ pending' = Payload' /\ active' = active
  BY DEF SourcesChanged, ScheduleWorkingCopy, Scheduler!Schedule
<1>2. Payload'.revision = revision'
  BY DEF Payload
<1>3. Harmless(pending)' /\ Harmless(active)'
  <2>1. revision \in Nat
    BY DEF IInv, ProjectInv
  <2>2. active # None => active.revision \in Nat
    BY DEF IInv, CheckerInv, CheckRequest
  <2> QED
    BY <1>1, <1>2, <2>1, <2>2 DEF HistoryInv, Harmless, Empty
<1>4. UndoChain(undo)' /\ RedoChain(redo)'
  BY <1>1, EmptySeq DEF UndoChain, RedoChain
<1>5. \E session : /\ Meets(session)'
                   /\ project'.health = "ready" => project'.session = session
  BY <1>1 DEF Meets
<1>6. \A f \in gate'.writes : FALSE
  BY DEF Free
<1> QED
  BY <1>1, <1>3, <1>4, <1>5, <1>6 DEF HistoryInv, Empty

\* A GUI edit, undo or redo moves the typed project to where the stacks meet.
LEMMA AcceptHistory ==
  ASSUME IInv, HistoryInv, NEW session, NEW paths, AcceptGuiSources(session, paths),
         gate' = Free, UndoChain(undo)', RedoChain(redo)', Meets(session)'
  PROVE  HistoryInv'
<1>1. /\ revision' = revision + 1 /\ project' = Ready(session, revision + 1)
      /\ pending' = Payload' /\ active' = active
  BY DEF AcceptGuiSources, ScheduleWorkingCopy, Scheduler!Schedule
<1>2. project'.health = "ready" /\ project'.session = session
  BY <1>1 DEF Ready
<1>3. Payload'.revision = revision' /\ Payload'.sources = None
  BY <1>2 DEF Payload
<1>4. Harmless(pending)' /\ Harmless(active)'
  <2>1. revision \in Nat
    BY DEF IInv, ProjectInv
  <2>2. active # None => active.revision \in Nat
    BY DEF IInv, CheckerInv, CheckRequest
  <2> QED
    BY <1>1, <1>3, <2>1, <2>2 DEF HistoryInv, Harmless
<1>5. \A f \in gate'.writes : FALSE
  BY DEF Free
<1> QED
  BY <1>2, <1>4, <1>5 DEF HistoryInv

\* A step that leaves the history and the revision keeps the conflicts, and takes
\* the typed project away only for one.
LEMMA KeepHistory ==
  ASSUME IInv, HistoryInv, UNCHANGED <<history, revision>>,
         Conflicted # {} => Conflicted' # {},
         project' = project \/ Empty \/ (project' = Invalid /\ Conflicted' # {}),
         pending' \in {None, pending} \/ OfNow(pending'),
         active' \in {None, active, pending},
         \A f \in gate'.writes :
           documents'[f] # None /\ documents'[f].external = "current"
  PROVE  HistoryInv'
<1>1. /\ undo' = undo /\ redo' = redo /\ revision' = revision
  BY DEF history
<1>2. UndoChain(undo)' /\ RedoChain(redo)'
  BY <1>1 DEF HistoryInv, UndoChain, RedoChain
<1>3. \E session : /\ Meets(session)'
                   /\ project'.health = "ready" => project'.session = session
  <2>1. CASE project' = project
    BY <1>1, <2>1 DEF HistoryInv, Meets
  <2>2. CASE Empty
    BY <1>1, <2>2 DEF Empty, Meets
  <2>3. CASE project' = Invalid
    BY <1>1, <2>3 DEF HistoryInv, Meets, Invalid
  <2> QED
    BY <2>1, <2>2, <2>3
<1>4. Empty' <=> Empty
  BY <1>1 DEF Empty
<1>5. Empty' \/ project'.health = "ready" \/ Conflicted' # {}
  BY <1>4 DEF HistoryInv
<1>6. Harmless(pending') /\ Harmless(active')
  <2>1. revision \in Nat
    BY DEF IInv, ProjectInv
  <2> QED
    BY <2>1 DEF HistoryInv, Harmless, OfNow
<1>7. Harmless(pending)' /\ Harmless(active)'
  BY <1>1, <1>4, <1>6 DEF Harmless
<1> QED
  BY <1>2, <1>3, <1>5, <1>7 DEF HistoryInv
\* A step that leaves the check and the typed project, and writes nothing.
LEMMA QuietHistory ==
  ASSUME IInv, HistoryInv, UNCHANGED <<project, revision, history, checker>>,
         Conflicted # {} => Conflicted' # {},
         \A f \in gate'.writes :
           documents'[f] # None /\ documents'[f].external = "current"
  PROVE  HistoryInv'
<1>1. /\ UNCHANGED <<history, revision>> /\ project' = project
      /\ pending' \in {None, pending} /\ active' \in {None, active, pending}
  BY DEF checker, history
<1>2. project' = project \/ Empty \/ (project' = Invalid /\ Conflicted' # {})
  BY <1>1
<1>3. pending' \in {None, pending} \/ OfNow(pending')
  BY <1>1
<1> QED
  BY <1>1, <1>2, <1>3, KeepHistory

\* So does one that leaves the documents too.
LEMMA SameHistory ==
  ASSUME IInv, HistoryInv,
         UNCHANGED <<documents, gate, project, revision, history, checker>>
  PROVE  HistoryInv'
<1>1. Conflicted' = Conflicted
  BY DEF Conflicted, Opened
<1>2. \A f \in gate'.writes :
        documents'[f] # None /\ documents'[f].external = "current"
  BY DEF HistoryInv
<1> QED
  BY <1>1, <1>2, QuietHistory

\* Documents that are only edited or opened keep the conflicts.
LEMMA KeepConflicts ==
  ASSUME DocumentsSound, DocumentsSound',
         \A f \in Opened : documents'[f] # None /\ documents'[f].external = documents[f].external
  PROVE  Conflicted # {} => Conflicted' # {}
BY DEF Conflicted, Opened, DocumentsSound

\* A mutex that nobody holds announces nothing.
LEMMA FreeWritesNothing == gate = Free => \A f \in gate.writes : FALSE
BY DEF Free

\* Text edits, drafts, opening files and changes across files.
LEMMA TextAuthoringHistory ==
  ASSUME IInv, IInv', HistoryInv, TextAuthoring
  PROVE  HistoryInv'
<1>1. ASSUME NEW f \in Files, NEW text \in Texts, EditText(f, text)
      PROVE  HistoryInv'
  BY <1>1, SourcesChangedHistory DEF EditText, UpdateDocument, Authoring
<1>2. ASSUME NEW f \in Files, TakeDraft(f)
      PROVE  HistoryInv'
  BY <1>2, SameHistory DEF TakeDraft
<1>3. ASSUME NEW f \in Files, OpenFile(f)
      PROVE  HistoryInv'
  <2>1. \A g \in Opened : documents'[g] = documents[g]
    BY <1>3 DEF OpenFile, IInv, DocumentsInv, DocumentsSound, Opened
  <2>2. Conflicted # {} => Conflicted' # {}
    BY <2>1, KeepConflicts DEF IInv, DocumentsInv, Opened
  <2>3. \A g \in gate'.writes : FALSE
    BY <1>3, FreeWritesNothing DEF OpenFile, Settled, Authoring
  <2> QED
    BY <1>3, <2>2, <2>3, QuietHistory DEF OpenFile
<1>4. ASSUME NEW text \in Texts, SendDraft(text)
      PROVE  HistoryInv'
  <2>1. CASE UpdateDocument(draft, text)
    BY <1>4, <2>1, SourcesChangedHistory DEF SendDraft, UpdateDocument, Authoring
  <2>2. CASE UNCHANGED <<documents, project, epoch, revision, history, autosave,
                         checker>>
    BY <1>4, <2>2, SameHistory DEF SendDraft
  <2> QED
    BY <1>4, <2>1, <2>2 DEF SendDraft
<1>5. ASSUME NEW files \in SUBSET Files, NEW texts \in [files -> Texts],
             ChangeDocuments(files, texts)
      PROVE  HistoryInv'
  BY <1>5, SourcesChangedHistory DEF ChangeDocuments, Authoring
<1>6. ASSUME NEW files \in SUBSET Files, NEW texts \in [files -> Texts],
             ChangeDocumentsPartly(files, texts)
      PROVE  HistoryInv'
  <2>1. PICK done \in SUBSET {f \in files : f \in Opened \/ disk[f] # None} :
               documents' = Rewritten(done, texts)
    BY <1>6 DEF ChangeDocumentsPartly
  <2>2. ASSUME NEW g \in Opened
        PROVE  /\ documents'[g] # None
               /\ documents'[g].external = documents[g].external
    <3>1. g \in Files /\ documents[g] \in SoundDocument /\ documents[g] \in Unwritten
      BY OpenedIsSound DEF IInv, DocumentsInv, Document, Unwritten, Save, TextOrNone
    <3>2. CASE g \in done
      <4>1. texts[g] \in Texts
        BY <3>2
      <4>2. documents'[g] = Edit(documents[g], texts[g])
        BY <2>1, <3>1, <3>2 DEF Rewritten, Loaded
      <4>3. Edit(documents[g], texts[g]) \in Document
        BY <3>1, <4>1, EditSound DEF SoundDocument
      <4>4. Edit(documents[g], texts[g]).external = documents[g].external
        BY <3>1, <4>1, EditKeepsConflict
      <4> QED
        BY <4>2, <4>3, <4>4, NoDocument
    <3>3. CASE g \notin done
      BY <2>1, <3>1, <3>3 DEF Rewritten, Opened
    <3> QED
      BY <3>2, <3>3
  <2>3. Conflicted # {} => Conflicted' # {}
    BY <2>2, KeepConflicts DEF IInv, DocumentsInv
  <2>4. \A g \in gate'.writes : FALSE
    BY <1>6, FreeWritesNothing DEF ChangeDocumentsPartly, Authoring
  <2> QED
    BY <1>6, <2>3, <2>4, QuietHistory DEF ChangeDocumentsPartly
<1> QED
  BY <1>1, <1>2, <1>3, <1>4, <1>5, <1>6 DEF TextAuthoring
\* A GUI edit, undo and redo: the project goes to the other end of an entry.
LEMMA GuiAuthoringHistory ==
  ASSUME IInv, HistoryInv, GuiAuthoring
  PROVE  HistoryInv'
<1>0. /\ undo \in Seq(Entry) /\ redo \in Seq(Entry)
      /\ UndoChain(undo) /\ RedoChain(redo)
  BY DEF IInv, ProjectInv, HistoryInv
<1>1. PICK session : /\ Meets(session)
                     /\ project.health = "ready" => project.session = session
  BY DEF HistoryInv
<1>2. ASSUME NEW paths \in SUBSET Files, NEW meanings \in [paths -> Meanings],
             GuiEdit(paths, meanings)
      PROVE  HistoryInv'
  <2> DEFINE after == [f \in Files |-> IF f \in paths THEN meanings[f] ELSE session[f]]
             entry == [before |-> session, after |-> after, paths |-> paths]
             pushed == Trimmed(Append(undo, entry))
  <2>1. project.session = session /\ session \in Session
    BY <1>1, <1>2 DEF GuiEdit, HasSession, IInv, ProjectInv
  <2>2. after \in Session
    BY <2>1 DEF Session
  <2>3. entry \in Entry /\ entry.before = session /\ entry.after = after
    BY <2>1, <2>2 DEF Entry
  <2>4. /\ AcceptGuiSources(after, paths)
        /\ undo' = pushed /\ redo' = <<>>
        /\ gate' = Free
    BY <1>2, <2>1 DEF GuiEdit, Authoring
  <2> HIDE DEF after, entry
  <2>5. undo # <<>> => undo[Len(undo)].after = entry.before
    BY <1>1, <2>3 DEF Meets
  <2>6. UndoChain(pushed) /\ (pushed # <<>> => pushed[Len(pushed)] = entry)
    BY <1>0, <2>3, <2>5, PushChain
  <2> HIDE DEF pushed
  <2>7. UndoChain(undo)'
    BY <2>4, <2>6 DEF UndoChain
  <2>8. RedoChain(redo)'
    BY <2>4, EmptySeq DEF RedoChain
  <2>9. Meets(after)'
    BY <2>3, <2>4, <2>6 DEF Meets, after
  <2> QED
    BY <2>4, <2>7, <2>8, <2>9, AcceptHistory DEF after
<1>3. CASE Undo
  <2>1. PICK entry \in Entry : entry = undo[Len(undo)]
    BY <1>0, <1>3, FrontTyped DEF Undo
  <2> DEFINE popped == Front(undo)
             pushed == Append(redo, entry)
  <2>2. /\ AcceptGuiSources(entry.before, entry.paths)
        /\ undo' = popped /\ redo' = pushed
        /\ gate' = Free /\ undo # <<>>
    BY <1>3, <2>1 DEF Undo, Authoring
  <2>3. redo # <<>> => redo[Len(redo)].before = entry.after
    BY <1>1, <2>1, <2>2 DEF Meets
  <2>4. /\ UndoChain(popped)
        /\ popped # <<>> => popped[Len(popped)].after = entry.before
    BY <1>0, <2>1, <2>2, PopChain
  <2>5. RedoChain(pushed) /\ pushed[Len(pushed)] = entry
    BY <1>0, <2>1, <2>3, PushChain
  <2> HIDE DEF popped, pushed
  <2>6. UndoChain(undo)'
    BY <2>2, <2>4 DEF UndoChain
  <2>7. RedoChain(redo)'
    BY <2>2, <2>5 DEF RedoChain
  <2>8. Meets(entry.before)'
    BY <2>2, <2>4, <2>5 DEF Meets
  <2> QED
    BY <2>2, <2>6, <2>7, <2>8, AcceptHistory
<1>4. CASE Redo
  <2>1. PICK entry \in Entry : entry = redo[Len(redo)]
    BY <1>0, <1>4, FrontTyped DEF Redo
  <2> DEFINE popped == Front(redo)
             pushed == Trimmed(Append(undo, entry))
  <2>2. /\ AcceptGuiSources(entry.after, entry.paths)
        /\ redo' = popped /\ undo' = pushed
        /\ gate' = Free /\ redo # <<>>
    BY <1>4, <2>1 DEF Redo, Authoring
  <2>3. undo # <<>> => undo[Len(undo)].after = entry.before
    BY <1>1, <2>1, <2>2 DEF Meets
  <2>4. /\ RedoChain(popped)
        /\ popped # <<>> => popped[Len(popped)].before = entry.after
    BY <1>0, <2>1, <2>2, PopChain
  <2>5. UndoChain(pushed) /\ (pushed # <<>> => pushed[Len(pushed)] = entry)
    BY <1>0, <2>1, <2>3, PushChain
  <2> HIDE DEF popped, pushed
  <2>6. UndoChain(undo)'
    BY <2>2, <2>5 DEF UndoChain
  <2>7. RedoChain(redo)'
    BY <2>2, <2>4 DEF RedoChain
  <2>8. Meets(entry.after)'
    BY <2>2, <2>4, <2>5 DEF Meets
  <2> QED
    BY <2>2, <2>6, <2>7, <2>8, AcceptHistory
<1> QED
  BY <1>2, <1>3, <1>4 DEF GuiAuthoring

\* Other programs, reconciling, decisions about conflicts, settings.
LEMMA OutsideHistory ==
  ASSUME IInv, HistoryInv, Outside
  PROVE  HistoryInv'
<1>1. ASSUME NEW f \in Files, NEW text \in TextOrNone, ExternalWrite(f, text)
      PROVE  HistoryInv'
  BY <1>1, SameHistory DEF ExternalWrite
<1>2. CASE ReconcileExternalFiles
  BY <1>2, SourcesChangedHistory DEF ReconcileExternalFiles, Authoring
<1>3. ASSUME NEW f \in Files, NEW decision \in {"reload", "keep"},
             ResolveExternalConflict(f, decision)
      PROVE  HistoryInv'
  BY <1>3, SourcesChangedHistory DEF ResolveExternalConflict, Settled, Authoring
<1>4. ASSUME NEW on \in BOOLEAN, SetAutosave(on)
      PROVE  HistoryInv'
  <2>1. UNCHANGED <<documents, gate, project, revision, history>>
    BY <1>4 DEF SetAutosave
  <2>2. CASE UNCHANGED checker
    BY <2>1, <2>2, SameHistory
  <2>3. CASE ScheduleWorkingCopy
    <3>1. pending' = Payload' /\ active' = active
      BY <2>3 DEF ScheduleWorkingCopy, Scheduler!Schedule
    <3>2. OfNow(pending')
      BY <2>1, <3>1 DEF Payload, OfNow
    <3>3. Conflicted' = Conflicted
      BY <2>1 DEF Conflicted, Opened
    <3>4. \A f \in gate'.writes :
            documents'[f] # None /\ documents'[f].external = "current"
      BY <2>1 DEF HistoryInv
    <3>5. UNCHANGED <<history, revision>>
          /\ (project' = project \/ Empty \/ (project' = Invalid /\ Conflicted' # {}))
      BY <2>1 DEF history
    <3>6. active' \in {None, active, pending}
          /\ (pending' \in {None, pending} \/ OfNow(pending'))
      BY <3>1, <3>2
    <3> QED
      BY <3>3, <3>4, <3>5, <3>6, KeepHistory
  <2> QED
    BY <1>4, <2>2, <2>3 DEF SetAutosave
<1>5. ASSUME NEW on \in BOOLEAN, SetAutosaveFails(on)
      PROVE  HistoryInv'
  BY <1>5, SameHistory DEF SetAutosaveFails
<1> QED
  BY <1>1, <1>2, <1>3, <1>4, <1>5 DEF Outside
-----------------------------------------------------------------------------
(***************************************************************************)
(* Saves, the worker and the transitions.                                  *)
(***************************************************************************)
\* A save that begins leaves what conflicts, and announces what does not.
LEMMA SaveBeginsHistory ==
  ASSUME IInv, IInv', NEW holder, NEW typed, SaveBegins(holder, typed)
  PROVE  /\ Conflicted # {} => Conflicted' # {}
         /\ \A f \in gate'.writes :
              documents'[f] # None /\ documents'[f].external = "current"
<1>1. ASSUME NEW f \in Opened
      PROVE  /\ documents'[f] # None
             /\ documents'[f].external = documents[f].external
  <2>1. f \in Files /\ documents[f] \in SoundDocument /\ documents[f] \in Document
    BY OpenedIsSound DEF IInv, DocumentsInv
  <2>2. documents'[f] \in {documents[f], [documents[f] EXCEPT !.save = "saving"]}
    BY <2>1 DEF SaveBegins
  <2>3. [documents[f] EXCEPT !.save = "saving"] \in Document
    BY <2>1, UnsavedSound DEF SoundDocument
  <2>4. [documents[f] EXCEPT !.save = "saving"].external = documents[f].external
    BY <2>1 DEF Document
  <2> QED
    BY <2>1, <2>2, <2>3, <2>4, NoDocument
<1>2. Conflicted # {} => Conflicted' # {}
  BY <1>1, KeepConflicts DEF IInv, DocumentsInv
<1>3. \A f \in gate'.writes : f \in Opened /\ documents[f].external = "current"
  BY DEF SaveBegins, Dirty, Clash
<1> QED
  BY <1>1, <1>2, <1>3

\* A save that is refused leaves what conflicts, and takes the typed project
\* away for a conflict.
LEMMA SaveRefusedHistory ==
  ASSUME IInv, IInv', NEW typed, SaveRefused(typed)
  PROVE  /\ Conflicted # {} => Conflicted' # {}
         /\ project' = typed \/ (project' = Invalid /\ Conflicted' # {})
         /\ UNCHANGED gate
<1>1. PICK f \in Dirty :
        \/ documents' = [documents EXCEPT ![f].save = "failed"] /\ project' = typed
        \/ documents' = [documents EXCEPT ![f] = Conflict(@, f)] /\ project' = Invalid
  BY DEF SaveRefused
<1>2. /\ f \in Opened /\ f \in Files /\ documents[f].dirty
      /\ documents[f] \in SoundDocument /\ documents[f] \in Document
  BY OpenedIsSound DEF IInv, DocumentsInv, Dirty
<1>3. /\ DocumentsSound /\ DocumentsSound'
      /\ \A g \in Opened : documents[g] # None /\ g \in Files
      /\ documents \in [Files -> SoundOrNone]
  BY DEF IInv, DocumentsInv, DocumentsSound, Opened
<1>4. CASE documents' = [documents EXCEPT ![f].save = "failed"] /\ project' = typed
  <2> DEFINE failed == [documents[f] EXCEPT !.save = "failed"]
  <2>1. failed \in Document /\ failed.external = documents[f].external
    BY <1>2, UnsavedSound DEF SoundDocument, Document
  <2>2. documents' = [documents EXCEPT ![f] = failed]
    BY <1>4
  <2> HIDE DEF failed
  <2>3. \A g \in Opened : /\ documents'[g] # None
                          /\ documents'[g].external = documents[g].external
    BY <1>3, <2>1, <2>2, NoDocument
  <2>4. Conflicted # {} => Conflicted' # {}
    BY <1>3, <2>3, KeepConflicts
  <2> QED
    BY <1>4, <2>4 DEF SaveRefused
<1>5. CASE documents' = [documents EXCEPT ![f] = Conflict(@, f)] /\ project' = Invalid
  <2> DEFINE met == Conflict(documents[f], f)
  <2>1. met \in Document
    BY <1>2, ConflictSound DEF IInv, DocumentsInv, DocumentsSound, SoundDocument
  <2>2. met.external # "current"
    BY <1>2 DEF Conflict, DiskState, Document
  <2>3. documents' = [documents EXCEPT ![f] = met]
    BY <1>5
  <2> HIDE DEF met
  <2>4. documents'[f] = met
    BY <1>2, <1>3, <2>3
  <2>5. f \in Conflicted'
    BY <1>2, <2>1, <2>2, <2>4, NoDocument DEF Conflicted, Opened
  <2> QED
    BY <1>5, <2>5 DEF SaveRefused
<1> QED
  BY <1>1, <1>4, <1>5

\* The files that were written had no conflict.
LEMMA WrittenHistory ==
  ASSUME IInv, IInv', HistoryInv, SaveSucceeds \/ SaveFails
  PROVE  Conflicted # {} => Conflicted' # {}
<1>1. ASSUME NEW f \in Opened
      PROVE  /\ documents'[f] # None
             /\ documents'[f].external = documents[f].external
  <2>1. f \in Files /\ documents[f] \in SoundDocument /\ documents[f] \in Document
    BY OpenedIsSound DEF IInv, DocumentsInv
  <2>2. CASE f \in gate.writes /\ SaveSucceeds
    <3> DEFINE new == [documents[f] EXCEPT !.observed = documents[f].text,
                                           !.dirty = FALSE, !.save = "saved",
                                           !.external = "current"]
    <3>1. documents'[f] = new
      BY <2>1, <2>2 DEF SaveSucceeds
    <3>2. new \in Document
      BY <2>1, SavedSound DEF SoundDocument
    <3>3. new.external = "current"
      BY <2>1 DEF Document
    <3> HIDE DEF new
    <3>4. documents[f].external = "current"
      BY <2>2 DEF HistoryInv
    <3> QED
      BY <3>1, <3>2, <3>3, <3>4, NoDocument
  <2>3. CASE f \in gate.writes /\ SaveFails
    <3>1. documents'[f] = [documents[f] EXCEPT !.save = "failed"]
      BY <2>1, <2>3 DEF SaveFails
    <3>2. [documents[f] EXCEPT !.save = "failed"] \in Document
      BY <2>1, UnsavedSound DEF SoundDocument
    <3>3. [documents[f] EXCEPT !.save = "failed"].external = documents[f].external
      BY <2>1 DEF Document
    <3> QED
      BY <3>1, <3>2, <3>3, NoDocument
  <2>4. CASE f \notin gate.writes
    BY <2>1, <2>4, NoDocument DEF SaveSucceeds, SaveFails
  <2> QED
    BY <2>2, <2>3, <2>4
<1> QED
  BY <1>1, KeepConflicts DEF IInv, DocumentsInv

\* A save by hand.
LEMMA SavingHistory ==
  ASSUME IInv, IInv', HistoryInv, Saving
  PROVE  HistoryInv'
<1>1. UNCHANGED <<history, revision, checker>>
  BY DEF Saving, SaveAll, SaveAllWrites
<1>2. /\ UNCHANGED <<history, revision>>
      /\ pending' \in {None, pending} \/ OfNow(pending')
      /\ active' \in {None, active, pending}
  BY <1>1 DEF checker
<1>3. CASE SaveAll
  <2>1. CASE SaveBegins("saveAll", project)
    <3>1. project' = project
      BY <2>1 DEF SaveBegins
    <3>2. /\ Conflicted # {} => Conflicted' # {}
          /\ \A f \in gate'.writes :
               documents'[f] # None /\ documents'[f].external = "current"
      BY <2>1, SaveBeginsHistory
    <3> QED
      BY <1>2, <3>1, <3>2, KeepHistory
  <2>2. CASE SaveRefused(project)
    <3>1. /\ Conflicted # {} => Conflicted' # {}
          /\ project' = project \/ (project' = Invalid /\ Conflicted' # {})
          /\ UNCHANGED gate
      BY <2>2, SaveRefusedHistory
    <3>2. \A f \in gate'.writes : FALSE
      BY <1>3, <3>1, FreeWritesNothing DEF SaveAll, Settled, Authoring
    <3> QED
      BY <1>2, <3>1, <3>2, KeepHistory
  <2> QED
    BY <1>3, <2>1, <2>2 DEF SaveAll
<1>4. CASE SaveAllWrites
  <2>1. project' = project /\ gate' = Free /\ (SaveSucceeds \/ SaveFails)
    BY <1>4 DEF SaveAllWrites
  <2>2. \A f \in gate'.writes : FALSE
    BY <2>1 DEF Free
  <2>3. Conflicted # {} => Conflicted' # {}
    BY <2>1, WrittenHistory
  <2> QED
    BY <1>2, <2>1, <2>2, <2>3, KeepHistory
<1> QED
  BY <1>3, <1>4 DEF Saving

\* What apply_analysis makes of a check that is not stale.
LEMMA AnalysedHistory ==
  ASSUME HistoryInv, active # None, ~Stale
  PROVE  Analysed = project \/ Empty \/ (Analysed = Invalid /\ Conflicted # {})
BY DEF HistoryInv, Harmless, Stale, Analysed

\* The worker.
LEMMA WorkerHistory ==
  ASSUME IInv, IInv', HistoryInv, Worker
  PROVE  HistoryInv'
<1>1. CASE WorkerStart
  <2>1. /\ UNCHANGED <<documents, gate, project, revision, history>>
        /\ active' = pending /\ pending' = None
    BY <1>1 DEF WorkerStart, Scheduler!Start
  <2>2. Conflicted' = Conflicted
    BY <2>1 DEF Conflicted, Opened
  <2>3. \A f \in gate'.writes :
          documents'[f] # None /\ documents'[f].external = "current"
    BY <2>1 DEF HistoryInv
  <2> QED
    BY <2>1, <2>2, <2>3, KeepHistory
<1>2. CASE WorkerDrops
  <2>1. /\ UNCHANGED <<documents, gate, project, revision, history>>
        /\ active' = None /\ pending' = pending
    BY <1>2 DEF WorkerDrops, WorkerEnds, Scheduler!Finish
  <2>2. Conflicted' = Conflicted
    BY <2>1 DEF Conflicted, Opened
  <2>3. \A f \in gate'.writes :
          documents'[f] # None /\ documents'[f].external = "current"
    BY <2>1 DEF HistoryInv
  <2> QED
    BY <2>1, <2>2, <2>3, KeepHistory
<1>3. CASE WorkerCompletes
  <2>1. /\ UNCHANGED <<history, revision>> /\ gate = Free
        /\ pending' = pending /\ active' \in {None, active}
    BY <1>3 DEF WorkerCompletes, Authoring, checker, WorkerEnds, Scheduler!Finish
  <2>2. Analysed = project \/ Empty \/ (Analysed = Invalid /\ Conflicted # {})
    BY <1>3, AnalysedHistory DEF WorkerCompletes
  <2>3. CASE project' = Analysed /\ UNCHANGED <<documents, gate>>
    <3>1. Conflicted' = Conflicted
      BY <2>3 DEF Conflicted, Opened
    <3>2. \A f \in gate'.writes : FALSE
      BY <2>1, <2>3, FreeWritesNothing
    <3> QED
      BY <2>1, <2>2, <2>3, <3>1, <3>2, KeepHistory
  <2>4. CASE SaveBegins("worker", Analysed)
    <3>1. project' = Analysed
      BY <2>4 DEF SaveBegins
    <3>2. PICK found : found = Analysed
      OBVIOUS
    <3>3. SaveBegins("worker", found)
      BY <2>4, <3>2 DEF SaveBegins
    <3>4. /\ Conflicted # {} => Conflicted' # {}
          /\ \A f \in gate'.writes :
               documents'[f] # None /\ documents'[f].external = "current"
      BY <3>3, SaveBeginsHistory
    <3> QED
      BY <2>1, <2>2, <3>1, <3>4, KeepHistory
  <2>5. CASE SaveRefused(Analysed)
    <3>1. PICK found : found = Analysed
      OBVIOUS
    <3>2. SaveRefused(found)
      BY <2>5, <3>1 DEF SaveRefused
    <3>3. /\ Conflicted # {} => Conflicted' # {}
          /\ project' = found \/ (project' = Invalid /\ Conflicted' # {})
          /\ UNCHANGED gate
      BY <3>2, SaveRefusedHistory
    <3>4. \A f \in gate'.writes : FALSE
      BY <2>1, <3>3, FreeWritesNothing
    <3> QED
      BY <2>1, <2>2, <3>1, <3>3, <3>4, KeepHistory
  <2> QED
    BY <1>3, <2>3, <2>4, <2>5 DEF WorkerCompletes
<1>4. CASE WorkerWrites
  <2>1. /\ UNCHANGED <<history, revision, project>>
        /\ active' = None /\ pending' = pending
        /\ gate' = Free /\ (SaveSucceeds \/ SaveFails)
    BY <1>4 DEF WorkerWrites, WorkerEnds, Scheduler!Finish
  <2>2. \A f \in gate'.writes : FALSE
    BY <2>1 DEF Free
  <2>3. Conflicted # {} => Conflicted' # {}
    BY <2>1, WrittenHistory
  <2> QED
    BY <2>1, <2>2, <2>3, KeepHistory
<1> QED
  BY <1>1, <1>2, <1>3, <1>4 DEF Worker

\* A transition that read the project again, or failed to, has no history.
LEMMA ClearedHistory ==
  ASSUME IInv, HistoryInv, undo' = <<>>, redo' = <<>>, gate' = Free,
         revision' \in {revision, revision + 1},
         pending' \in {None, pending}, active' = active
  PROVE  HistoryInv'
<1>1. UndoChain(undo)' /\ RedoChain(redo)'
  BY EmptySeq DEF UndoChain, RedoChain
<1>2. Empty'
  BY DEF Empty
<1>3. Harmless(pending)' /\ Harmless(active)'
  <2>1. revision \in Nat
    BY DEF IInv, ProjectInv
  <2>2. /\ active # None => active.revision \in Nat
        /\ pending # None => pending.revision \in Nat
    BY DEF IInv, CheckerInv, CheckRequest
  <2> QED
    BY <1>2, <2>1, <2>2 DEF HistoryInv, Harmless
<1>4. \A f \in gate'.writes : FALSE
  BY DEF Free
<1>5. \E session : /\ Meets(session)'
                   /\ project'.health = "ready" => project'.session = session
  BY DEF Meets
<1> QED
  BY <1>1, <1>2, <1>3, <1>4, <1>5 DEF HistoryInv

\* The steps of a transition.
LEMMA TransitionStepHistory ==
  ASSUME IInv, IInv', HistoryInv, TransitionStep
  PROVE  HistoryInv'
<1>1. CASE TransitionReconciles
  <2>1. gate' = Free
    BY <1>1 DEF TransitionReconciles, Authoring
  <2>2. CASE SourcesChanged(Reconciled)
    BY <2>1, <2>2, SourcesChangedHistory
  <2>3. CASE ~SourcesChanged(Reconciled)
    BY <1>1, <2>3, SameHistory DEF TransitionReconciles
  <2> QED
    BY <2>2, <2>3
<1>2. CASE TransitionEnds
  BY <1>2, SameHistory DEF TransitionEnds
<1>3. CASE TransitionSaves
  <2>1. UNCHANGED <<history, revision, checker>> /\ gate = Free
    BY <1>3 DEF TransitionSaves, Deciding, Settled, Authoring
  <2>2. /\ UNCHANGED <<history, revision>>
        /\ pending' \in {None, pending} /\ active' \in {None, active, pending}
    BY <2>1 DEF checker
  <2>3. CASE SaveBegins("transition", project)
    <3>1. project' = project
      BY <2>3 DEF SaveBegins
    <3>2. /\ Conflicted # {} => Conflicted' # {}
          /\ \A f \in gate'.writes :
               documents'[f] # None /\ documents'[f].external = "current"
      BY <2>3, SaveBeginsHistory
    <3> QED
      BY <2>2, <3>1, <3>2, KeepHistory
  <2>4. CASE SaveRefused(project)
    <3>1. /\ Conflicted # {} => Conflicted' # {}
          /\ project' = project \/ (project' = Invalid /\ Conflicted' # {})
          /\ UNCHANGED gate
      BY <2>4, SaveRefusedHistory
    <3>2. \A f \in gate'.writes : FALSE
      BY <2>1, <3>1, FreeWritesNothing
    <3> QED
      BY <2>2, <3>1, <3>2, KeepHistory
  <2> QED
    BY <1>3, <2>3, <2>4 DEF TransitionSaves
<1>4. CASE TransitionWrites
  <2>1. /\ UNCHANGED <<project, revision, history, checker>>
        /\ SaveSucceeds \/ SaveFails
        /\ gate'.writes = {}
    BY <1>4 DEF TransitionWrites, IInv, DocumentsInv, Free
  <2>2. Conflicted # {} => Conflicted' # {}
    BY <2>1, WrittenHistory
  <2> QED
    BY <2>1, <2>2, QuietHistory
<1>5. CASE CloseFile
  <2>1. gate' = Free
    BY <1>5, AppliesInv DEF CloseFile
  <2>2. CASE SourcesChanged(Discarded(Thrown))
    BY <2>1, <2>2, SourcesChangedHistory
  <2>3. CASE UNCHANGED <<documents, project, epoch, revision, history, autosave,
                         checker>>
    <3>1. Conflicted' = Conflicted
      BY <2>3 DEF Conflicted, Opened
    <3>2. \A f \in gate'.writes : FALSE
      BY <2>1 DEF Free
    <3> QED
      BY <2>3, <3>1, <3>2, QuietHistory
  <2> QED
    BY <1>5, <2>2, <2>3 DEF CloseFile
<1>6. CASE ReloadFile
  BY <1>6, AppliesInv, SourcesChangedHistory DEF ReloadFile
<1>7. CASE ReloadProject
  BY <1>7, AppliesInv, ClearedHistory DEF ReloadProject, Scheduler!Invalidate
<1>8. CASE CloseApplication
  <2>1. Conflicted' = Conflicted
    BY <1>8 DEF CloseApplication, Conflicted, Opened
  <2>2. \A f \in gate'.writes : FALSE
    BY <1>8, AppliesInv DEF CloseApplication, Free
  <2> QED
    BY <1>8, <2>1, <2>2, QuietHistory DEF CloseApplication
<1>9. CASE TransitionFails
  <2>1. gate' = Free /\ UNCHANGED <<documents, project, revision, checker>>
    BY <1>9, AppliesInv DEF TransitionFails
  <2>2. CASE UNCHANGED history
    <3>1. Conflicted' = Conflicted
      BY <2>1 DEF Conflicted, Opened
    <3>2. \A f \in gate'.writes : FALSE
      BY <2>1 DEF Free
    <3> QED
      BY <2>1, <2>2, <3>1, <3>2, QuietHistory
  <2>3. CASE undo' = <<>> /\ redo' = <<>>
    BY <2>1, <2>3, ClearedHistory DEF checker
  <2> QED
    BY <1>9, <2>2, <2>3 DEF TransitionFails
<1> QED
  BY <1>1, <1>2, <1>3, <1>4, <1>5, <1>6, <1>7, <1>8, <1>9 DEF TransitionStep

\* Asking for a transition, its steps, and closing.
LEMMA TransitionsHistory ==
  ASSUME IInv, IInv', HistoryInv, Transitions
  PROVE  HistoryInv'
<1>1. ASSUME NEW kind \in {"closeFile", "reloadFile", "reloadProject", "close"},
             NEW f \in Files, NEW decision \in Decision,
             RequestTransition(kind, f, decision)
      PROVE  HistoryInv'
  BY <1>1, SameHistory DEF RequestTransition
<1>2. CASE TransitionStep
  BY <1>2, TransitionStepHistory
<1>3. CASE FinishClose
  BY <1>3, SameHistory DEF FinishClose
<1> QED
  BY <1>1, <1>2, <1>3 DEF Transitions

\* A move of a path waits for the checks, and clears the history.
LEMMA MovingHistory ==
  ASSUME IInv, HistoryInv, Moving
  PROVE  HistoryInv'
<1>1. CASE ChangePath
  <2>1. /\ UNCHANGED <<documents, project, revision, history, checker>>
        /\ gate'.writes = {}
    BY <1>1 DEF ChangePath
  <2>2. Conflicted' = Conflicted
    BY <2>1 DEF Conflicted, Opened
  <2> QED
    BY <2>1, <2>2, QuietHistory
<1>2. CASE PathRefreshes
  <2>1. /\ undo' = <<>> /\ redo' = <<>> /\ gate' = Free
        /\ revision' = revision + 1 /\ pending' = pending /\ active' = active
    BY <1>2 DEF PathRefreshes, checker
  <2> QED
    BY <2>1, ClearedHistory
<1> QED
  BY <1>1, <1>2 DEF Moving

\* At the start there is no history.
LEMMA InitHistory == Init => HistoryInv
<1> SUFFICES ASSUME Init
             PROVE  HistoryInv
  OBVIOUS
<1>1. UndoChain(undo) /\ RedoChain(redo) /\ Empty
  BY EmptySeq DEF Init, UndoChain, RedoChain, Empty
<1>2. \E session : /\ Meets(session)
                   /\ project.health = "ready" => project.session = session
  BY DEF Init, Meets
<1>3. Harmless(pending) /\ Harmless(active)
  BY DEF Init, Harmless
<1>4. \A f \in gate.writes : FALSE
  BY FreeWritesNothing DEF Init
<1> QED
  BY <1>1, <1>2, <1>3, <1>4 DEF HistoryInv

\* The invariant is inductive, with that of the types.
LEMMA NextHistory == IInv /\ HistoryInv /\ [Next]_vars => (IInv /\ HistoryInv)'
<1> SUFFICES ASSUME IInv, HistoryInv, [Next]_vars
             PROVE  IInv' /\ HistoryInv'
  OBVIOUS
<1>1. IInv'
  BY NextInv
<1>2. CASE UNCHANGED vars
  BY <1>1, <1>2, SameHistory DEF vars
<1>3. CASE TextAuthoring
  BY <1>1, <1>3, TextAuthoringHistory
<1>4. CASE GuiAuthoring
  BY <1>1, <1>4, GuiAuthoringHistory
<1>5. CASE Outside
  BY <1>1, <1>5, OutsideHistory
<1>6. CASE Saving
  BY <1>1, <1>6, SavingHistory
<1>7. CASE Worker
  BY <1>1, <1>7, WorkerHistory
<1>8. CASE Transitions
  BY <1>1, <1>8, TransitionsHistory
<1>9. CASE Moving
  BY <1>1, <1>9, MovingHistory
<1>10. CASE Ended
  BY <1>1, <1>2, <1>10 DEF Ended
<1>11. \/ UNCHANGED vars \/ TextAuthoring \/ GuiAuthoring \/ Outside \/ Saving
       \/ Worker \/ Transitions \/ Moving \/ Ended
  BY DEF Next
<1> QED
  BY <1>1, <1>2, <1>3, <1>4, <1>5, <1>6, <1>7, <1>8, <1>9, <1>10, <1>11
-----------------------------------------------------------------------------
\* Undo and redo step through the states the project went through, whatever the
\* files and the texts, however long the history and however it is trimmed:
\* through edits, checks that end late, conflicts, saves, moves and transitions.
THEOREM HistoryIsPath == Spec => []HistoryIsAPath
<1>1. Init => IInv /\ HistoryInv
  BY InitInv, InitHistory
<1>2. IInv /\ HistoryInv /\ [Next]_vars => (IInv /\ HistoryInv)'
  BY NextHistory
<1>3. HistoryInv => HistoryIsAPath
  BY HistoryImplies
<1> QED
  BY <1>1, <1>2, <1>3, PTL DEF Spec

(***************************************************************************)
(* What a step makes of one document.                                      *)
(***************************************************************************)
\* The document is the same one, edited or not: its revision counts its texts.
Follows(new, old) == /\ new # None
                     /\ new.rev >= old.rev
                     /\ new.rev = old.rev => new.text = old.text

\* What happens to the document of one file while the project is not loaded again.
StepOf(f) ==
  \/ documents'[f] = documents[f]
  \/ documents'[f] = None /\ disk[f] = None
  \/ /\ f \in Opened
     /\ Follows(documents'[f], documents[f])
     /\ documents'[f].observed \in {documents[f].observed, disk'[f]}
     /\ \/ documents'[f].external \in {"current", documents[f].external}
        \/ project'.health # "ready"
  \/ /\ f \notin Opened
     /\ documents'[f] # None
     /\ documents'[f].observed = disk[f] /\ documents'[f].external = "current"
     /\ disk[f] # None \/ (project'.health = "ready" /\ project'.session[f] # None)

\* A document without a text may be edited too.
LEMMA DocumentIsUnwritten == Document \subseteq Unwritten
BY DEF Document, Unwritten, Save, TextOrNone

\* Editing keeps everything but the text.
LEMMA EditFollows ==
  ASSUME NEW doc \in Unwritten, NEW t \in Texts
  PROVE  /\ Edit(doc, t) # None
         /\ Edit(doc, t).rev \in Nat /\ Edit(doc, t).rev >= doc.rev
         /\ Edit(doc, t).rev = doc.rev => Edit(doc, t).text = doc.text
         /\ Edit(doc, t).text = t
         /\ Edit(doc, t).observed = doc.observed
         /\ Edit(doc, t).external = doc.external
<1>1. /\ Edit(doc, t).text = t /\ Edit(doc, t).observed = doc.observed
      /\ doc.text # t => Edit(doc, t) \in Document
  BY EditSound
<1>2. Edit(doc, t).external = doc.external
  BY EditKeepsConflict
<1>3. doc.rev \in Nat
  BY DEF Unwritten
<1>4. CASE doc.text = t
  <2>1. Edit(doc, t) = doc
    BY <1>4 DEF Edit
  <2>2. doc \in Document
    BY <1>4 DEF Document, Unwritten, Save
  <2> QED
    BY <1>1, <1>2, <1>3, <2>1, <2>2, NoDocument
<1>5. CASE doc.text # t
  <2>1. Edit(doc, t).rev = doc.rev + 1
    BY <1>5 DEF Edit, Unwritten
  <2> QED
    BY <1>1, <1>2, <1>3, <1>5, <2>1, NoDocument
<1> QED
  BY <1>4, <1>5

\* Giving a document another text is a step of it.
LEMMA EditStep ==
  ASSUME DocumentsInv, NEW f \in Opened, NEW t \in Texts,
         documents'[f] = Edit(documents[f], t)
  PROVE  StepOf(f)
<1>1. documents[f] \in Unwritten
  BY OpenedIsSound, DocumentIsUnwritten DEF DocumentsInv
<1> QED
  BY <1>1, EditFollows DEF StepOf, Follows

\* So is reading it again, when the file exists.
LEMMA ReadAgain ==
  ASSUME DocumentsInv, NEW f \in Opened, disk[f] # None, disk' = disk,
         NEW external \in {"current", "changed", "deleted"},
         documents'[f] = Edit([documents[f] EXCEPT !.observed = disk[f],
                                                   !.external = external], disk[f]),
         external \in {"current", documents[f].external}
  PROVE  StepOf(f)
<1> DEFINE doc == [documents[f] EXCEPT !.observed = disk[f], !.external = external]
<1>1. documents[f] \in Document /\ disk[f] \in Texts
  BY OpenedIsSound DEF DocumentsInv, DocumentsSound, TextOrNone, Opened
<1>2. /\ doc \in Unwritten /\ doc.rev = documents[f].rev /\ doc.text = documents[f].text
      /\ doc.observed = disk[f] /\ doc.external = external
  BY <1>1 DEF Document, Unwritten, Save, TextOrNone
<1> HIDE DEF doc
<1>3. documents'[f] = Edit(doc, disk[f])
  BY DEF doc
<1> QED
  BY <1>1, <1>2, <1>3, EditFollows DEF StepOf, Follows

\* Reloading it is one, too.
LEMMA ReloadedStep ==
  ASSUME DocumentsInv, NEW f \in Opened, disk[f] # None, disk' = disk,
         documents'[f] = Reloaded(documents[f], disk[f])
  PROVE  StepOf(f)
<1> DEFINE doc == [documents[f] EXCEPT !.observed = disk[f]]
           edited == Edit(doc, disk[f])
<1>1. documents[f] \in Document /\ disk[f] \in Texts
  BY OpenedIsSound DEF DocumentsInv, DocumentsSound, TextOrNone, Opened
<1>2. /\ doc \in Document /\ doc.rev = documents[f].rev /\ doc.text = documents[f].text
      /\ doc.observed = disk[f]
  BY <1>1 DEF Document, TextOrNone
<1>3. doc \in Unwritten
  BY <1>2, DocumentIsUnwritten
<1>4. doc.text = disk[f] => edited = doc
  BY DEF Edit
<1> HIDE DEF doc
<1>5. /\ edited \in Document /\ edited.rev >= documents[f].rev
      /\ edited.rev = documents[f].rev => edited.text = documents[f].text
      /\ edited.observed = disk[f]
  BY <1>1, <1>2, <1>3, EditFollows, EditSound
<1>6. documents'[f] = [edited EXCEPT !.dirty = FALSE, !.save = "saved",
                                     !.external = "current"]
  BY DEF Reloaded, doc
<1> HIDE DEF edited
<1>7. /\ documents'[f] \in Document /\ documents'[f].rev = edited.rev
      /\ documents'[f].text = edited.text /\ documents'[f].observed = edited.observed
      /\ documents'[f].external = "current"
  BY <1>5, <1>6 DEF Document
<1> QED
  BY <1>5, <1>7, NoDocument DEF StepOf, Follows

\* A mark changes what a document knows, not its text.
LEMMA MarkStep ==
  ASSUME NEW f \in Opened, documents'[f] \in Document,
         documents'[f].rev = documents[f].rev, documents'[f].rev \in Nat,
         documents'[f].text = documents[f].text,
         documents'[f].observed \in {documents[f].observed, disk'[f]},
         documents'[f].external \in {"current", documents[f].external}
           \/ project'.health # "ready"
  PROVE  StepOf(f)
BY NoDocument DEF StepOf, Follows

\* Texts are given to documents that are open, or that exist and are loaded.
LEMMA RewrittenStep ==
  ASSUME DocumentsInv, NEW done \in SUBSET Files, NEW texts, \A f \in done : texts[f] \in Texts,
         \A f \in done : f \in Opened \/ disk[f] # None,
         documents' = Rewritten(done, texts), NEW f \in Files
  PROVE  StepOf(f)
<1>1. CASE f \notin done
  BY <1>1 DEF Rewritten, StepOf
<1>2. CASE f \in done /\ f \in Opened
  BY <1>2, EditStep DEF Rewritten, Loaded
<1>3. CASE f \in done /\ f \notin Opened
  <2> DEFINE doc == NewDocument(disk[f])
  <2>1. documents'[f] = Edit(doc, texts[f]) /\ disk[f] # None
    BY <1>3 DEF Rewritten, Loaded
  <2>2. doc \in Unwritten /\ doc.observed = disk[f] /\ doc.external = "current"
    BY NewSound, DocumentIsUnwritten, <2>1 DEF DocumentsInv, SoundDocument, NewDocument
  <2> HIDE DEF doc
  <2> QED
    BY <1>3, <2>1, <2>2, EditFollows DEF StepOf
<1> QED
  BY <1>1, <1>2, <1>3

\* The GUI prints documents, and opens those of the session that were not open.
LEMMA PrintedStep ==
  ASSUME DocumentsInv, NEW session \in Session, NEW paths \in SUBSET Files,
         AcceptGuiSources(session, paths), NEW f \in Files
  PROVE  StepOf(f)
<1>0. /\ documents' = Printed(session, paths)
      /\ project'.health = "ready" /\ project'.session = session
  BY DEF AcceptGuiSources, Ready
<1>1. CASE ~(f \in paths /\ session[f] # None)
  BY <1>0, <1>1 DEF Printed, StepOf
<1>2. CASE f \in paths /\ session[f] # None
  <2> DEFINE t == Canonical[session[f]]
  <2>1. t \in Texts
    BY <1>2, WorkingCopyAssumption DEF Session
  <2>2. documents'[f] = Edit(IF f \in Opened THEN documents[f] ELSE Unread(f), t)
    BY <1>0, <1>2 DEF Printed
  <2>3. /\ Unread(f) \in Unwritten
        /\ Unread(f).observed = disk[f] /\ Unread(f).external = "current"
    BY DEF DocumentsInv, DocumentsSound, Unread, NewDocument, Unwritten, Save, TextOrNone
  <2> HIDE DEF t
  <2>4. CASE f \in Opened
    BY <2>1, <2>2, <2>4, EditStep
  <2>5. CASE f \notin Opened
    BY <1>0, <1>2, <2>1, <2>2, <2>3, <2>5, EditFollows DEF StepOf
  <2> QED
    BY <2>4, <2>5
<1> QED
  BY <1>1, <1>2

\* What a reconcile makes of a document; it takes the typed project away.
LEMMA ReconciledStep ==
  ASSUME DocumentsInv, SourcesChanged(Reconciled), disk' = disk, NEW f \in Files
  PROVE  StepOf(f)
<1>0. documents'[f] = ReconciledDocument(f) /\ project'.health # "ready"
  BY DEF SourcesChanged, Reconciled, Checking
<1> DEFINE doc == documents[f]
<1>1. CASE f \notin Opened
  <2>1. documents'[f] = IF disk[f] = None THEN None ELSE NewDocument(disk[f])
    BY <1>0, <1>1 DEF ReconciledDocument
  <2>2. disk[f] # None => NewDocument(disk[f]) # None
    BY NewSound, NoDocument DEF DocumentsInv, SoundDocument
  <2> QED
    BY <1>1, <2>1, <2>2 DEF StepOf, NewDocument
<1>2. CASE f \in Opened
  <2>0. doc \in Document /\ disk[f] \in TextOrNone
    BY <1>2, OpenedIsSound DEF DocumentsInv, DocumentsSound
  <2>1. CASE disk[f] = doc.observed
    BY <1>0, <1>2, <2>1 DEF ReconciledDocument, StepOf
  <2>2. CASE disk[f] # doc.observed /\ disk[f] = doc.text
    <3>1. documents'[f] = MatchesDisk(doc, f)
      BY <1>0, <1>2, <2>2 DEF ReconciledDocument
    <3>2. /\ MatchesDisk(doc, f) \in Document /\ MatchesDisk(doc, f).rev = doc.rev
          /\ MatchesDisk(doc, f).text = doc.text /\ MatchesDisk(doc, f).observed = disk[f]
          /\ MatchesDisk(doc, f).rev \in Nat
      BY <2>0 DEF MatchesDisk, Document
    <3> QED
      BY <1>0, <1>2, <3>1, <3>2, MarkStep
  <2>3. CASE disk[f] \notin {doc.observed, doc.text} /\ doc.dirty
    <3>1. documents'[f] = Conflict(doc, f)
      BY <1>0, <1>2, <2>3 DEF ReconciledDocument
    <3>2. /\ Conflict(doc, f) \in Document /\ Conflict(doc, f).rev = doc.rev
          /\ Conflict(doc, f).text = doc.text /\ Conflict(doc, f).observed = disk[f]
          /\ Conflict(doc, f).rev \in Nat
      BY <2>0 DEF Conflict, DiskState, Document
    <3> QED
      BY <1>0, <1>2, <3>1, <3>2, MarkStep
  <2>4. CASE disk[f] \notin {doc.observed, doc.text} /\ ~doc.dirty
    <3>1. documents'[f] = IF disk[f] = None THEN None
                          ELSE Edit([doc EXCEPT !.observed = disk[f],
                                                !.external = "current"], disk[f])
      BY <1>0, <1>2, <2>4 DEF ReconciledDocument
    <3>2. CASE disk[f] = None
      BY <3>1, <3>2 DEF StepOf
    <3>3. CASE disk[f] # None
      BY <1>2, <3>1, <3>3, ReadAgain
    <3> QED
      BY <3>2, <3>3
  <2> QED
    BY <2>1, <2>2, <2>3, <2>4
<1> QED
  BY <1>1, <1>2

\* A decision reloads the document, or keeps its text.
LEMMA DecidedStep ==
  ASSUME DocumentsInv, NEW g \in Opened, NEW decision, disk' = disk,
         decision = "reload" => disk[g] # None,
         documents' = [documents EXCEPT ![g] = Decided(g, decision)], NEW f \in Files
  PROVE  StepOf(f)
<1>0. g \in Files /\ documents[g] \in Document /\ disk[g] \in TextOrNone
      /\ documents \in [Files -> SoundOrNone]
  BY OpenedIsSound DEF DocumentsInv, DocumentsSound
<1>1. CASE f # g
  BY <1>0, <1>1 DEF StepOf
<1>2. CASE f = g /\ decision = "reload"
  BY <1>0, <1>2, ReloadedStep DEF Decided
<1>3. CASE f = g /\ decision # "reload"
  <2> DEFINE doc == documents[f]
             kept == disk[f] # doc.text
             save == IF kept THEN "dirty" ELSE "saved"
             new == [doc EXCEPT !.observed = disk[f], !.dirty = kept, !.save = save,
                                !.external = "current"]
  <2>1. documents'[f] = Decided(f, decision)
    BY <1>0, <1>3
  <2>2. Decided(f, decision) = new
    BY <1>3 DEF Decided
  <2>3. kept \in BOOLEAN /\ save \in Save
    BY DEF Save
  <2>4. doc \in Document /\ disk[f] \in TextOrNone
    BY <1>0, <1>3
  <2>5. new \in Document /\ new.rev = doc.rev /\ new.rev \in Nat /\ new.text = doc.text
        /\ new.observed = disk[f] /\ new.external = "current"
    <3> HIDE DEF kept, save, doc
    <3> QED  BY <2>3, <2>4 DEF Document, Save
  <2> HIDE DEF new, kept, save
  <2>6. documents'[f] = new
    BY <2>1, <2>2
  <2> QED
    BY <1>3, <2>5, <2>6, MarkStep
<1> QED
  BY <1>1, <1>2, <1>3

\* Discarding reads the files again.
LEMMA DiscardedStep ==
  ASSUME DocumentsInv, NEW paths, documents' = Discarded(paths), disk' = disk,
         NEW f \in Files
  PROVE  StepOf(f)
<1>1. CASE f \notin paths \cap Opened
  BY <1>1 DEF Discarded, StepOf
<1>2. CASE f \in paths \cap Opened
  BY <1>2, ReloadedStep DEF Discarded, StepOf
<1> QED
  BY <1>1, <1>2

\* After a move the files are read again.
LEMMA RefreshedStep ==
  ASSUME DocumentsInv, NEW read \in SUBSET Refreshable, \A f \in read : disk[f] # None,
         documents' = Refreshed(read), disk' = disk, NEW f \in Files
  PROVE  StepOf(f)
<1>1. CASE f \notin read
  BY <1>1 DEF Refreshed, StepOf
<1>2. CASE f \in read
  <2>1. f \in Opened /\ documents[f] \in Document
    BY <1>2, OpenedIsSound DEF Refreshable, DocumentsInv
  <2>2. documents[f].external \in {"current", "changed", "deleted"}
        /\ [documents[f] EXCEPT !.observed = disk[f]]
             = [documents[f] EXCEPT !.observed = disk[f], !.external = documents[f].external]
    BY <2>1 DEF Document
  <2>3. documents'[f] = Edit([documents[f] EXCEPT !.observed = disk[f]], disk[f])
    BY <1>2 DEF Refreshed
  <2> QED
    BY <1>2, <2>1, <2>2, <2>3, ReadAgain
<1> QED
  BY <1>1, <1>2

\* A save that begins marks what it writes.
LEMMA SaveBeginsStep ==
  ASSUME DocumentsInv, NEW holder, NEW typed, SaveBegins(holder, typed), NEW f \in Files
  PROVE  StepOf(f)
<1>1. CASE f \in Dirty
  <2>1. f \in Opened /\ documents[f] \in Document
    BY <1>1, OpenedIsSound DEF DocumentsInv, Dirty
  <2>2. documents'[f] = [documents[f] EXCEPT !.save = "saving"]
    BY <1>1 DEF SaveBegins
  <2>3. /\ documents'[f] \in Document /\ documents'[f].rev = documents[f].rev
        /\ documents'[f].rev \in Nat /\ documents'[f].text = documents[f].text
        /\ documents'[f].observed = documents[f].observed
        /\ documents'[f].external = documents[f].external
    BY <2>1, <2>2 DEF Document
  <2> QED
    BY <2>1, <2>3, MarkStep
<1>2. CASE f \notin Dirty
  BY <1>2 DEF SaveBegins, StepOf
<1> QED
  BY <1>1, <1>2

\* One that is refused marks a document, and a conflict takes the project away.
LEMMA SaveRefusedStep ==
  ASSUME DocumentsInv, NEW typed, SaveRefused(typed), disk' = disk, NEW f \in Files
  PROVE  StepOf(f)
<1>1. PICK g \in Dirty :
        \/ documents' = [documents EXCEPT ![g].save = "failed"]
        \/ documents' = [documents EXCEPT ![g] = Conflict(@, g)] /\ project' = Invalid
  BY DEF SaveRefused
<1>2. g \in Opened /\ g \in Files /\ documents[g] \in Document /\ disk[g] \in TextOrNone
      /\ documents \in [Files -> SoundOrNone]
  BY OpenedIsSound DEF DocumentsInv, DocumentsSound, Dirty
<1>3. CASE f # g
  BY <1>1, <1>2, <1>3 DEF StepOf
<1>4. CASE f = g /\ documents' = [documents EXCEPT ![g].save = "failed"]
  <2>1. documents'[f] = [documents[f] EXCEPT !.save = "failed"]
    BY <1>2, <1>4
  <2>2. /\ documents'[f] \in Document /\ documents'[f].rev = documents[f].rev
        /\ documents'[f].rev \in Nat /\ documents'[f].text = documents[f].text
        /\ documents'[f].observed = documents[f].observed
        /\ documents'[f].external = documents[f].external
    BY <1>2, <1>4, <2>1 DEF Document
  <2> QED
    BY <1>2, <1>4, <2>2, MarkStep
<1>5. CASE /\ f = g
           /\ documents' = [documents EXCEPT ![g] = Conflict(@, g)] /\ project' = Invalid
  <2>1. documents'[f] = Conflict(documents[f], f) /\ project'.health # "ready"
    BY <1>2, <1>5 DEF Invalid
  <2>2. /\ documents'[f] \in Document /\ documents'[f].rev = documents[f].rev
        /\ documents'[f].rev \in Nat /\ documents'[f].text = documents[f].text
        /\ documents'[f].observed = disk[f]
    BY <1>2, <1>5, <2>1 DEF Conflict, DiskState, Document
  <2> QED
    BY <1>2, <1>5, <2>1, <2>2, MarkStep
<1> QED
  BY <1>1, <1>3, <1>4, <1>5

\* What was written is saved and seen, or failed.
LEMMA WrittenStep ==
  ASSUME DocumentsInv, SaveSucceeds \/ SaveFails, NEW f \in Files
  PROVE  StepOf(f)
<1>1. CASE f \notin gate.writes
  BY <1>1 DEF SaveSucceeds, SaveFails, StepOf
<1>2. CASE f \in gate.writes
  <2>1. f \in Opened /\ documents[f] \in Document
    BY <1>2, NoDocument DEF DocumentsInv, SoundDocument, Opened
  <2>2. CASE SaveSucceeds
    <3>1. documents'[f] = [documents[f] EXCEPT !.observed = documents[f].text,
                             !.dirty = FALSE, !.save = "saved", !.external = "current"]
          /\ disk'[f] = documents[f].text
      BY <1>2, <2>2 DEF SaveSucceeds
    <3>2. /\ documents'[f] \in Document /\ documents'[f].rev = documents[f].rev
          /\ documents'[f].rev \in Nat /\ documents'[f].text = documents[f].text
          /\ documents'[f].observed = disk'[f]
          /\ documents'[f].external = "current"
      BY <2>1, <3>1 DEF Document, TextOrNone
    <3> QED
      BY <2>1, <3>2, MarkStep
  <2>3. CASE SaveFails
    <3>1. documents'[f] = [documents[f] EXCEPT !.save = "failed"]
      BY <1>2, <2>3 DEF SaveFails
    <3>2. /\ documents'[f] \in Document /\ documents'[f].rev = documents[f].rev
          /\ documents'[f].rev \in Nat /\ documents'[f].text = documents[f].text
          /\ documents'[f].observed = documents[f].observed
          /\ documents'[f].external = documents[f].external
      BY <2>1, <3>1 DEF Document
    <3> QED
      BY <2>1, <3>2, MarkStep
  <2> QED
    BY <2>2, <2>3
<1> QED
  BY <1>1, <1>2

\* Every step is one of each document, but for loading the project again.
LEMMA DocumentSteps ==
  ASSUME IInv, [Next]_vars, ~ReloadProject, NEW f \in Files
  PROVE  StepOf(f)
<1>0. DocumentsInv
  BY DEF IInv
<1>1. ASSUME documents' = documents
      PROVE  StepOf(f)
  BY <1>1 DEF StepOf
<1>2. ASSUME NEW edit, NEW text \in Texts, UpdateDocument(edit, text)
      PROVE  StepOf(f)
  <2>1. /\ documents' = [documents EXCEPT ![edit.file] = Edit(@, text)]
        /\ edit.file \in Opened /\ documents \in [Files -> SoundOrNone]
    BY <1>0, <1>2 DEF UpdateDocument, SourcesChanged, Accepts, DocumentsInv, DocumentsSound
  <2>2. CASE f = edit.file
    BY <1>0, <2>1, <2>2, EditStep
  <2>3. CASE f # edit.file
    BY <2>1, <2>3 DEF StepOf
  <2> QED
    BY <2>2, <2>3
<1>3. ASSUME NEW g \in Files, OpenFile(g)
      PROVE  StepOf(f)
  <2>1. /\ documents' = [documents EXCEPT ![g] = NewDocument(disk[g])]
        /\ g \notin Opened /\ disk[g] # None /\ documents \in [Files -> SoundOrNone]
    BY <1>0, <1>3 DEF OpenFile, DocumentsInv, DocumentsSound
  <2>2. NewDocument(disk[g]) # None
    BY <1>0, <2>1, NewSound, NoDocument DEF DocumentsInv, SoundDocument
  <2> QED
    BY <2>1, <2>2 DEF StepOf, NewDocument
<1>4. ASSUME NEW files \in SUBSET Files, NEW texts \in [files -> Texts],
             ChangeDocuments(files, texts) \/ ChangeDocumentsPartly(files, texts)
      PROVE  StepOf(f)
  <2>1. PICK done \in SUBSET files : /\ \A g \in done : g \in Opened \/ disk[g] # None
                                     /\ documents' = Rewritten(done, texts)
    BY <1>4 DEF ChangeDocuments, ChangeDocumentsPartly, SourcesChanged
  <2>2. \A g \in done : texts[g] \in Texts
    BY <2>1
  <2> QED
    BY <1>0, <2>1, <2>2, RewrittenStep
<1>5. CASE TextAuthoring
  BY <1>1, <1>2, <1>3, <1>4, <1>5 DEF TextAuthoring, EditText, TakeDraft, SendDraft
<1>6. CASE GuiAuthoring
  BY <1>0, <1>6, GuiPrints, PrintedStep
<1>7. CASE Outside
  <2>1. ASSUME NEW g \in Files, NEW decision \in {"reload", "keep"},
               ResolveExternalConflict(g, decision)
        PROVE  StepOf(f)
    BY <1>0, <2>1, DecidedStep DEF ResolveExternalConflict, SourcesChanged
  <2>2. CASE ReconcileExternalFiles
    BY <1>0, <2>2, ReconciledStep DEF ReconcileExternalFiles
  <2> QED
    BY <1>1, <1>7, <2>1, <2>2 DEF Outside, ExternalWrite, SetAutosave, SetAutosaveFails
<1>8. ASSUME NEW holder, NEW typed, SaveBegins(holder, typed) \/ SaveRefused(typed),
             disk' = disk
      PROVE  StepOf(f)
  BY <1>0, <1>8, SaveBeginsStep, SaveRefusedStep
<1>9. CASE Saving
  BY <1>0, <1>8, <1>9, WrittenStep DEF Saving, SaveAll, SaveAllWrites
<1>10. CASE Worker
  <2>1. CASE WorkerCompletes
    <3>1. PICK found : found = Analysed
      OBVIOUS
    <3>2. disk' = disk /\ (documents' = documents \/ SaveBegins("worker", found)
                           \/ SaveRefused(found))
      BY <2>1, <3>1 DEF WorkerCompletes, SaveBegins, SaveRefused
    <3> QED
      BY <1>1, <1>8, <3>2
  <2> QED
    BY <1>0, <1>1, <1>10, <2>1, WrittenStep DEF Worker, WorkerStart, WorkerDrops, WorkerWrites
<1>11. CASE Moving
  <2>1. CASE PathRefreshes
    <3>1. PICK read \in SUBSET Refreshable : /\ \A g \in read : disk[g] # None
                                             /\ documents' = Refreshed(read)
      BY <2>1 DEF PathRefreshes
    <3>2. disk' = disk
      BY <2>1 DEF PathRefreshes
    <3> QED
      BY <1>0, <3>1, <3>2, RefreshedStep
  <2> QED
    BY <1>1, <1>11, <2>1 DEF Moving, ChangePath
<1>12. CASE Transitions
  <2>1. CASE TransitionReconciles
    BY <1>0, <1>1, <2>1, ReconciledStep DEF TransitionReconciles
  <2>2. CASE TransitionSaves
    BY <1>8, <2>2 DEF TransitionSaves
  <2>3. CASE TransitionWrites
    BY <1>0, <2>3, WrittenStep DEF TransitionWrites
  <2>4. CASE CloseFile \/ ReloadFile
    BY <1>0, <1>1, <2>4, DiscardedStep DEF CloseFile, ReloadFile, SourcesChanged
  <2> QED
    BY <1>1, <1>12, <2>1, <2>2, <2>3, <2>4
       DEF Transitions, TransitionStep, RequestTransition, TransitionEnds,
           CloseApplication, TransitionFails, FinishClose
<1> QED
  BY <1>1, <1>5, <1>6, <1>7, <1>9, <1>10, <1>11, <1>12 DEF Next, Ended, vars

(***************************************************************************)
(* What a step makes of the check, the typed project and the history.      *)
(***************************************************************************)
\* What a check that succeeds finds in each file.
LEMMA CheckFinds ==
  ASSUME NEW sources, Check(sources) # None, NEW f \in Files
  PROVE  Check(sources)[f] = IF sources[f] # None THEN Meaning[sources[f]]
                             ELSE IF disk[f] # None THEN Meaning[disk[f]] ELSE None
<1> DEFINE seen == [g \in Files |-> IF sources[g] # None THEN sources[g] ELSE disk[g]]
           found == [g \in Files |-> IF seen[g] = None THEN None ELSE Meaning[seen[g]]]
<1>1. Check(sources) = found
  BY DEF Check
<1>2. found[f] = IF sources[f] # None THEN Meaning[sources[f]]
                 ELSE IF disk[f] # None THEN Meaning[disk[f]] ELSE None
  OBVIOUS
<1> HIDE DEF found
<1> QED
  BY <1>1, <1>2

\* A check is scheduled for the texts of the moment, or not at all.
LEMMA PendingSteps ==
  ASSUME [Next]_vars
  PROVE  pending' \in {pending, None} \/ pending' = Payload'
BY DEF Next, TextAuthoring, EditText, TakeDraft, OpenFile, SendDraft, UpdateDocument,
       ChangeDocuments, ChangeDocumentsPartly, GuiAuthoring, GuiEdit, Undo, Redo,
       AcceptGuiSources, SourcesChanged, ScheduleWorkingCopy, Scheduler!Schedule,
       Outside, ExternalWrite, ReconcileExternalFiles, ResolveExternalConflict,
       SetAutosave, SetAutosaveFails, Saving, SaveAll, SaveAllWrites,
       Moving, ChangePath, PathRefreshes, Worker, WorkerStart, WorkerDrops,
       WorkerCompletes, WorkerWrites, WorkerEnds, Scheduler!Start, Scheduler!Finish,
       Transitions, TransitionStep, RequestTransition, TransitionReconciles,
       TransitionEnds, TransitionSaves, TransitionWrites, CloseFile, ReloadFile,
       ReloadProject, Scheduler!Invalidate, CloseApplication, TransitionFails,
       FinishClose, Ended, vars, checker

\* The worker's check goes on, ends, or begins with what was scheduled.
LEMMA ActiveSteps ==
  ASSUME [Next]_vars
  PROVE  \/ active' = active /\ report' = report
         \/ active' = None /\ report' = None
         \/ WorkerStart
BY DEF Next, TextAuthoring, EditText, TakeDraft, OpenFile, SendDraft, UpdateDocument,
       ChangeDocuments, ChangeDocumentsPartly, GuiAuthoring, GuiEdit, Undo, Redo,
       AcceptGuiSources, SourcesChanged, ScheduleWorkingCopy, Scheduler!Schedule,
       Outside, ExternalWrite, ReconcileExternalFiles, ResolveExternalConflict,
       SetAutosave, SetAutosaveFails, Saving, SaveAll, SaveAllWrites,
       Moving, ChangePath, PathRefreshes, Worker, WorkerDrops,
       WorkerCompletes, WorkerWrites, WorkerEnds, Scheduler!Finish,
       Transitions, TransitionStep, RequestTransition, TransitionReconciles,
       TransitionEnds, TransitionSaves, TransitionWrites, CloseFile, ReloadFile,
       ReloadProject, Scheduler!Invalidate, CloseApplication, TransitionFails,
       FinishClose, Ended, vars, checker

\* Where a typed project comes from.
LEMMA ReadySteps ==
  ASSUME IInv, [Next]_vars, project'.health = "ready"
  PROVE  \/ project.health = "ready" /\ project'.session = project.session
         \/ /\ active # None /\ ~Stale /\ report # None /\ project'.session = report
            /\ Conflicted = {} /\ UNCHANGED revision
         \/ GuiAuthoring
         \/ ReloadProject
<1>1. CASE project' = project
  BY <1>1
<1>2. CASE project' = Checking \/ project' = Invalid
  BY <1>2 DEF Checking, Invalid
<1>3. CASE WorkerCompletes
  <2>1. project' \in {Analysed, Invalid} /\ active # None /\ ~Stale /\ UNCHANGED revision
    BY <1>3 DEF WorkerCompletes, SaveBegins, SaveRefused
  <2>2. Analysed \in {project, Invalid} \/ (/\ Analysed = Ready(report, revision)
                                            /\ report # None /\ Conflicted = {})
    BY DEF Analysed
  <2> QED
    BY <1>1, <1>2, <2>1, <2>2 DEF Ready
<1>4. CASE PathRefreshes
  <2>1. gate.holder = "path" /\ project' \in {Ready(project.session, revision + 1), Invalid}
    BY <1>4 DEF PathRefreshes
  <2>2. project.health = "ready"
    BY <2>1 DEF IInv, DocumentsInv
  <2> QED
    BY <1>2, <2>1, <2>2 DEF Ready
<1> QED
  BY <1>1, <1>2, <1>3, <1>4
     DEF Next, TextAuthoring, EditText, TakeDraft, OpenFile, SendDraft, UpdateDocument,
       ChangeDocuments, ChangeDocumentsPartly, SourcesChanged,
       Outside, ExternalWrite, ReconcileExternalFiles, ResolveExternalConflict,
       SetAutosave, SetAutosaveFails, Saving, SaveAll, SaveAllWrites, SaveBegins,
       SaveRefused, Moving, ChangePath, Worker, WorkerStart, WorkerDrops, WorkerWrites,
       Transitions, TransitionStep, RequestTransition, TransitionReconciles,
       TransitionEnds, TransitionSaves, TransitionWrites, CloseFile, ReloadFile,
       CloseApplication, TransitionFails, FinishClose, Ended, vars

\* The history stays, is cleared, or is what the GUI makes of it.
LEMMA HistorySteps ==
  ASSUME [Next]_vars
  PROVE  \/ undo' = undo /\ redo' = redo
         \/ undo' = <<>> /\ redo' = <<>>
         \/ GuiAuthoring
BY DEF Next, TextAuthoring, EditText, TakeDraft, OpenFile, SendDraft, UpdateDocument,
       ChangeDocuments, ChangeDocumentsPartly, SourcesChanged,
       Outside, ExternalWrite, ReconcileExternalFiles, ResolveExternalConflict,
       SetAutosave, SetAutosaveFails, Saving, SaveAll, SaveAllWrites,
       Moving, ChangePath, PathRefreshes, Worker, WorkerStart, WorkerDrops,
       WorkerCompletes, WorkerWrites, Transitions, TransitionStep, RequestTransition,
       TransitionReconciles, TransitionEnds, TransitionSaves, TransitionWrites,
       CloseFile, ReloadFile, ReloadProject, CloseApplication, TransitionFails,
       FinishClose, Ended, vars, history

\* What becomes of a file: another program, a save or a move writes it.
LEMMA DiskSteps ==
  ASSUME IInv, [Next]_vars, NEW f \in Files
  PROVE  \/ disk'[f] = disk[f]
         \/ \E text \in TextOrNone : ExternalWrite(f, text)
         \/ disk'[f] \in Texts /\ f \in gate.writes /\ SaveSucceeds
         \/ /\ ChangePath /\ disk' = Renamed
            /\ disk'[f] \in Texts
            /\ project.session[f] # None /\ disk'[f] = Canonical[project.session[f]]
<1>1. CASE disk' = disk
  BY <1>1
<1>2. ASSUME NEW g \in Files, NEW text \in TextOrNone, ExternalWrite(g, text)
      PROVE  disk'[f] = disk[f] \/ ExternalWrite(f, text)
  <2>1. disk' = [disk EXCEPT ![g] = text] /\ disk \in [Files -> TextOrNone]
    BY <1>2 DEF ExternalWrite, IInv, DocumentsInv, DocumentsSound
  <2>2. CASE f = g
    BY <1>2, <2>2
  <2>3. CASE f # g
    BY <2>1, <2>3
  <2> QED
    BY <2>2, <2>3
<1>3. CASE SaveSucceeds
  <2>1. f \in gate.writes => documents[f].text \in Texts
    BY DEF IInv, DocumentsInv, SoundDocument, Document
  <2> QED
    BY <1>3, <2>1 DEF SaveSucceeds
<1>4. CASE ChangePath
  <2>1. project.session \in Session
    BY <1>4 DEF ChangePath, HasSession, IInv, ProjectInv
  <2>2. CASE disk' = Renamed
    <3>1. disk'[f] = IF project.session[f] = None THEN disk[f]
                     ELSE Canonical[project.session[f]]
      BY <2>2 DEF Renamed
    <3> QED
      BY <1>4, <2>1, <2>2, <3>1, WorkingCopyAssumption DEF Session
  <2> QED
    BY <1>4, <2>2 DEF ChangePath
<1> QED
  BY <1>1, <1>2, <1>3, <1>4
     DEF Next, TextAuthoring, EditText, TakeDraft, OpenFile, SendDraft,
       ChangeDocuments, ChangeDocumentsPartly, GuiAuthoring, GuiEdit, Undo, Redo,
       Outside, ReconcileExternalFiles, ResolveExternalConflict,
       SetAutosave, SetAutosaveFails, Saving, SaveAll, SaveAllWrites, SaveFails,
       Moving, PathRefreshes, Worker, WorkerStart, WorkerDrops,
       WorkerCompletes, WorkerWrites, Transitions, TransitionStep, RequestTransition,
       TransitionReconciles, TransitionEnds, TransitionSaves, TransitionWrites,
       CloseFile, ReloadFile, ReloadProject, CloseApplication, TransitionFails,
       FinishClose, Ended, vars

\* What a GUI edit pushes.
Edited(paths, meanings) ==
  [before |-> project.session,
   after |-> [f \in Files |-> IF f \in paths THEN meanings[f] ELSE project.session[f]],
   paths |-> paths]

\* The typed project that the GUI goes to, and the entry it takes it from.
LEMMA GuiTakes ==
  ASSUME NEW S, undo \in Seq(S), redo \in Seq(S), GuiAuthoring,
         \A paths \in SUBSET Files : \A meanings \in [paths -> Meanings] :
           GuiEdit(paths, meanings) => Edited(paths, meanings) \in S
  PROVE  /\ undo' \in Seq(S) /\ redo' \in Seq(S)
         /\ \E entry \in S :
              \/ AcceptGuiSources(entry.after, entry.paths)
                 /\ \E meanings \in [entry.paths -> Meanings] :
                       GuiEdit(entry.paths, meanings)
                       /\ entry = Edited(entry.paths, meanings)
              \/ /\ AcceptGuiSources(entry.before, entry.paths)
                 /\ Undo /\ entry = undo[Len(undo)]
              \/ /\ AcceptGuiSources(entry.after, entry.paths)
                 /\ Redo /\ entry = redo[Len(redo)]
<1>1. ASSUME NEW paths \in SUBSET Files, NEW meanings \in [paths -> Meanings],
             GuiEdit(paths, meanings)
      PROVE  /\ undo' \in Seq(S) /\ redo' \in Seq(S)
             /\ \E entry \in S :
                  AcceptGuiSources(entry.after, entry.paths)
                  /\ \E m \in [entry.paths -> Meanings] :
                        GuiEdit(entry.paths, m) /\ entry = Edited(entry.paths, m)
  <2> DEFINE entry == Edited(paths, meanings)
  <2>1. /\ undo' = Trimmed(Append(undo, entry)) /\ redo' = <<>>
        /\ AcceptGuiSources(entry.after, entry.paths)
        /\ entry.paths = paths
    BY <1>1, Zenon DEF GuiEdit, Edited
  <2>2. entry \in S
    BY <1>1
  <2> HIDE DEF entry
  <2>3. undo' \in Seq(S) /\ redo' \in Seq(S)
    BY <2>1, <2>2, TrimmedTyped, EmptySeq
  <2> QED
    BY <1>1, <2>1, <2>2, <2>3 DEF entry
<1>2. CASE Undo
  <2>1. /\ undo' = Front(undo) /\ redo' = Append(redo, undo[Len(undo)]) /\ undo # <<>>
        /\ AcceptGuiSources(undo[Len(undo)].before, undo[Len(undo)].paths)
    BY <1>2 DEF Undo
  <2>2. Front(undo) \in Seq(S) /\ undo[Len(undo)] \in S
    BY <2>1, FrontTyped
  <2> QED
    BY <1>2, <2>1, <2>2, AppendProperties
<1>3. CASE Redo
  <2>1. /\ redo' = Front(redo) /\ undo' = Trimmed(Append(undo, redo[Len(redo)]))
        /\ redo # <<>>
        /\ AcceptGuiSources(redo[Len(redo)].after, redo[Len(redo)].paths)
    BY <1>3 DEF Redo
  <2>2. Front(redo) \in Seq(S) /\ redo[Len(redo)] \in S
    BY <2>1, FrontTyped
  <2> QED
    BY <1>3, <2>1, <2>2, TrimmedTyped
<1> QED
  BY <1>1, <1>2, <1>3 DEF GuiAuthoring
-----------------------------------------------------------------------------
(***************************************************************************)
(* When no program deletes files, what is open and what the sessions hold  *)
(* exists.                                                                 *)
(***************************************************************************)
Lasting == "external" \in Operations => "delete" \notin Operations

Exists(session) == \A f \in Files : session[f] # None => disk[f] # None

Existing == {e \in Entry : Exists(e.before) /\ Exists(e.after)}

ExistInv ==
  /\ \A f \in Opened : disk[f] # None
  /\ project.health = "ready" => Exists(project.session)
  /\ undo \in Seq(Existing) /\ redo \in Seq(Existing)
  /\ pending # None /\ pending.sources # None => Exists(pending.sources)
  /\ report # None => Exists(report)

\* No step deletes a file.
LEMMA FilesLast ==
  ASSUME IInv, [Next]_vars, Lasting, NEW f \in Files, disk[f] # None
  PROVE  disk'[f] # None
<1>1. None \notin Texts
  BY WorkingCopyAssumption
<1>2. ASSUME NEW text \in TextOrNone, ExternalWrite(f, text)
      PROVE  disk'[f] # None
  BY <1>2 DEF Lasting, ExternalWrite, IInv, DocumentsInv, DocumentsSound
<1> QED
  BY <1>1, <1>2, DiskSteps

\* A project that loads names only files that exist.
LEMMA InitExist == Init => ExistInv
<1> SUFFICES ASSUME Init
             PROVE  ExistInv
  OBVIOUS
<1>1. /\ \A f \in Opened : disk[f] # None
      /\ project = Ready(Check(disk), 0) /\ Check(disk) # None
      /\ undo = <<>> /\ redo = <<>> /\ pending = None /\ report = None
  BY DEF Init, Opened
<1>2. Exists(Check(disk))
  BY <1>1, CheckFinds DEF Exists
<1> QED
  BY <1>1, <1>2, EmptySeq DEF ExistInv, Ready

\* While no file is deleted, every project and check names files that exist.
LEMMA NextExist ==
  ASSUME IInv, IInv', ExistInv, [Next]_vars, Lasting
  PROVE  ExistInv'
<1>1. ASSUME NEW session, Exists(session)
      PROVE  Exists(session)'
  BY <1>1, FilesLast DEF Exists
<1>2. Existing \subseteq Existing'
  <2>1. ASSUME NEW e \in Existing
        PROVE  e \in Existing'
    <3>1. e \in Entry /\ Exists(e.before) /\ Exists(e.after)
      BY DEF Existing
    <3> QED
      BY <1>1, <3>1 DEF Existing
  <2> QED
    BY <2>1
<1>3. PICK S : S = Existing'
  OBVIOUS
<1>4. undo \in Seq(S) /\ redo \in Seq(S)
  BY <1>2, <1>3, SeqMonotonic DEF ExistInv
<1>5. ASSUME NEW paths \in SUBSET Files, NEW meanings \in [paths -> Meanings],
             GuiEdit(paths, meanings)
      PROVE  Edited(paths, meanings) \in S
  <2> DEFINE before == project.session
             after == [f \in Files |-> IF f \in paths THEN meanings[f] ELSE before[f]]
  <2>1. /\ before \in Session /\ Exists(before)
        /\ \A f \in paths : before[f] # None
    BY <1>5 DEF GuiEdit, HasSession, IInv, ProjectInv, ExistInv
  <2>2. after \in Session /\ Exists(after)
    BY <2>1 DEF Session, Exists
  <2>3. Edited(paths, meanings) \in Existing
    <3> HIDE DEF after
    <3>1. Edited(paths, meanings) = [before |-> before, after |-> after, paths |-> paths]
      BY DEF Edited, after
    <3> HIDE DEF before
    <3> QED
      BY <2>1, <2>2, <3>1 DEF Existing, Entry
  <2> QED
    BY <1>2, <1>3, <2>3
<1>6. undo' \in Seq(S) /\ redo' \in Seq(S)
  <2>1. CASE GuiAuthoring
    BY <1>4, <1>5, <2>1, GuiTakes
  <2> QED
    BY <1>4, <2>1, HistorySteps, EmptySeq
<1>7. project'.health = "ready" => Exists(project.session)'
  <2>1. CASE GuiAuthoring
    <3>1. PICK entry \in S : \/ AcceptGuiSources(entry.after, entry.paths)
                             \/ AcceptGuiSources(entry.before, entry.paths)
      BY <1>4, <1>5, <2>1, GuiTakes
    <3>2. project'.session \in {entry.before, entry.after}
      BY <3>1 DEF AcceptGuiSources, Ready
    <3>3. Exists(entry.before)' /\ Exists(entry.after)'
      BY <1>3 DEF Existing
    <3> QED
      BY <3>2, <3>3 DEF Exists
  <2>2. CASE ReloadProject
    <3>1. project' = (IF Check(disk) = None THEN Invalid ELSE Ready(Check(disk), revision + 1))
          /\ disk' = disk
      BY <2>2 DEF ReloadProject
    <3>2. Check(disk) # None => Exists(Check(disk))
      BY CheckFinds DEF Exists
    <3> QED
      BY <3>1, <3>2 DEF Exists, Ready, Invalid
  <2>3. CASE project.health = "ready" /\ project'.session = project.session
    <3>1. PICK session : session = project.session
      OBVIOUS
    <3>2. Exists(session)'
      BY <1>1, <2>3, <3>1 DEF ExistInv
    <3> QED
      BY <2>3, <3>1, <3>2 DEF Exists
  <2>4. CASE report # None /\ project'.session = report
    <3>1. PICK session : session = report
      OBVIOUS
    <3>2. Exists(session)'
      BY <1>1, <2>4, <3>1 DEF ExistInv
    <3> QED
      BY <2>4, <3>1, <3>2 DEF Exists
  <2> QED
    BY <2>1, <2>2, <2>3, <2>4, ReadySteps
<1>8. ASSUME NEW f \in Files, documents'[f] # None
      PROVE  disk'[f] # None
  <2>1. CASE ReloadProject
    BY <1>8, <2>1 DEF ReloadProject
  <2>2. CASE ~ReloadProject
    <3>1. StepOf(f)
      BY <2>2, DocumentSteps
    <3>2. documents[f] # None => disk[f] # None
      BY DEF ExistInv, Opened
    <3>3. disk[f] # None \/ (project'.health = "ready" /\ project'.session[f] # None)
      BY <1>8, <3>1, <3>2 DEF StepOf, Opened
    <3> QED
      BY <1>7, <3>3, FilesLast DEF Exists
  <2> QED
    BY <2>1, <2>2
<1>9. report' # None => Exists(report)'
  <2>1. CASE report' = report
    <3>1. PICK session : session = report
      OBVIOUS
    <3> QED
      BY <1>1, <2>1, <3>1 DEF ExistInv, Exists
  <2>2. CASE WorkerStart
    <3>1. /\ report' = (IF pending.sources = None THEN None ELSE Check(pending.sources))
          /\ pending # None /\ disk' = disk
      BY <2>2 DEF WorkerStart, Scheduler!Start
    <3>2. ASSUME report' # None, NEW f \in Files, report'[f] # None
          PROVE  disk[f] # None
      <4>1. pending.sources[f] # None => disk[f] # None
        BY <3>1, <3>2 DEF ExistInv, Exists
      <4> QED
        BY <3>1, <3>2, <4>1, CheckFinds
    <3> QED
      BY <3>1, <3>2 DEF Exists
  <2> QED
    BY <2>1, <2>2, ActiveSteps
<1>10. pending' # None /\ pending'.sources # None => Exists(pending.sources)'
  <2>1. CASE pending' = pending
    <3>1. PICK sources : sources = pending.sources
      OBVIOUS
    <3> QED
      BY <1>1, <2>1, <3>1 DEF ExistInv, Exists
  <2>2. CASE pending' = Payload'
    <3>1. pending'.sources # None => pending'.sources = WorkingTexts'
      BY <2>2 DEF Payload
    <3>2. \A f \in Files : WorkingTexts'[f] # None => documents'[f] # None
      BY DEF WorkingTexts, Opened
    <3> QED
      BY <1>8, <3>1, <3>2 DEF Exists
  <2> QED
    BY <2>1, <2>2, PendingSteps
<1> QED
  BY <1>3, <1>6, <1>7, <1>8, <1>9, <1>10 DEF ExistInv, Opened

\* An edit that a client has not sent was made on a document that is still the
\* same one; while its revision is, so is its text.
DraftInv ==
  draft # None =>
    /\ draft.epoch <= epoch
    /\ draft.epoch = epoch =>
         /\ draft.file \in Opened
         /\ draft.rev <= documents[draft.file].rev
         /\ draft.rev = documents[draft.file].rev =>
              draft.base = documents[draft.file].text

\* A client takes or sends its edit, or keeps it.
LEMMA DraftSteps ==
  ASSUME [Next]_vars
  PROVE  \/ draft' = draft
         \/ \E f \in Files : TakeDraft(f)
         \/ draft' = None /\ \E text \in Texts : SendDraft(text)
BY DEF Next, TextAuthoring, EditText, OpenFile, SendDraft,
       ChangeDocuments, ChangeDocumentsPartly, GuiAuthoring, GuiEdit, Undo, Redo,
       Outside, ExternalWrite, ReconcileExternalFiles, ResolveExternalConflict,
       SetAutosave, SetAutosaveFails, Saving, SaveAll, SaveAllWrites,
       Moving, ChangePath, PathRefreshes, Worker, WorkerStart, WorkerDrops,
       WorkerCompletes, WorkerWrites, Transitions, TransitionStep, RequestTransition,
       TransitionReconciles, TransitionEnds, TransitionSaves, TransitionWrites,
       CloseFile, ReloadFile, ReloadProject, CloseApplication, TransitionFails,
       FinishClose, Ended, vars, client

\* Only loading the project again begins an epoch.
LEMMA EpochSteps ==
  ASSUME [Next]_vars, ~ReloadProject
  PROVE  epoch' = epoch
BY DEF Next, TextAuthoring, EditText, TakeDraft, OpenFile, SendDraft, UpdateDocument,
       ChangeDocuments, ChangeDocumentsPartly, GuiAuthoring, GuiEdit, Undo, Redo,
       AcceptGuiSources, SourcesChanged,
       Outside, ExternalWrite, ReconcileExternalFiles, ResolveExternalConflict,
       SetAutosave, SetAutosaveFails, Saving, SaveAll, SaveAllWrites,
       Moving, ChangePath, PathRefreshes, Worker, WorkerStart, WorkerDrops,
       WorkerCompletes, WorkerWrites, Transitions, TransitionStep, RequestTransition,
       TransitionReconciles, TransitionEnds, TransitionSaves, TransitionWrites,
       CloseFile, ReloadFile, CloseApplication, TransitionFails,
       FinishClose, Ended, vars

\* A client's edit, and the document it was made on, through every step.
LEMMA NextDraft ==
  ASSUME IInv, IInv', ExistInv, DraftInv, [Next]_vars
  PROVE  DraftInv'
<1>0. /\ DocumentsInv /\ epoch \in Nat
      /\ draft # None => draft.file \in Files /\ draft.epoch \in Nat /\ draft.rev \in Nat
  BY DEF IInv, ProjectInv, ClientInv
<1>1. ASSUME NEW f \in Files, TakeDraft(f)
      PROVE  DraftInv'
  <2>1. /\ draft' = DraftOf(f) /\ f \in Opened /\ Opened' = Opened
        /\ documents' = documents /\ epoch' = epoch
    BY <1>1 DEF TakeDraft, Opened
  <2>2. documents[f].rev \in Nat
    BY <1>0, <2>1, OpenedIsSound DEF DocumentsInv, Document
  <2> QED
    BY <1>0, <2>1, <2>2 DEF DraftInv, DraftOf
<1>2. CASE draft' = draft /\ ReloadProject
  <2>1. epoch' = epoch + 1
    BY <1>2 DEF ReloadProject
  <2> QED
    BY <1>0, <1>2, <2>1 DEF DraftInv
<1>3. CASE draft' = draft /\ ~ReloadProject
  <2>1. epoch' = epoch
    BY <1>3, EpochSteps
  <2>2. CASE draft # None /\ draft.epoch = epoch
    <3>1. /\ draft.file \in Opened /\ draft.rev <= documents[draft.file].rev
          /\ draft.rev = documents[draft.file].rev =>
               draft.base = documents[draft.file].text
      BY <2>2 DEF DraftInv
    <3>2. StepOf(draft.file) /\ disk[draft.file] # None
      BY <1>0, <1>3, <2>2, <3>1, DocumentSteps DEF ExistInv
    <3>3. documents'[draft.file] = documents[draft.file]
          \/ Follows(documents'[draft.file], documents[draft.file])
      BY <3>1, <3>2 DEF StepOf
    <3>4. documents'[draft.file] # None
      BY <3>1, <3>3 DEF Follows, Opened
    <3>5. /\ documents[draft.file].rev \in Nat /\ documents'[draft.file].rev \in Nat
          /\ documents'[draft.file].rev >= documents[draft.file].rev
      <4>1. documents[draft.file] \in Document /\ documents'[draft.file] \in Document
        BY <1>0, <2>2, <3>1, <3>4, OpenedIsSound
           DEF IInv, DocumentsInv, DocumentsSound, SoundOrNone, SoundDocument
      <4> QED
        BY <3>3, <4>1 DEF Document, Follows
    <3>6. draft.file \in Opened'
      BY <1>0, <2>2, <3>4 DEF Opened
    <3>7. documents'[draft.file].rev = documents[draft.file].rev =>
            documents'[draft.file].text = documents[draft.file].text
      BY <3>3 DEF Follows
    <3> QED
      BY <1>0, <1>3, <2>1, <2>2, <3>1, <3>5, <3>6, <3>7 DEF DraftInv
  <2> QED
    BY <1>0, <1>3, <2>1, <2>2 DEF DraftInv
<1>4. CASE draft' = None
  BY <1>4 DEF DraftInv
<1> QED
  BY <1>1, <1>2, <1>3, <1>4, DraftSteps

\* A client's edit is applied to the very text it was made on, through every
\* edit, reload, save and reconcile in between, as long as no other program
\* deletes files: a file that comes back is another document, with the old
\* document's count.
THEOREM EditsApplyToWhatTheySaw ==
  ASSUME "external" \in Operations => "delete" \notin Operations
  PROVE  Spec => EditsWhatItSaw
<1> DEFINE Saw == draft # None /\ draft' = None /\ documents' # documents =>
                    documents[draft.file].text = draft.base
<1>0. Lasting
  BY DEF Lasting
<1>1. Init => IInv /\ ExistInv /\ DraftInv
  BY InitInv, InitExist DEF Init, DraftInv
<1>2. IInv /\ ExistInv /\ DraftInv /\ [Next]_vars => (IInv /\ ExistInv /\ DraftInv)'
  <2> SUFFICES ASSUME IInv, ExistInv, DraftInv, [Next]_vars
               PROVE  IInv' /\ ExistInv' /\ DraftInv'
    OBVIOUS
  <2>1. IInv'
    BY NextInv
  <2> QED
    BY <1>0, <2>1, NextExist, NextDraft
<1>3. IInv /\ ExistInv /\ DraftInv /\ [Next]_vars => [Saw]_vars
  <2> SUFFICES ASSUME IInv, ExistInv, DraftInv, [Next]_vars,
                      draft # None, draft' = None, documents' # documents
               PROVE  documents[draft.file].text = draft.base
    OBVIOUS
  <2>1. PICK text \in Texts : SendDraft(text)
    BY DraftSteps DEF TakeDraft
  <2>2. Accepts(draft)
    BY <2>1 DEF SendDraft, UpdateDocument
  <2> QED
    BY <2>2 DEF DraftInv, Accepts
<1>4. Spec => [][Saw]_vars
  BY <1>1, <1>2, <1>3, PTL DEF Spec
<1> QED
  BY <1>4 DEF EditsWhatItSaw

(***************************************************************************)
(* Conflicts and the typed project.                                        *)
(***************************************************************************)
\* Every step but undo and redo keeps conflicts and the typed project apart.
LEMMA NextBlocks ==
  ASSUME IInv, ConflictBlocksGui, [Next]_vars, ~Undo, ~Redo
  PROVE  ConflictBlocksGui'
<1> SUFFICES ASSUME project'.health = "ready", NEW f \in Files, documents'[f] # None
             PROVE  documents'[f].external = "current"
  BY DEF ConflictBlocksGui, Conflicted, Opened
<1>1. CASE ReloadProject
  BY <1>1 DEF ReloadProject, NewDocument
<1>2. CASE ~ReloadProject
  <2>1. GuiAuthoring => project.health = "ready"
    BY DEF GuiAuthoring, GuiEdit, HasSession
  <2>2. Conflicted = {}
    BY <1>2, <2>1, ReadySteps DEF ConflictBlocksGui
  <2>3. documents[f] # None => documents[f].external = "current"
    BY <2>2 DEF Conflicted, Opened
  <2> QED
    BY <1>2, <2>3, DocumentSteps DEF StepOf, Opened
<1> QED
  BY <1>1, <1>2

\* While nobody edits in the GUI, there is no history.
LEMMA NextEmpty ==
  ASSUME Empty, "gui" \notin Operations, [Next]_vars
  PROVE  Empty' /\ ~Undo /\ ~Redo
<1>1. ~GuiAuthoring
  BY DEF GuiAuthoring, GuiEdit, Undo, Redo, Empty
<1> QED
  BY <1>1, HistorySteps DEF Empty, GuiAuthoring

\* Until somebody edits in the GUI, there is no typed project while a conflict
\* waits for a decision: whatever is edited, saved, checked, moved, reloaded or
\* written by others.
THEOREM ConflictsBlockTheGui ==
  ASSUME "gui" \notin Operations
  PROVE  Spec => []ConflictBlocksGui
<1>1. Init => IInv /\ Empty /\ ConflictBlocksGui
  <2> SUFFICES ASSUME Init
               PROVE  IInv /\ Empty /\ ConflictBlocksGui
    OBVIOUS
  <2>1. \A f \in Files : documents[f] # None => documents[f].external = "current"
    BY DEF Init, NewDocument
  <2> QED
    BY <2>1, InitInv DEF Init, Empty, ConflictBlocksGui, Conflicted, Opened
<1>2. IInv /\ Empty /\ ConflictBlocksGui /\ [Next]_vars
        => (IInv /\ Empty /\ ConflictBlocksGui)'
  BY NextInv, NextEmpty, NextBlocks
<1> QED
  BY <1>1, <1>2, PTL DEF Spec

\* With the GUI, nothing but an undo or a redo brings a typed project back while
\* a conflict waits: they do not ask whether there is one.
THEOREM OnlyUndoIgnoresConflicts ==
  Spec => [][ConflictBlocksGui /\ ~Undo /\ ~Redo => ConflictBlocksGui']_vars
<1>1. Init => IInv
  BY InitInv
<1>2. IInv /\ [Next]_vars => IInv'
  BY NextInv
<1>3. IInv /\ [Next]_vars => [ConflictBlocksGui /\ ~Undo /\ ~Redo => ConflictBlocksGui']_vars
  BY NextBlocks
<1> QED
  BY <1>1, <1>2, <1>3, PTL DEF Spec

(***************************************************************************)
(* The typed project is what the texts mean.  The code has three gaps,     *)
(* which the assumption leaves out: a change across files that stops half  *)
(* way counts nothing, and a document that is opened, or read again after  *)
(* a move, after another program wrote it is not checked.                  *)
(***************************************************************************)
CheckedOperations ==
  /\ "renameFails" \notin Operations
  /\ "external" \in Operations => "open" \notin Operations /\ "path" \notin Operations

Agrees(session) == \A f \in Opened : session[f] = Meaning[documents[f].text]

\* An entry names the documents it changes, and they exist on both sides.
ProperEntries ==
  {e \in Entry : \A f \in Files :
     IF f \in e.paths THEN e.before[f] # None /\ e.after[f] # None
     ELSE e.before[f] = e.after[f]}

OfTexts(check) ==
  check # None /\ check.revision = revision /\ check.sources # None =>
    check.sources = WorkingTexts

\* What is open is what exists, and the disk means what was last seen on it.  A
\* move prints files without changing what they mean.
Synced ==
  "external" \notin Operations =>
    \A f \in Files :
      IF f \in Opened
      THEN /\ disk[f] # None /\ documents[f].observed # None
           /\ Meaning[disk[f]] = Meaning[documents[f].observed]
      ELSE disk[f] = None

CurrentInv ==
  /\ project.health = "ready" => Agrees(project.session)
  /\ undo # <<>> => Agrees(undo[Len(undo)].after)
  /\ redo # <<>> => Agrees(redo[Len(redo)].before)
  /\ undo \in Seq(ProperEntries) /\ redo \in Seq(ProperEntries)
  /\ OfTexts(pending) /\ OfTexts(active)
  /\ active # None /\ active.revision = revision /\ report # None => Agrees(report)
  /\ gate.holder = "path" => "path" \in Operations

\* The revision counts: a step that leaves it leaves the texts, and one that
\* counts clears the history, or is the GUI's.
LEMMA RevisionSteps ==
  ASSUME [Next]_vars
  PROVE  \/ revision' = revision
         \/ revision' = revision + 1 /\ GuiAuthoring
         \/ /\ revision' = revision + 1 /\ undo' = <<>> /\ redo' = <<>>
            /\ PathRefreshes \/ ReloadProject \/ project'.health # "ready"
<1>1. CASE GuiAuthoring
  BY <1>1 DEF GuiAuthoring, GuiEdit, Undo, Redo, AcceptGuiSources
<1>2. CASE PathRefreshes
  BY <1>2 DEF PathRefreshes
<1>3. CASE ReloadProject
  BY <1>3 DEF ReloadProject
<1>4. Checking.health # "ready"
  BY DEF Checking
<1>5. CASE TextAuthoring
  BY <1>4, <1>5
     DEF TextAuthoring, EditText, TakeDraft, OpenFile, SendDraft, UpdateDocument,
       ChangeDocuments, ChangeDocumentsPartly, SourcesChanged
<1>6. CASE TransitionReconciles \/ CloseFile \/ ReloadFile
  BY <1>4, <1>6 DEF TransitionReconciles, CloseFile, ReloadFile, SourcesChanged
<1> QED
  BY <1>1, <1>2, <1>3, <1>4, <1>5, <1>6
     DEF Next, SourcesChanged,
       Outside, ExternalWrite, ReconcileExternalFiles, ResolveExternalConflict,
       SetAutosave, SetAutosaveFails, Saving, SaveAll, SaveAllWrites,
       Moving, ChangePath, Worker, WorkerStart, WorkerDrops,
       WorkerCompletes, WorkerWrites, Transitions, TransitionStep, RequestTransition,
       TransitionEnds, TransitionSaves, TransitionWrites, CloseApplication,
       TransitionFails, FinishClose, Ended, vars

\* Only a move holds the mutex for a move.
LEMMA HolderSteps ==
  ASSUME [Next]_vars, gate'.holder = "path", IInv
  PROVE  gate.holder = "path" \/ "path" \in Operations
<1>1. CASE gate' = gate \/ gate' = Free
  BY <1>1 DEF Free
<1>2. CASE Saving \/ Worker \/ TransitionSaves
  <2>1. ASSUME NEW holder, NEW typed, SaveBegins(holder, typed)
        PROVE  gate'.holder = holder
    BY <2>1 DEF SaveBegins
  <2> QED
    BY <1>1, <1>2, <2>1
       DEF Saving, SaveAll, SaveAllWrites, SaveRefused, Worker, WorkerStart, WorkerDrops,
           WorkerCompletes, WorkerWrites, TransitionSaves
<1>3. CASE TransitionWrites
  BY <1>3 DEF TransitionWrites, IInv, DocumentsInv, Free
<1>4. CASE Moving
  BY <1>1, <1>4 DEF Moving, ChangePath, PathRefreshes
<1> QED
  BY <1>1, <1>2, <1>3, <1>4
     DEF Next, TextAuthoring, EditText, TakeDraft, OpenFile, SendDraft,
       ChangeDocuments, ChangeDocumentsPartly, GuiAuthoring, GuiEdit, Undo, Redo,
       Outside, ExternalWrite, ReconcileExternalFiles, ResolveExternalConflict,
       SetAutosave, SetAutosaveFails, Transitions, TransitionStep, RequestTransition,
       TransitionReconciles, TransitionEnds, CloseFile, ReloadFile, ReloadProject,
       CloseApplication, TransitionFails, Applies, FinishClose, Ended, vars

\* A step that leaves the revision leaves what is open and its texts.
LEMMA TextsStay ==
  ASSUME IInv, Synced, CheckedOperations, [Next]_vars, revision' = revision
  PROVE  /\ Opened' = Opened
         /\ \A f \in Opened : documents'[f].text = documents[f].text
<1>0. DocumentsInv /\ revision + 1 # revision
  BY DEF IInv, ProjectInv
<1>1. ASSUME documents' = documents
      PROVE  /\ Opened' = Opened
             /\ \A f \in Opened : documents'[f].text = documents[f].text
  BY <1>1 DEF Opened
<1>2. ASSUME \A f \in Opened : Keeps(f),
             \A f \in Files \ Opened : documents'[f] = documents[f]
      PROVE  /\ Opened' = Opened
             /\ \A f \in Opened : documents'[f].text = documents[f].text
  BY <1>2 DEF Keeps, Opened
<1>3. CASE TextAuthoring
  <2>1. \A f \in Files : ~OpenFile(f)
    BY DEF OpenFile, Synced, CheckedOperations
  <2> QED
    BY <1>0, <1>1, <1>3, <2>1
       DEF TextAuthoring, EditText, TakeDraft, SendDraft, UpdateDocument, SourcesChanged,
           ChangeDocuments, ChangeDocumentsPartly, CheckedOperations
<1>4. CASE GuiAuthoring
  BY <1>0, <1>4 DEF GuiAuthoring, GuiEdit, Undo, Redo, AcceptGuiSources
<1>5. CASE Outside
  BY <1>0, <1>1, <1>5
     DEF Outside, ExternalWrite, ReconcileExternalFiles, ResolveExternalConflict,
         SetAutosave, SetAutosaveFails, SourcesChanged
<1>6. CASE Saving
  BY <1>0, <1>2, <1>6, SaveBeginsKeeps, SaveRefusedKeeps, WrittenKeeps
     DEF Saving, SaveAll, SaveAllWrites
<1>7. CASE Worker
  BY <1>0, <1>1, <1>2, <1>7, SaveBeginsKeeps, SaveRefusedKeeps, WrittenKeeps
     DEF Worker, WorkerStart, WorkerDrops, WorkerCompletes, WorkerWrites
<1>8. CASE TransitionSaves \/ TransitionWrites
  BY <1>0, <1>2, <1>8, SaveBeginsKeeps, SaveRefusedKeeps, WrittenKeeps
     DEF TransitionSaves, TransitionWrites
<1>9. CASE TransitionReconciles \/ TransitionEnds \/ CloseFile \/ ReloadFile
           \/ ReloadProject \/ CloseApplication \/ TransitionFails \/ FinishClose
  BY <1>0, <1>1, <1>9
     DEF TransitionReconciles, TransitionEnds, CloseFile, ReloadFile, ReloadProject,
         CloseApplication, TransitionFails, FinishClose, SourcesChanged
<1>10. CASE Moving
  BY <1>0, <1>1, <1>10 DEF Moving, ChangePath, PathRefreshes
<1> QED
  BY <1>1, <1>3, <1>4, <1>5, <1>6, <1>7, <1>8, <1>9, <1>10
     DEF Next, Transitions, TransitionStep, RequestTransition, Ended, vars

\* Printing the documents that an entry names takes the texts from one of its
\* sides to the other.
LEMMA PrintedAgrees ==
  ASSUME DocumentsInv, NEW old, NEW new \in Session, NEW paths \in SUBSET Files,
         Agrees(old), documents' = Printed(new, paths),
         \A f \in paths : new[f] # None, \A f \in Files \ paths : new[f] = old[f]
  PROVE  Agrees(new)'
<1> SUFFICES ASSUME NEW f \in Files, documents'[f] # None
             PROVE  new[f] = Meaning[documents'[f].text]
  BY DEF Agrees, Opened
<1>1. CASE f \in paths
  <2> DEFINE t == Canonical[new[f]]
             doc == IF f \in Opened THEN documents[f] ELSE Unread(f)
  <2>1. t \in Texts /\ Meaning[t] = new[f] /\ new[f] # None
    BY <1>1, WorkingCopyAssumption DEF Session
  <2>2. documents'[f] = Edit(doc, t)
    BY <1>1 DEF Printed
  <2>3. doc \in Unwritten
    <3>1. f \in Opened => documents[f] \in Unwritten
      BY OpenedIsSound, DocumentIsUnwritten DEF DocumentsInv
    <3>2. Unread(f) \in Unwritten
      BY DEF DocumentsInv, DocumentsSound, Unread, NewDocument, Unwritten, Save, TextOrNone
    <3> QED
      BY <3>1, <3>2
  <2> HIDE DEF doc, t
  <2> QED
    BY <2>1, <2>2, <2>3, EditFollows
<1>2. CASE f \notin paths
  BY <1>2 DEF Printed, Agrees, Opened
<1> QED
  BY <1>1, <1>2

\* The disk and the documents stay in step while no other program writes.
LEMMA NextSynced ==
  ASSUME IInv, IInv', Lasting => ExistInv /\ ExistInv', Synced, CurrentInv, [Next]_vars
  PROVE  Synced'
<1> SUFFICES ASSUME "external" \notin Operations, NEW f \in Files
             PROVE  IF documents'[f] # None
                    THEN /\ disk'[f] # None /\ documents'[f].observed # None
                         /\ Meaning[disk'[f]] = Meaning[documents'[f].observed]
                    ELSE disk'[f] = None
  BY DEF Synced, Opened
<1>0. /\ DocumentsInv /\ ExistInv /\ ExistInv' /\ None \notin Texts
      /\ documents[f] # None => /\ disk[f] # None /\ documents[f].observed # None
                                /\ Meaning[disk[f]] = Meaning[documents[f].observed]
      /\ documents[f] = None => disk[f] = None
  BY WorkingCopyAssumption DEF IInv, Synced, Lasting, Opened
<1>1. CASE ReloadProject
  <2>1. /\ disk'[f] = disk[f]
        /\ documents'[f] = IF disk[f] = None THEN None ELSE NewDocument(disk[f])
    BY <1>1 DEF ReloadProject
  <2>2. disk[f] # None => NewDocument(disk[f]) # None
    BY <1>0, NewSound, NoDocument DEF DocumentsInv, SoundDocument
  <2> QED
    BY <2>1, <2>2 DEF NewDocument
<1>2. CASE disk'[f] = disk[f] /\ ~ReloadProject
  <2>1. StepOf(f)
    BY <1>2, DocumentSteps
  <2>2. project'.health = "ready" /\ project'.session[f] # None => disk'[f] # None
    BY <1>0 DEF ExistInv, Exists
  <2> QED
    BY <1>0, <1>2, <2>1, <2>2 DEF StepOf, Follows, Opened
<1>3. CASE disk'[f] \in Texts /\ f \in gate.writes /\ SaveSucceeds
  <2>1. documents[f] \in Document
    BY <1>3 DEF IInv, DocumentsInv, SoundDocument
  <2>2. /\ documents'[f] = [documents[f] EXCEPT !.observed = documents[f].text,
                              !.dirty = FALSE, !.save = "saved", !.external = "current"]
        /\ disk'[f] = documents[f].text
    BY <1>3 DEF SaveSucceeds
  <2>3. documents'[f] \in Document /\ documents'[f].observed = disk'[f]
    BY <2>1, <2>2 DEF Document, TextOrNone
  <2> QED
    BY <1>0, <1>3, <2>3, NoDocument
<1>4. CASE /\ ChangePath /\ disk' = Renamed /\ disk'[f] \in Texts
           /\ project.session[f] # None /\ disk'[f] = Canonical[project.session[f]]
           /\ disk'[f] # disk[f]
  <2>1. /\ project.health = "ready" /\ documents' = documents /\ Dirty = {}
        /\ project.session \in Session
    BY <1>4 DEF ChangePath, HasSession, IInv, ProjectInv
  <2>2. f \in Opened
    BY <1>0, <1>4, <2>1 DEF ExistInv, Exists, Opened
  <2>3. project.session[f] = Meaning[documents[f].text]
    BY <2>1, <2>2 DEF CurrentInv, Agrees
  <2>4. documents[f].text = documents[f].observed
    BY <1>0, <2>1, <2>2, OpenedIsSound DEF DocumentsInv, SoundDocument, Sound, Dirty
  <2>5. Meaning[disk'[f]] = project.session[f]
    BY <1>4, <2>1, WorkingCopyAssumption DEF Session
  <2> QED
    BY <1>0, <1>4, <2>1, <2>2, <2>3, <2>4, <2>5 DEF Opened
<1>5. \A text \in TextOrNone : ~ExternalWrite(f, text)
  BY DEF ExternalWrite
<1> QED
  BY <1>1, <1>2, <1>3, <1>4, <1>5, DiskSteps

\* A GUI edit, an undo and a redo print the project they go to.
LEMMA GuiAgrees ==
  ASSUME IInv, CurrentInv, GuiAuthoring
  PROVE  /\ undo' \in Seq(ProperEntries) /\ redo' \in Seq(ProperEntries)
         /\ project'.health = "ready" /\ Agrees(project.session)'
<1>1. ASSUME NEW paths \in SUBSET Files, NEW meanings \in [paths -> Meanings],
             GuiEdit(paths, meanings)
      PROVE  Edited(paths, meanings) \in ProperEntries
  <2> DEFINE before == project.session
             after == [f \in Files |-> IF f \in paths THEN meanings[f] ELSE before[f]]
  <2>1. before \in Session /\ \A f \in paths : before[f] # None
    BY <1>1 DEF GuiEdit, HasSession, IInv, ProjectInv
  <2>2. /\ after \in Session /\ \A f \in paths : after[f] # None
        /\ \A f \in Files \ paths : after[f] = before[f]
    <3>1. None \notin Meanings /\ \A f \in paths : meanings[f] \in Meanings
      BY WorkingCopyAssumption
    <3> HIDE DEF before
    <3>2. \A f \in paths : after[f] = meanings[f]
      OBVIOUS
    <3>3. after \in Session
      BY <2>1, <3>1 DEF Session
    <3> QED
      BY <3>1, <3>2, <3>3
  <2>3. Edited(paths, meanings) = [before |-> before, after |-> after, paths |-> paths]
    BY DEF Edited
  <2> HIDE DEF after, before
  <2> QED
    BY <2>1, <2>2, <2>3 DEF ProperEntries, Entry
<1>2. undo \in Seq(ProperEntries) /\ redo \in Seq(ProperEntries)
  BY DEF CurrentInv
<1>3. PICK entry \in ProperEntries :
        \/ AcceptGuiSources(entry.after, entry.paths)
           /\ \E meanings \in [entry.paths -> Meanings] :
                 GuiEdit(entry.paths, meanings) /\ entry = Edited(entry.paths, meanings)
        \/ /\ AcceptGuiSources(entry.before, entry.paths)
           /\ Undo /\ entry = undo[Len(undo)]
        \/ /\ AcceptGuiSources(entry.after, entry.paths)
           /\ Redo /\ entry = redo[Len(redo)]
  BY <1>1, <1>2, GuiTakes
<1>4. /\ entry.before \in Session /\ entry.after \in Session /\ entry.paths \in SUBSET Files
      /\ \A f \in entry.paths : entry.before[f] # None /\ entry.after[f] # None
      /\ \A f \in Files \ entry.paths : entry.before[f] = entry.after[f]
  BY DEF ProperEntries, Entry
<1>5. undo' \in Seq(ProperEntries) /\ redo' \in Seq(ProperEntries)
  BY <1>1, <1>2, GuiTakes
<1>6. ASSUME NEW old, NEW new, Agrees(old), AcceptGuiSources(new, entry.paths),
             new \in Session, \A f \in entry.paths : new[f] # None,
             \A f \in Files \ entry.paths : new[f] = old[f]
      PROVE  project'.health = "ready" /\ Agrees(project.session)'
  <2>1. documents' = Printed(new, entry.paths) /\ project' = Ready(new, revision + 1)
    BY <1>6 DEF AcceptGuiSources
  <2>2. Agrees(new)'
    BY <1>4, <1>6, <2>1, PrintedAgrees DEF IInv
  <2> QED
    BY <2>1, <2>2 DEF Ready, Agrees
<1>7. ASSUME NEW meanings \in [entry.paths -> Meanings], GuiEdit(entry.paths, meanings),
             entry = Edited(entry.paths, meanings)
      PROVE  Agrees(entry.before)
  <2>1. entry.before = project.session
    BY <1>7 DEF Edited
  <2> QED
    BY <1>7, <2>1 DEF GuiEdit, HasSession, CurrentInv
<1>8. CASE AcceptGuiSources(entry.after, entry.paths) /\ Agrees(entry.before)
  BY <1>4, <1>5, <1>6, <1>8
<1>9. CASE /\ AcceptGuiSources(entry.before, entry.paths)
           /\ Undo /\ entry = undo[Len(undo)]
  <2>1. Agrees(entry.after)
    BY <1>9 DEF Undo, CurrentInv
  <2> QED
    BY <1>4, <1>5, <1>6, <1>9, <2>1
<1>10. Redo /\ entry = redo[Len(redo)] => Agrees(entry.before)
  BY DEF Redo, CurrentInv
<1> QED
  BY <1>3, <1>7, <1>8, <1>9, <1>10

\* After a move the project that was printed is what the files mean.
LEMMA RefreshAgrees ==
  ASSUME IInv, Synced, CurrentInv, CheckedOperations, PathRefreshes,
         project'.health = "ready"
  PROVE  Agrees(project.session)'
<1>1. /\ project.health = "ready" /\ "external" \notin Operations /\ DocumentsInv
      /\ Agrees(project.session)
  BY DEF PathRefreshes, IInv, DocumentsInv, CurrentInv, CheckedOperations
<1>2. /\ project'.session = project.session
      /\ documents' = Refreshed(Refreshable)
  <2>1. PICK unread \in SUBSET Refreshable :
          /\ documents' = Refreshed(Refreshable \ unread)
          /\ project' = IF unread = {} THEN Ready(project.session, revision + 1)
                        ELSE Invalid
    BY DEF PathRefreshes
  <2>2. unread = {}
    BY <2>1 DEF Invalid
  <2> QED
    BY <2>1, <2>2 DEF Ready
<1>3. ASSUME NEW f \in Files, documents'[f] # None
      PROVE  project.session[f] = Meaning[documents'[f].text]
  <2>1. CASE f \notin Refreshable
    BY <1>1, <1>2, <1>3, <2>1 DEF Refreshed, Agrees, Opened
  <2>2. CASE f \in Refreshable
    <3> DEFINE doc == [documents[f] EXCEPT !.observed = disk[f]]
    <3>1. /\ f \in Opened /\ ~documents[f].dirty /\ disk[f] \in Texts
          /\ documents[f] \in Document /\ documents[f].text = documents[f].observed
          /\ Meaning[disk[f]] = Meaning[documents[f].observed]
      BY <1>1, <2>2, OpenedIsSound
         DEF Refreshable, Synced, DocumentsInv, DocumentsSound, TextOrNone,
             SoundDocument, Sound
    <3>2. doc \in Unwritten
      BY <3>1 DEF Document, Unwritten, Save, TextOrNone
    <3>3. documents'[f] = Edit(doc, disk[f])
      BY <1>2, <2>2 DEF Refreshed
    <3> HIDE DEF doc
    <3> QED
      BY <1>1, <3>1, <3>2, <3>3, EditFollows DEF Agrees
  <2> QED
    BY <2>1, <2>2
<1> QED
  BY <1>2, <1>3 DEF Agrees, Opened

\* A project that was loaded again is what the files mean.
LEMMA ReloadAgrees ==
  ASSUME ReloadProject, project'.health = "ready"
  PROVE  Agrees(project.session)'
<1>1. /\ Check(disk) # None /\ project'.session = Check(disk)
      /\ documents' = [f \in Files |-> IF disk[f] = None THEN None
                                       ELSE NewDocument(disk[f])]
  BY DEF ReloadProject, Ready, Invalid
<1>2. \A f \in Files : documents'[f] # None =>
        disk[f] # None /\ documents'[f].text = disk[f]
  BY <1>1 DEF NewDocument
<1> QED
  BY <1>1, <1>2, CheckFinds DEF Agrees, Opened

\* The check is one of the texts of the moment, before and after a step.
LEMMA ChecksAgree ==
  ASSUME IInv, HistoryInv, Synced, CurrentInv, CheckedOperations, [Next]_vars
  PROVE  /\ OfTexts(pending)' /\ OfTexts(active)'
         /\ active' # None /\ active'.revision = revision' /\ report' # None =>
              Agrees(report)'
<1>0. /\ revision \in Nat /\ DocumentsInv
      /\ pending # None => pending.revision \in Nat /\ pending.revision <= revision
      /\ active # None => active.revision \in Nat /\ active.revision <= revision
  BY DEF IInv, ProjectInv, CheckerInv, CheckRequest, HistoryInv, Harmless
<1>1. revision' \in {revision, revision + 1}
  BY RevisionSteps
<1>2. ASSUME revision' = revision
      PROVE  /\ WorkingTexts' = WorkingTexts
             /\ Opened' = Opened
             /\ \A f \in Opened : documents'[f].text = documents[f].text
  <2>1. Opened' = Opened /\ \A f \in Opened : documents'[f].text = documents[f].text
    BY <1>2, TextsStay
  <2> QED
    BY <2>1 DEF WorkingTexts
<1>3. ASSUME NEW check \in {pending, active}, check # None, check.revision = revision'
      PROVE  revision' = revision
  BY <1>0, <1>1, <1>3
<1>4. OfTexts(pending)'
  <2>1. CASE pending' = pending
    BY <1>2, <1>3, <2>1 DEF OfTexts, CurrentInv
  <2>2. CASE pending' = Payload'
    BY <2>2 DEF OfTexts, Payload
  <2> QED
    BY <2>1, <2>2, PendingSteps DEF OfTexts
<1>5. CASE active' = active /\ report' = report
  <2>1. OfTexts(active)'
    BY <1>2, <1>3, <1>5 DEF OfTexts, CurrentInv
  <2>2. active' # None /\ active'.revision = revision' /\ report' # None =>
          Agrees(report)'
    BY <1>2, <1>3, <1>5 DEF CurrentInv, Agrees
  <2> QED
    BY <1>4, <2>1, <2>2
<1>6. CASE WorkerStart
  <2>1. /\ active' = pending /\ UNCHANGED <<documents, revision>> /\ pending # None
        /\ report' = IF pending.sources = None THEN None ELSE Check(pending.sources)
    BY <1>6 DEF WorkerStart, Scheduler!Start
  <2>2. WorkingTexts' = WorkingTexts /\ Opened' = Opened
    BY <2>1 DEF WorkingTexts, Opened
  <2>3. OfTexts(active)'
    BY <2>1, <2>2 DEF OfTexts, CurrentInv
  <2>4. ASSUME active'.revision = revision', report' # None, NEW f \in Opened
        PROVE  report'[f] = Meaning[documents[f].text]
    <3>1. pending.sources = WorkingTexts
      BY <2>1, <2>4 DEF OfTexts, CurrentInv
    <3>2. f \in Files /\ documents[f].text \in Texts
      BY <1>0, <2>4, OpenedIsSound DEF DocumentsInv
    <3>3. WorkingTexts[f] = documents[f].text /\ documents[f].text # None
      BY <2>4, <3>2, WorkingCopyAssumption DEF WorkingTexts
    <3> QED
      BY <2>1, <2>4, <3>1, <3>2, <3>3, CheckFinds
  <2> QED
    BY <1>4, <2>1, <2>2, <2>3, <2>4 DEF Agrees
<1>7. CASE active' = None
  BY <1>4, <1>7 DEF OfTexts
<1> QED
  BY <1>5, <1>6, <1>7, ActiveSteps

\* Every step keeps the typed project, and what would replace it, current.
LEMMA NextCurrent ==
  ASSUME IInv, HistoryInv, HistoryInv', Synced, CurrentInv, CheckedOperations, [Next]_vars
  PROVE  CurrentInv'
<1>0. revision \in Nat
  BY DEF IInv, ProjectInv
<1>1. gate'.holder = "path" => "path" \in Operations
  BY HolderSteps DEF CurrentInv
<1>2. CASE revision' = revision
  <2>0. ~GuiAuthoring /\ ~ReloadProject
    <3>1. GuiAuthoring => revision' = revision + 1
      BY DEF GuiAuthoring, GuiEdit, Undo, Redo, AcceptGuiSources
    <3>2. ReloadProject => revision' = revision + 1
      BY DEF ReloadProject
    <3> QED
      BY <1>0, <1>2, <3>1, <3>2
  <2>1. ASSUME NEW session, Agrees(session)
        PROVE  Agrees(session)'
    BY <1>2, <2>1, TextsStay DEF Agrees
  <2>2. /\ undo' \in {undo, <<>>} /\ redo' \in {redo, <<>>}
    BY <2>0, HistorySteps
  <2>3. undo' \in Seq(ProperEntries) /\ redo' \in Seq(ProperEntries)
    BY <2>2, EmptySeq DEF CurrentInv
  <2>4. undo' # <<>> => Agrees(undo[Len(undo)].after)'
    <3>1. PICK session : session = undo[Len(undo)].after
      OBVIOUS
    <3> QED
      BY <2>1, <2>2, <3>1 DEF CurrentInv, Agrees
  <2>5. redo' # <<>> => Agrees(redo[Len(redo)].before)'
    <3>1. PICK session : session = redo[Len(redo)].before
      OBVIOUS
    <3> QED
      BY <2>1, <2>2, <3>1 DEF CurrentInv, Agrees
  <2>6. project'.health = "ready" => Agrees(project.session)'
    <3>1. ASSUME project'.health = "ready"
          PROVE  \E session : Agrees(session) /\ project'.session = session
      <4>1. CASE project.health = "ready" /\ project'.session = project.session
        BY <4>1 DEF CurrentInv
      <4>2. CASE active # None /\ ~Stale /\ report # None /\ project'.session = report
        BY <4>2 DEF CurrentInv, Stale
      <4> QED
        BY <2>0, <3>1, <4>1, <4>2, ReadySteps
    <3> QED
      BY <2>1, <3>1 DEF Agrees
  <2> QED
    BY <1>1, <2>3, <2>4, <2>5, <2>6, ChecksAgree DEF CurrentInv
<1>3. CASE GuiAuthoring
  <2>1. /\ undo' \in Seq(ProperEntries) /\ redo' \in Seq(ProperEntries)
        /\ project'.health = "ready" /\ Agrees(project.session)'
    BY <1>3, GuiAgrees
  <2>2. /\ undo' # <<>> => undo'[Len(undo')].after = project'.session
        /\ redo' # <<>> => redo'[Len(redo')].before = project'.session
    BY <2>1 DEF HistoryInv, Meets
  <2>3. /\ undo' # <<>> => Agrees(undo[Len(undo)].after)'
        /\ redo' # <<>> => Agrees(redo[Len(redo)].before)'
    BY <2>1, <2>2 DEF Agrees
  <2> QED
    BY <1>1, <2>1, <2>3, ChecksAgree DEF CurrentInv
<1>4. CASE /\ undo' = <<>> /\ redo' = <<>>
           /\ PathRefreshes \/ ReloadProject \/ project'.health # "ready"
  <2>1. project'.health = "ready" => Agrees(project.session)'
    BY <1>4, RefreshAgrees, ReloadAgrees
  <2> QED
    BY <1>1, <1>4, <2>1, ChecksAgree, EmptySeq DEF CurrentInv
<1> QED
  BY <1>2, <1>3, <1>4, RevisionSteps

\* A project starts with what its files mean.
LEMMA InitCurrent == Init => Synced /\ CurrentInv
<1> SUFFICES ASSUME Init
             PROVE  Synced /\ CurrentInv
  OBVIOUS
<1>1. \A f \in Files : IF disk[f] = None THEN documents[f] = None
                       ELSE documents[f] = NewDocument(disk[f])
  BY DEF Init
<1>2. IInv /\ Check(disk) # None /\ project = Ready(Check(disk), 0)
  BY InitInv DEF Init
<1>3. ASSUME NEW f \in Files, disk[f] # None
      PROVE  documents[f] # None
  BY <1>1, <1>2, <1>3, NewSound, NoDocument DEF IInv, DocumentsInv, SoundDocument
<1>4. ASSUME NEW f \in Files, documents[f] # None
      PROVE  /\ disk[f] # None /\ documents[f].text = disk[f]
             /\ documents[f].observed = disk[f]
  <2>1. disk[f] # None /\ documents[f] = NewDocument(disk[f])
    BY <1>1, <1>4, Zenon
  <2>2. \A text : NewDocument(text).text = text /\ NewDocument(text).observed = text
    BY DEF NewDocument
  <2> QED
    BY <2>1, <2>2, Zenon
<1>5. Agrees(project.session) /\ Synced
  <2>1. project.session = Check(disk)
    BY <1>2 DEF Ready
  <2>2. \A f \in Opened : f \in Files /\ documents[f] # None
    BY DEF Opened
  <2>3. ASSUME NEW f \in Opened
        PROVE  Check(disk)[f] = Meaning[documents[f].text]
    <3>1. disk[f] # None /\ documents[f].text = disk[f] /\ f \in Files
      BY <1>4, <2>2
    <3> QED
      BY <1>2, <3>1, CheckFinds
  <2>4. Synced
    BY <1>3, <1>4, <2>2 DEF Synced, Opened
  <2> QED
    BY <2>1, <2>3, <2>4 DEF Agrees
<1>6. CurrentInv
  BY <1>5, EmptySeq DEF Init, CurrentInv, OfTexts, Free
<1> QED
  BY <1>5, <1>6

\* The project that GUI editing and rendering use is what the open documents'
\* texts mean: through edits, undo and redo, checks that end late, saves that
\* fail, conflicts, moves and transitions, for any files, texts and meanings.
THEOREM TheSessionIsCurrent ==
  ASSUME "renameFails" \notin Operations,
         "external" \in Operations => "open" \notin Operations /\ "path" \notin Operations
  PROVE  Spec => []SessionIsCurrent
<1> DEFINE Inv == /\ IInv /\ HistoryInv /\ (Lasting => ExistInv)
                  /\ Synced /\ CurrentInv
<1>1. Init => Inv
  BY InitInv, InitHistory, InitExist, InitCurrent
<1>2. Inv /\ [Next]_vars => Inv'
  <2> SUFFICES ASSUME Inv, [Next]_vars
               PROVE  Inv'
    OBVIOUS
  <2>1. IInv' /\ HistoryInv'
    BY NextHistory
  <2>2. Lasting => ExistInv'
    BY <2>1, NextExist
  <2>3. Synced'
    BY <2>1, <2>2, NextSynced
  <2>4. CurrentInv'
    BY <2>1, NextCurrent DEF CheckedOperations
  <2> QED
    BY <2>1, <2>2, <2>3, <2>4 DEF Lasting
<1>3. Inv => SessionIsCurrent
  BY DEF CurrentInv, Agrees, SessionIsCurrent
<1> HIDE DEF Inv
<1> QED
  BY <1>1, <1>2, <1>3, PTL DEF Spec
=============================================================================
