-------------------------- MODULE WorkingCopyProofs --------------------------
(***************************************************************************)
(* WorkingCopy for any files, texts and meanings: the types, that a        *)
(* document that counts as saved holds the bytes last seen on disk, and    *)
(* who may take unsaved text or an undecided conflict away.                *)
(***************************************************************************)
EXTENDS WorkingCopy, SequenceTheorems, TLAPS

\* A document of the right type for which SavedIsSaved holds.
Sound(doc) == doc.save = "saved" \/ ~doc.dirty => doc.text = doc.observed
SoundDocument == {doc \in Document : Sound(doc)}
SoundOrNone == SoundDocument \cup {None}

\* What accept_gui_sources edits may not have a text yet.
Save == {"saved", "dirty", "saving", "conflict", "failed"}
Unwritten == [text : TextOrNone, observed : TextOrNone, dirty : BOOLEAN, rev : Nat,
              save : Save,
              external : {"current", "changed", "deleted"}]

\* A document that was just read is saved.
LEMMA NewDocumentSound == \A t \in Texts : NewDocument(t) \in SoundDocument
BY DEF NewDocument, SoundDocument, Sound, Document, TextOrNone

\* Editing gives a document a text, takes what it saw on disk as it is, and
\* keeps a sound document sound.
LEMMA EditSound ==
  ASSUME NEW doc \in Unwritten, NEW t \in Texts
  PROVE  /\ Edit(doc, t).text = t
         /\ Edit(doc, t).observed = doc.observed
         /\ doc.text # t \/ doc \in Document => Edit(doc, t) \in Document
         /\ doc.text # t \/ doc \in SoundDocument => Edit(doc, t) \in SoundDocument
<1>1. CASE doc.text # t
  <2> DEFINE dirty == doc.observed # t
             save == IF doc.external # "current" THEN "conflict"
                     ELSE IF dirty THEN "dirty" ELSE "saved"
             rev == doc.rev + 1
             new == [doc EXCEPT !.text = t, !.rev = rev, !.dirty = dirty,
                                !.save = save]
  <2>1. rev \in Nat
    BY DEF Unwritten
  <2>2. dirty \in BOOLEAN
    OBVIOUS
  <2>3. save \in Save
    BY DEF Save
  <2>4. /\ new \in Document /\ new.text = t /\ new.observed = doc.observed
        /\ new.dirty = dirty /\ new.save = save
    <3> HIDE DEF dirty, save, rev
    <3>1. new \in Document
      BY <2>1, <2>2, <2>3, Zenon DEF Document, Unwritten, Save
    <3>2. new.text = t
      BY Zenon DEF Unwritten
    <3>3. new.observed = doc.observed
      BY Zenon DEF Unwritten
    <3>4. new.dirty = dirty
      BY Zenon DEF Unwritten
    <3>5. new.save = save
      BY Zenon DEF Unwritten
    <3> QED
      BY <3>1, <3>2, <3>3, <3>4, <3>5
  <2>5. Edit(doc, t) = new
    BY <1>1 DEF Edit
  <2>6. Sound(new)
    <3> HIDE DEF new
    <3> QED  BY <2>4 DEF Sound
  <2> HIDE DEF new
  <2> QED
    BY <2>4, <2>5, <2>6 DEF SoundDocument
<1>2. CASE doc.text = t
  BY <1>2 DEF Edit
<1> QED
  BY <1>1, <1>2

\* A document that was read again is sound, whatever it was.
LEMMA ReloadedSound ==
  ASSUME NEW doc \in Document, NEW t \in Texts
  PROVE  Reloaded(doc, t) \in SoundDocument
<1> DEFINE read == [doc EXCEPT !.observed = t]
           edited == Edit(read, t)
<1>1. read \in Document /\ read.observed = t
  BY DEF Document, TextOrNone
<1>2. read \in Unwritten
  BY <1>1 DEF Document, Unwritten, Save, TextOrNone
<1>3. edited \in Document /\ edited.text = t /\ edited.observed = t
  <2> HIDE DEF read
  <2> QED  BY <1>1, <1>2, EditSound
<1>4. Reloaded(doc, t) = [edited EXCEPT !.dirty = FALSE, !.save = "saved",
                                        !.external = "current"]
  BY DEF Reloaded
<1> HIDE DEF edited
<1>5. Reloaded(doc, t) \in Document
  BY <1>3, <1>4, Zenon DEF Document
<1>6. Reloaded(doc, t).text = t /\ Reloaded(doc, t).observed = t
  BY <1>3, <1>4 DEF Document
<1> QED
  BY <1>5, <1>6 DEF SoundDocument, Sound

\* So are the other ways to write a document's state.
LEMMA SavedSound ==
  ASSUME NEW doc \in Document
  PROVE  [doc EXCEPT !.observed = doc.text, !.dirty = FALSE, !.save = "saved",
                     !.external = "current"] \in SoundDocument
BY DEF SoundDocument, Sound, Document, TextOrNone

\* A save that begins or fails marks its documents and keeps them sound.
LEMMA UnsavedSound ==
  ASSUME NEW doc \in SoundDocument, NEW save \in {"saving", "failed", "dirty"}
  PROVE  [doc EXCEPT !.save = save] \in SoundDocument
BY DEF SoundDocument, Sound, Document

\* An unsaved document that meets a conflict stays sound.
LEMMA ConflictSound ==
  ASSUME NEW f \in Files, NEW doc \in Document, doc.dirty,
         disk[f] \in TextOrNone
  PROVE  Conflict(doc, f) \in SoundDocument
BY DEF Conflict, DiskState, SoundDocument, Sound, Document

\* A document whose text the disk holds becomes saved, and is.
LEMMA MatchesDiskSound ==
  ASSUME NEW f \in Files, NEW doc \in Document, disk[f] = doc.text
  PROVE  MatchesDisk(doc, f) \in SoundDocument
BY DEF MatchesDisk, SoundDocument, Sound, Document, TextOrNone
-----------------------------------------------------------------------------
(***************************************************************************)
(* What the handlers make of the documents.                                *)
(***************************************************************************)
DocumentsSound == /\ disk \in [Files -> TextOrNone]
                  /\ documents \in [Files -> SoundOrNone]

\* Every open document is sound.
LEMMA OpenedIsSound ==
  ASSUME DocumentsSound, NEW f \in Opened
  PROVE  /\ f \in Files
         /\ documents[f] \in SoundDocument
         /\ documents[f] \in Document
         /\ documents[f].text \in Texts
BY DEF DocumentsSound, Opened, SoundOrNone, SoundDocument, Document

\* A file that exists opens as a sound document.
LEMMA NewSound ==
  ASSUME DocumentsSound, NEW f \in Files, disk[f] # None
  PROVE  NewDocument(disk[f]) \in SoundDocument
BY NewDocumentSound DEF DocumentsSound, TextOrNone

\* Either decision about a conflict leaves a sound document.
LEMMA DecidedSound ==
  ASSUME DocumentsSound, NEW f \in Opened, NEW decision,
         decision = "reload" => disk[f] # None
  PROVE  Decided(f, decision) \in SoundDocument
<1>1. documents[f] \in Document /\ disk[f] \in TextOrNone
  BY OpenedIsSound DEF DocumentsSound
<1>2. CASE decision = "reload"
  BY <1>1, <1>2, ReloadedSound DEF Decided, TextOrNone
<1>3. CASE decision # "reload"
  <2> DEFINE doc == documents[f]
             kept == disk[f] # doc.text
             save == IF kept THEN "dirty" ELSE "saved"
             new == [doc EXCEPT !.observed = disk[f], !.dirty = kept, !.save = save,
                                !.external = "current"]
  <2>1. kept \in BOOLEAN /\ save \in {"dirty", "saved"}
    OBVIOUS
  <2>2. new \in Document /\ new.text = doc.text /\ new.observed = disk[f]
        /\ new.dirty = kept /\ new.save = save
    <3> HIDE DEF kept, save, doc
    <3>0. doc \in Document
      BY <1>1 DEF doc
    <3>1. new \in Document
      BY <1>1, <2>1, <3>0, Zenon DEF Document
    <3>2. new.text = doc.text
      BY <3>0, Zenon DEF Document
    <3>3. new.observed = disk[f]
      BY <3>0, Zenon DEF Document
    <3>4. new.dirty = kept
      BY <3>0, Zenon DEF Document
    <3>5. new.save = save
      BY <3>0, Zenon DEF Document
    <3> QED
      BY <3>1, <3>2, <3>3, <3>4, <3>5
  <2>3. Decided(f, decision) = new
    BY <1>3 DEF Decided
  <2>4. Sound(new)
    <3> HIDE DEF new
    <3> QED  BY <2>2 DEF Sound
  <2> HIDE DEF new
  <2> QED
    BY <2>2, <2>3, <2>4 DEF SoundDocument
<1> QED
  BY <1>2, <1>3

\* Reconciling with the disk leaves sound documents.
LEMMA ReconciledSound ==
  ASSUME DocumentsSound
  PROVE  Reconciled \in [Files -> SoundOrNone]
<1> SUFFICES ASSUME NEW f \in Files
             PROVE  ReconciledDocument(f) \in SoundOrNone
  BY DEF Reconciled
<1> DEFINE doc == documents[f]
<1>0. disk[f] \in TextOrNone
  BY DEF DocumentsSound
<1>1. CASE f \notin Opened
  BY <1>1, NewSound DEF ReconciledDocument, SoundOrNone
<1>2. CASE f \in Opened
  <2>1. doc \in SoundDocument /\ doc \in Document
    BY <1>2, OpenedIsSound
  <2>2. CASE disk[f] = doc.observed
    BY <1>2, <2>1, <2>2 DEF ReconciledDocument, SoundOrNone
  <2>3. CASE disk[f] # doc.observed /\ disk[f] = doc.text
    BY <1>2, <2>1, <2>3, MatchesDiskSound DEF ReconciledDocument, SoundOrNone
  <2>4. CASE disk[f] \notin {doc.observed, doc.text} /\ doc.dirty
    BY <1>0, <1>2, <2>1, <2>4, ConflictSound DEF ReconciledDocument, SoundOrNone
  <2>5. CASE disk[f] \notin {doc.observed, doc.text} /\ ~doc.dirty
    <3> DEFINE read == [doc EXCEPT !.observed = disk[f], !.external = "current"]
    <3>1. read \in Document /\ read.text = doc.text
      BY <1>0, <2>1 DEF Document
    <3>2. read \in Unwritten
      BY <3>1 DEF Document, Unwritten, Save, TextOrNone
    <3>3. disk[f] # None => Edit(read, disk[f]) \in SoundDocument
      <4> HIDE DEF read
      <4> QED  BY <1>0, <2>5, <3>1, <3>2, EditSound DEF TextOrNone
    <3>4. ReconciledDocument(f) = IF disk[f] = None THEN None
                                  ELSE Edit(read, disk[f])
      BY <1>2, <2>5 DEF ReconciledDocument
    <3> QED
      BY <3>3, <3>4 DEF SoundOrNone
  <2> QED
    BY <2>2, <2>3, <2>4, <2>5
<1> QED
  BY <1>1, <1>2

\* Printing what the GUI changed leaves sound documents, new ones included.
LEMMA PrintedSound ==
  ASSUME DocumentsSound, NEW session \in Session, NEW paths \in SUBSET Files
  PROVE  Printed(session, paths) \in [Files -> SoundOrNone]
<1> SUFFICES ASSUME NEW f \in paths, session[f] # None
             PROVE  Edit(IF f \in Opened THEN documents[f] ELSE Unread(f),
                         Canonical[session[f]]) \in SoundDocument
  BY DEF Printed, DocumentsSound, SoundOrNone
<1> DEFINE t == Canonical[session[f]]
<1>1. t \in Texts /\ t # None
  BY WorkingCopyAssumption DEF Session
<1>2. CASE f \in Opened
  <2>1. documents[f] \in SoundDocument /\ documents[f] \in Unwritten
    BY <1>2, OpenedIsSound DEF Document, Unwritten, Save, TextOrNone
  <2> HIDE DEF t
  <2> QED
    BY <1>1, <1>2, <2>1, EditSound DEF t
<1>3. CASE f \notin Opened
  <2>1. Unread(f) \in Unwritten /\ Unread(f).text = None
    BY DEF DocumentsSound, Unread, NewDocument, Unwritten, Save, TextOrNone
  <2> HIDE DEF t
  <2> QED
    BY <1>1, <1>3, <2>1, EditSound DEF t
<1> QED
  BY <1>2, <1>3

\* Reading documents again after a move leaves sound documents.
LEMMA RefreshedSound ==
  ASSUME DocumentsSound, NEW read \in SUBSET Refreshable,
         \A f \in read : disk[f] # None
  PROVE  Refreshed(read) \in [Files -> SoundOrNone]
<1> SUFFICES ASSUME NEW f \in read
             PROVE  Edit([documents[f] EXCEPT !.observed = disk[f]], disk[f])
                      \in SoundDocument
  BY DEF Refreshed, DocumentsSound, SoundOrNone
<1> DEFINE doc == [documents[f] EXCEPT !.observed = disk[f]]
<1>1. f \in Opened /\ ~documents[f].dirty /\ disk[f] \in Texts
  BY DEF Refreshable, Opened, DocumentsSound, TextOrNone
<1>2. doc \in Document /\ doc.text = documents[f].text /\ doc.observed = disk[f]
  BY <1>1, OpenedIsSound DEF Document, TextOrNone
<1>3. doc \in Unwritten
  BY <1>2 DEF Document, Unwritten, Save, TextOrNone
<1>4. CASE doc.text = disk[f]
  <2>1. doc \in SoundDocument
    BY <1>2, <1>4 DEF SoundDocument, Sound
  <2> HIDE DEF doc
  <2> QED
    BY <1>1, <1>3, <2>1, EditSound DEF doc
<1>5. CASE doc.text # disk[f]
  <2> HIDE DEF doc
  <2> QED
    BY <1>1, <1>3, <1>5, EditSound DEF doc
<1> QED
  BY <1>4, <1>5

\* Changing several documents leaves sound documents wherever it stops.
LEMMA RewrittenSound ==
  ASSUME DocumentsSound, NEW files \in SUBSET Files, NEW texts \in [files -> Texts],
         NEW done \in SUBSET files, \A f \in done : f \in Opened \/ disk[f] # None
  PROVE  Rewritten(done, texts) \in [Files -> SoundOrNone]
<1> SUFFICES ASSUME NEW f \in done
             PROVE  Edit(Loaded(f), texts[f]) \in SoundDocument
  BY DEF Rewritten, DocumentsSound, SoundOrNone
<1>1. Loaded(f) \in SoundDocument
  BY OpenedIsSound, NewSound DEF Loaded
<1>2. Loaded(f) \in Unwritten /\ texts[f] \in Texts
  BY <1>1 DEF SoundDocument, Document, Unwritten, Save, TextOrNone
<1> QED
  BY <1>1, <1>2, EditSound

\* Discarding texts leaves sound documents.
LEMMA DiscardedSound ==
  ASSUME DocumentsSound, NEW paths
  PROVE  Discarded(paths) \in [Files -> SoundOrNone]
<1> SUFFICES ASSUME NEW f \in paths \cap Opened, disk[f] # None
             PROVE  Reloaded(documents[f], disk[f]) \in SoundDocument
  BY DEF Discarded, DocumentsSound, SoundOrNone
<1> QED
  BY OpenedIsSound, ReloadedSound DEF DocumentsSound, TextOrNone

\* Reading the project again gives sound documents.
LEMMA ReadSound ==
  ASSUME DocumentsSound
  PROVE  [f \in Files |-> IF disk[f] = None THEN None ELSE NewDocument(disk[f])]
           \in [Files -> SoundOrNone]
BY NewSound DEF SoundOrNone

\* What a check finds is a session, or nothing.
LEMMA CheckTyped ==
  ASSUME disk \in [Files -> TextOrNone], NEW sources \in [Files -> TextOrNone]
  PROVE  Check(sources) \in Session \cup {None}
<1> DEFINE seen == [f \in Files |-> IF sources[f] # None THEN sources[f] ELSE disk[f]]
           found == [f \in Files |-> IF seen[f] = None THEN None ELSE Meaning[seen[f]]]
<1>1. seen \in [Files -> TextOrNone]
  OBVIOUS
<1>2. found \in Session
  <2> HIDE DEF seen
  <2> QED  BY <1>1, WorkingCopyAssumption DEF Session, TextOrNone
<1>3. Check(sources) \in {found, None}
  BY DEF Check
<1> QED
  BY <1>2, <1>3

\* The working texts are a text or nothing for each file.
LEMMA WorkingTextsTyped ==
  ASSUME DocumentsSound
  PROVE  WorkingTexts \in [Files -> TextOrNone]
BY OpenedIsSound DEF WorkingTexts, TextOrNone

\* The two stacks of the history.
LEMMA FrontTyped ==
  ASSUME NEW S, NEW s \in Seq(S), s # <<>>
  PROVE  Front(s) \in Seq(S) /\ s[Len(s)] \in S
<1>1. Len(s) \in Nat \ {0}
  BY EmptySeq
<1>2. \A i \in 1..Len(s) : s[i] \in S
  BY ElementOfSeq
<1>3. \A i \in 1..(Len(s) - 1) : s[i] \in S
  BY <1>1, <1>2
<1>4. SubSeq(s, 1, Len(s) - 1) \in Seq(S)
  BY <1>1, <1>3, SubSeqProperties
<1> QED
  BY <1>1, <1>2, <1>4 DEF Front

\* Pushing an entry onto a stack that is then trimmed.
LEMMA TrimmedTyped ==
  ASSUME NEW S, NEW s \in Seq(S), NEW e \in S
  PROVE  Trimmed(Append(s, e)) \in Seq(S)
<1>1. Append(s, e) \in Seq(S) /\ Append(s, e) # <<>>
  BY AppendProperties
<1>2. Tail(Append(s, e)) \in Seq(S)
  BY <1>1, HeadTailProperties
<1> QED
  BY <1>1, <1>2 DEF Trimmed

-----------------------------------------------------------------------------
(***************************************************************************)
(* The inductive invariant.  A document changes under the mutex, or by the *)
(* writer that holds it: what that writer writes must be open.             *)
(***************************************************************************)
CheckRequest == [epoch : Nat, revision : Nat, generation : Nat,
                 sources : [Files -> TextOrNone] \cup {None}]

DocumentsInv == /\ DocumentsSound
                /\ externals \in 0..MaxExternal
                /\ gate \in [holder : Holder, writes : SUBSET Files]
                /\ \A f \in gate.writes : documents[f] \in SoundDocument
                /\ gate.holder = "path" => project.health = "ready"

ProjectInv ==
  /\ \/ project \in [health : {"checking", "invalid"},
                     session : {None}, typed : {None}]
     \/ project \in [health : {"ready"}, session : Session, typed : {revision}]
  /\ epoch \in Nat /\ revision \in Nat
  /\ undo \in Seq(Entry) /\ redo \in Seq(Entry)

CheckerInv == /\ autosave \in [on : BOOLEAN, generation : Nat]
              /\ pending \in CheckRequest \cup {None}
              /\ active \in CheckRequest \cup {None}
              /\ report \in Session \cup {None}

ClientInv ==
  /\ request \in Transition \cup {None}
  /\ authorized \in [epoch : Nat, revision : Nat, decision : Decision,
                     texts : [Files -> TextOrNone]] \cup {None}
  /\ closed \in BOOLEAN
  /\ draft \in [file : Files, epoch : Nat, rev : Nat, base : Texts] \cup {None}

IInv == DocumentsInv /\ ProjectInv /\ CheckerInv /\ ClientInv

\* It implies the type invariant and the property.
LEMMA InvImplies == IInv => TypeOK /\ SavedIsSaved
<1> SUFFICES ASSUME IInv
             PROVE  TypeOK /\ SavedIsSaved
  OBVIOUS
<1>1. documents \in [Files -> Document \cup {None}]
  BY DEF IInv, DocumentsInv, DocumentsSound, SoundOrNone, SoundDocument
<1>2. Scheduler!TypeOK
  BY DEF IInv, CheckerInv, CheckRequest, TextOrNone, Scheduler!TypeOK
<1>3. TypeOK
  BY <1>1, <1>2 DEF IInv, DocumentsInv, DocumentsSound, ProjectInv, CheckerInv,
     ClientInv, TypeOK
<1>4. SavedIsSaved
  BY OpenedIsSound DEF IInv, DocumentsInv, SavedIsSaved, SoundDocument, Sound
<1> QED
  BY <1>3, <1>4

\* What an action leaves alone stays as it was: the documents, the disk, the mutex;
LEMMA KeepDocuments ==
  DocumentsInv /\ UNCHANGED <<disk, externals, documents, project, gate>> =>
    DocumentsInv'
BY DEF DocumentsInv, DocumentsSound

\* ... the typed project with its history, ...
LEMMA KeepProject ==
  ProjectInv /\ UNCHANGED <<project, epoch, revision, history>> => ProjectInv'
BY DEF ProjectInv, history

\* ... the check, ...
LEMMA KeepChecker == CheckerInv /\ UNCHANGED <<autosave, checker>> => CheckerInv'
BY DEF CheckerInv, checker

\* ... and what clients have under way.
LEMMA KeepClient == ClientInv /\ UNCHANGED client => ClientInv'
BY DEF ClientInv, client

\* Whoever holds or leaves the mutex with nothing to write may change documents.
LEMMA FreeDocuments ==
  ASSUME DocumentsInv, UNCHANGED <<disk, externals>>, gate' = Free,
         documents' \in [Files -> SoundOrNone]
  PROVE  DocumentsInv'
BY DEF DocumentsInv, DocumentsSound, Free, Holder

\* A check that is scheduled is one of the texts of the moment.
LEMMA Scheduled ==
  ASSUME CheckerInv, DocumentsInv', ProjectInv',
         autosave' \in [on : BOOLEAN, generation : Nat], ScheduleWorkingCopy
  PROVE  CheckerInv'
<1>1. WorkingTexts' \in [Files -> TextOrNone]
  BY DEF DocumentsInv, DocumentsSound, WorkingTexts, Opened, SoundOrNone,
     SoundDocument, Document, TextOrNone
<1>2. Payload' \in CheckRequest
  BY <1>1 DEF Payload, CheckRequest, ProjectInv
<1>3. pending' = Payload' /\ active' = active /\ report' = report
  BY DEF ScheduleWorkingCopy, Scheduler!Schedule
<1> QED
  BY <1>2, <1>3 DEF CheckerInv

\* Every change of the sources keeps the invariant.
LEMMA SourcesChangedInv ==
  ASSUME IInv, NEW docs \in [Files -> SoundOrNone], SourcesChanged(docs),
         UNCHANGED <<disk, externals>>, gate' = Free
  PROVE  DocumentsInv' /\ ProjectInv' /\ CheckerInv'
<1>1. DocumentsInv'
  BY FreeDocuments DEF IInv, SourcesChanged
<1>2. ProjectInv'
  BY EmptySeq DEF IInv, ProjectInv, SourcesChanged, Checking
<1>3. CheckerInv'
  BY <1>1, <1>2, Scheduled DEF IInv, CheckerInv, SourcesChanged
<1> QED
  BY <1>1, <1>2, <1>3

\* So does every change of the typed project.
LEMMA AcceptGuiSourcesInv ==
  ASSUME IInv, NEW session \in Session, NEW paths \in SUBSET Files,
         AcceptGuiSources(session, paths),
         UNCHANGED <<disk, externals>>, gate' = Free,
         undo' \in Seq(Entry), redo' \in Seq(Entry)
  PROVE  DocumentsInv' /\ ProjectInv' /\ CheckerInv'
<1>1. DocumentsInv'
  BY FreeDocuments, PrintedSound DEF IInv, DocumentsInv, AcceptGuiSources
<1>2. ProjectInv'
  BY DEF IInv, ProjectInv, AcceptGuiSources, Ready
<1>3. CheckerInv'
  BY <1>1, <1>2, Scheduled DEF IInv, CheckerInv, AcceptGuiSources
<1> QED
  BY <1>1, <1>2, <1>3

-----------------------------------------------------------------------------
(***************************************************************************)
(* The actions.                                                            *)
(***************************************************************************)
LEMMA InitInv == Init => IInv
<1> SUFFICES ASSUME Init
             PROVE  IInv
  OBVIOUS
<1>1. disk \in [Files -> TextOrNone]
  BY WorkingCopyAssumption DEF Init, TextOrNone
<1>2. documents \in [Files -> SoundOrNone]
  BY <1>1, NewDocumentSound DEF Init, SoundOrNone, TextOrNone
<1>3. DocumentsInv
  BY <1>1, <1>2, WorkingCopyAssumption
     DEF Init, DocumentsInv, DocumentsSound, Free, Holder
<1>4. Check(disk) \in Session
  BY <1>1, CheckTyped DEF Init
<1>5. ProjectInv
  BY <1>4, EmptySeq DEF Init, ProjectInv, Ready
<1>6. CheckerInv
  BY DEF Init, CheckerInv
<1>7. ClientInv
  BY DEF Init, ClientInv
<1> QED
  BY <1>3, <1>5, <1>6, <1>7 DEF IInv

\* A text edit changes one open document.
LEMMA UpdateDocumentInv ==
  ASSUME IInv, NEW edit, NEW text \in Texts, UpdateDocument(edit, text),
         UNCHANGED <<disk, externals, gate>>
  PROVE  DocumentsInv' /\ ProjectInv' /\ CheckerInv'
<1> DEFINE f == edit.file
           docs == [documents EXCEPT ![f] = Edit(@, text)]
<1>1. f \in Opened /\ gate = Free
  BY DEF UpdateDocument, Accepts, Authoring
<1>2. documents[f] \in SoundDocument /\ documents[f] \in Unwritten /\ f \in Files
  BY <1>1, OpenedIsSound
     DEF IInv, DocumentsInv, Document, Unwritten, Save, TextOrNone
<1>3. Edit(documents[f], text) \in SoundDocument
  BY <1>2, EditSound
<1>4. docs \in [Files -> SoundOrNone]
  BY <1>2, <1>3 DEF IInv, DocumentsInv, DocumentsSound, SoundOrNone
<1>5. SourcesChanged(docs)
  BY DEF UpdateDocument
<1> HIDE DEF docs
<1> QED
  BY <1>1, <1>4, <1>5, SourcesChangedInv

\* Text edits, drafts, opening files and changes across files.
LEMMA TextAuthoringInv == IInv /\ TextAuthoring => IInv'
<1> SUFFICES ASSUME IInv, TextAuthoring
             PROVE  IInv'
  OBVIOUS
<1>1. ASSUME NEW f \in Files, NEW text \in Texts, EditText(f, text)
      PROVE  IInv'
  <2>1. DocumentsInv' /\ ProjectInv' /\ CheckerInv'
    BY <1>1, UpdateDocumentInv DEF EditText
  <2> QED
    BY <1>1, <2>1, KeepClient DEF IInv, EditText
<1>2. ASSUME NEW f \in Files, TakeDraft(f)
      PROVE  IInv'
  <2>1. DraftOf(f) \in [file : Files, epoch : Nat, rev : Nat, base : Texts]
    BY <1>2, OpenedIsSound
       DEF TakeDraft, DraftOf, IInv, DocumentsInv, ProjectInv, Document
  <2>2. ClientInv'
    BY <1>2, <2>1 DEF IInv, ClientInv, TakeDraft
  <2> QED
    BY <1>2, <2>2, KeepDocuments, KeepProject, KeepChecker DEF IInv, TakeDraft
<1>3. ASSUME NEW f \in Files, OpenFile(f)
      PROVE  IInv'
  <2>1. documents' \in [Files -> SoundOrNone]
    BY <1>3, NewSound
       DEF OpenFile, IInv, DocumentsInv, DocumentsSound, SoundOrNone
  <2>2. DocumentsInv'
    BY <1>3, <2>1, FreeDocuments DEF OpenFile, Settled, Authoring, IInv
  <2> QED
    BY <1>3, <2>2, KeepProject, KeepChecker, KeepClient DEF IInv, OpenFile
<1>4. ASSUME NEW text \in Texts, SendDraft(text)
      PROVE  IInv'
  <2>1. ClientInv'
    BY <1>4 DEF IInv, ClientInv, SendDraft
  <2>2. CASE UpdateDocument(draft, text)
    BY <1>4, <2>1, <2>2, UpdateDocumentInv DEF SendDraft, IInv
  <2>3. CASE ~UpdateDocument(draft, text)
    BY <1>4, <2>1, <2>3, KeepDocuments, KeepProject, KeepChecker
       DEF IInv, SendDraft
  <2> QED
    BY <2>2, <2>3
<1>5. ASSUME NEW files \in SUBSET Files, NEW texts \in [files -> Texts],
             ChangeDocuments(files, texts)
      PROVE  IInv'
  <2>1. Rewritten(files, texts) \in [Files -> SoundOrNone]
    BY <1>5, RewrittenSound DEF ChangeDocuments, IInv, DocumentsInv
  <2>2. DocumentsInv' /\ ProjectInv' /\ CheckerInv'
    BY <1>5, <2>1, SourcesChangedInv DEF ChangeDocuments, Authoring
  <2> QED
    BY <1>5, <2>2, KeepClient DEF IInv, ChangeDocuments
<1>6. ASSUME NEW files \in SUBSET Files, NEW texts \in [files -> Texts],
             ChangeDocumentsPartly(files, texts)
      PROVE  IInv'
  <2>1. PICK done \in SUBSET {f \in files : f \in Opened \/ disk[f] # None} :
               documents' = Rewritten(done, texts)
    BY <1>6 DEF ChangeDocumentsPartly
  <2>2. documents' \in [Files -> SoundOrNone]
    BY <2>1, RewrittenSound DEF IInv, DocumentsInv
  <2>3. DocumentsInv'
    BY <1>6, <2>2, FreeDocuments DEF ChangeDocumentsPartly, Authoring, IInv
  <2> QED
    BY <1>6, <2>3, KeepProject, KeepChecker, KeepClient
       DEF IInv, ChangeDocumentsPartly
<1> QED
  BY <1>1, <1>2, <1>3, <1>4, <1>5, <1>6 DEF TextAuthoring

\* GUI edits, undo and redo: what the history holds are sessions.
LEMMA GuiAuthoringInv == IInv /\ GuiAuthoring => IInv'
<1> SUFFICES ASSUME IInv, GuiAuthoring
             PROVE  IInv'
  OBVIOUS
<1>1. ASSUME NEW paths \in SUBSET Files, NEW meanings \in [paths -> Meanings],
             GuiEdit(paths, meanings)
      PROVE  IInv'
  <2> DEFINE before == project.session
             after == [f \in Files |-> IF f \in paths THEN meanings[f] ELSE before[f]]
             entry == [before |-> before, after |-> after, paths |-> paths]
  <2>1. before \in Session
    BY <1>1 DEF GuiEdit, HasSession, IInv, ProjectInv
  <2>2. after \in Session
    BY <2>1 DEF Session
  <2>3. entry \in Entry
    BY <2>1, <2>2 DEF Entry
  <2>4. /\ AcceptGuiSources(after, paths)
        /\ undo' = Trimmed(Append(undo, entry)) /\ redo' = <<>>
        /\ gate = Free /\ UNCHANGED <<disk, externals, gate, client>>
    BY <1>1 DEF GuiEdit, Authoring
  <2> HIDE DEF before, after, entry
  <2>5. undo' \in Seq(Entry) /\ redo' \in Seq(Entry)
    BY <2>3, <2>4, TrimmedTyped, EmptySeq DEF IInv, ProjectInv
  <2>6. DocumentsInv' /\ ProjectInv' /\ CheckerInv'
    BY <2>2, <2>4, <2>5, AcceptGuiSourcesInv
  <2> QED
    BY <2>4, <2>6, KeepClient DEF IInv
<1>2. CASE Undo
  <2> DEFINE entry == undo[Len(undo)]
  <2>1. entry \in Entry /\ Front(undo) \in Seq(Entry)
    BY <1>2, FrontTyped DEF Undo, IInv, ProjectInv
  <2>2. /\ AcceptGuiSources(entry.before, entry.paths)
        /\ undo' = Front(undo) /\ redo' = Append(redo, entry)
        /\ gate = Free /\ UNCHANGED <<disk, externals, gate, client>>
    BY <1>2 DEF Undo, Authoring
  <2> HIDE DEF entry
  <2>3. undo' \in Seq(Entry) /\ redo' \in Seq(Entry)
    BY <2>1, <2>2, AppendProperties DEF IInv, ProjectInv
  <2>4. entry.before \in Session /\ entry.paths \in SUBSET Files
    BY <2>1 DEF Entry
  <2>5. DocumentsInv' /\ ProjectInv' /\ CheckerInv'
    BY <2>2, <2>3, <2>4, AcceptGuiSourcesInv
  <2> QED
    BY <2>2, <2>5, KeepClient DEF IInv
<1>3. CASE Redo
  <2> DEFINE entry == redo[Len(redo)]
  <2>1. entry \in Entry /\ Front(redo) \in Seq(Entry)
    BY <1>3, FrontTyped DEF Redo, IInv, ProjectInv
  <2>2. /\ AcceptGuiSources(entry.after, entry.paths)
        /\ redo' = Front(redo) /\ undo' = Trimmed(Append(undo, entry))
        /\ gate = Free /\ UNCHANGED <<disk, externals, gate, client>>
    BY <1>3 DEF Redo, Authoring
  <2> HIDE DEF entry
  <2>3. undo' \in Seq(Entry) /\ redo' \in Seq(Entry)
    BY <2>1, <2>2, TrimmedTyped DEF IInv, ProjectInv
  <2>4. entry.after \in Session /\ entry.paths \in SUBSET Files
    BY <2>1 DEF Entry
  <2>5. DocumentsInv' /\ ProjectInv' /\ CheckerInv'
    BY <2>2, <2>3, <2>4, AcceptGuiSourcesInv
  <2> QED
    BY <2>2, <2>5, KeepClient DEF IInv
<1> QED
  BY <1>1, <1>2, <1>3 DEF GuiAuthoring

\* Other programs, reconciling, decisions about conflicts, settings.
LEMMA OutsideInv == IInv /\ Outside => IInv'
<1> SUFFICES ASSUME IInv, Outside
             PROVE  IInv'
  OBVIOUS
<1>1. ASSUME NEW f \in Files, NEW text \in TextOrNone, ExternalWrite(f, text)
      PROVE  IInv'
  <2>1. externals' \in 0..MaxExternal
    BY <1>1, WorkingCopyAssumption DEF IInv, DocumentsInv, ExternalWrite
  <2>2. DocumentsInv'
    BY <1>1, <2>1 DEF IInv, DocumentsInv, DocumentsSound, Opened, ExternalWrite
  <2> QED
    BY <1>1, <2>2, KeepProject, KeepChecker, KeepClient DEF IInv, ExternalWrite
<1>2. CASE ReconcileExternalFiles
  <2>1. DocumentsInv' /\ ProjectInv' /\ CheckerInv'
    BY <1>2, ReconciledSound, SourcesChangedInv
       DEF ReconcileExternalFiles, Authoring, IInv, DocumentsInv
  <2> QED
    BY <1>2, <2>1, KeepClient DEF IInv, ReconcileExternalFiles
<1>3. ASSUME NEW f \in Files, NEW decision \in {"reload", "keep"},
             ResolveExternalConflict(f, decision)
      PROVE  IInv'
  <2> DEFINE docs == [documents EXCEPT ![f] = Decided(f, decision)]
  <2>1. Decided(f, decision) \in SoundDocument
    BY <1>3, DecidedSound DEF ResolveExternalConflict, IInv, DocumentsInv
  <2>2. docs \in [Files -> SoundOrNone]
    BY <2>1 DEF IInv, DocumentsInv, DocumentsSound, SoundOrNone
  <2>3. SourcesChanged(docs)
    BY <1>3 DEF ResolveExternalConflict
  <2> HIDE DEF docs
  <2>4. DocumentsInv' /\ ProjectInv' /\ CheckerInv'
    BY <1>3, <2>2, <2>3, SourcesChangedInv
       DEF ResolveExternalConflict, Settled, Authoring
  <2> QED
    BY <1>3, <2>4, KeepClient DEF IInv, ResolveExternalConflict
<1>4. ASSUME NEW on \in BOOLEAN, SetAutosave(on)
      PROVE  IInv'
  <2>1. DocumentsInv' /\ ProjectInv' /\ ClientInv'
    BY <1>4, KeepDocuments, KeepProject, KeepClient DEF IInv, SetAutosave
  <2>2. autosave' \in [on : BOOLEAN, generation : Nat]
    BY <1>4 DEF IInv, CheckerInv, SetAutosave
  <2>3. CheckerInv'
    BY <1>4, <2>1, <2>2, Scheduled DEF IInv, CheckerInv, SetAutosave, checker
  <2> QED
    BY <2>1, <2>3 DEF IInv
<1>5. ASSUME NEW on \in BOOLEAN, SetAutosaveFails(on)
      PROVE  IInv'
  <2>1. DocumentsInv' /\ ProjectInv' /\ ClientInv'
    BY <1>5, KeepDocuments, KeepProject, KeepClient DEF IInv, SetAutosaveFails
  <2>2. CheckerInv'
    BY <1>5 DEF IInv, CheckerInv, SetAutosaveFails, checker
  <2> QED
    BY <2>1, <2>2 DEF IInv
<1> QED
  BY <1>1, <1>2, <1>3, <1>4, <1>5 DEF Outside

\* A save that begins announces documents; one that is refused writes nothing.
LEMMA SaveBeginsInv ==
  ASSUME DocumentsInv, NEW holder \in Holder \ {"path"}, NEW typed,
         SaveBegins(holder, typed), UNCHANGED <<disk, externals>>
  PROVE  DocumentsInv' /\ project' = typed
<1>1. ASSUME NEW f \in Dirty
      PROVE  f \in Opened /\ [documents[f] EXCEPT !.save = "saving"] \in SoundDocument
  BY OpenedIsSound, UnsavedSound DEF DocumentsInv, Dirty
<1>2. documents' \in [Files -> SoundOrNone]
  BY <1>1 DEF DocumentsInv, DocumentsSound, SaveBegins, SoundOrNone
<1>3. ASSUME NEW f \in Dirty
      PROVE  f \in Files /\ documents'[f] \in SoundDocument
  <2>1. documents'[f] = [documents[f] EXCEPT !.save = "saving"]
    BY <1>1 DEF SaveBegins, Opened
  <2> QED
    BY <1>1, <2>1 DEF Opened
<1>4. gate' = [holder |-> holder, writes |-> Dirty] /\ project' = typed
  BY DEF SaveBegins
<1> QED
  BY <1>2, <1>3, <1>4 DEF DocumentsInv, DocumentsSound

\* A refused save marks one document, and keeps the project or gives it up.
LEMMA SaveRefusedInv ==
  ASSUME DocumentsInv, gate = Free, NEW typed, SaveRefused(typed),
         UNCHANGED <<disk, externals>>
  PROVE  DocumentsInv' /\ project' \in {typed, Invalid}
<1>1. PICK f \in Dirty :
        \/ documents' = [documents EXCEPT ![f].save = "failed"] /\ project' = typed
        \/ documents' = [documents EXCEPT ![f] = Conflict(@, f)] /\ project' = Invalid
  BY DEF SaveRefused
<1>2. /\ f \in Files /\ documents[f] \in SoundDocument
      /\ documents[f] \in Document /\ documents[f].dirty
      /\ disk[f] \in TextOrNone
  BY OpenedIsSound DEF DocumentsInv, DocumentsSound, Dirty
<1>3. /\ [documents[f] EXCEPT !.save = "failed"] \in SoundDocument
      /\ Conflict(documents[f], f) \in SoundDocument
  BY <1>2, UnsavedSound, ConflictSound
<1>4. documents' \in [Files -> SoundOrNone]
  BY <1>1, <1>2, <1>3 DEF DocumentsInv, DocumentsSound, SoundOrNone
<1> QED
  BY <1>1, <1>4, FreeDocuments DEF SaveRefused

\* A writer ends with every document it wrote saved, or marked as failed.
LEMMA WrittenInv ==
  ASSUME DocumentsInv, SaveSucceeds \/ SaveFails, UNCHANGED externals,
         gate' \in [holder : Holder \ {"path"}, writes : {{}}]
  PROVE  DocumentsInv'
<1>1. ASSUME NEW f \in gate.writes
      PROVE  /\ f \in Files
             /\ documents[f] \in Document
             /\ documents[f].text \in Texts
             /\ [documents[f] EXCEPT !.observed = documents[f].text, !.dirty = FALSE,
                                     !.save = "saved", !.external = "current"]
                  \in SoundDocument
             /\ [documents[f] EXCEPT !.save = "failed"] \in SoundDocument
  <2>1. documents[f] \in SoundDocument /\ documents[f] \in Document /\ f \in Files
    BY DEF DocumentsInv, SoundDocument
  <2>2. documents[f].text \in Texts
    BY <2>1 DEF Document
  <2> QED
    BY <2>1, <2>2, SavedSound, UnsavedSound
<1>2. CASE SaveSucceeds
  <2>1. disk' \in [Files -> TextOrNone]
    BY <1>1, <1>2 DEF SaveSucceeds, DocumentsInv, DocumentsSound, TextOrNone
  <2>2. documents' \in [Files -> SoundOrNone]
    BY <1>1, <1>2 DEF SaveSucceeds, DocumentsInv, DocumentsSound, SoundOrNone
  <2> QED
    BY <2>1, <2>2 DEF DocumentsInv, DocumentsSound
<1>3. CASE SaveFails
  <2>1. documents' \in [Files -> SoundOrNone] /\ disk' = disk
    BY <1>1, <1>3 DEF SaveFails, DocumentsInv, DocumentsSound, SoundOrNone
  <2> QED
    BY <2>1 DEF DocumentsInv, DocumentsSound
<1> QED
  BY <1>2, <1>3

\* Saving by hand.
LEMMA SavingInv == IInv /\ Saving => IInv'
<1> SUFFICES ASSUME IInv, Saving
             PROVE  IInv'
  OBVIOUS
<1>1. CASE SaveAll
  <2>1. gate = Free /\ UNCHANGED <<disk, externals, epoch, revision, history>>
    BY <1>1 DEF SaveAll, Settled, Authoring
  <2>2. DocumentsInv' /\ project' \in {project, Invalid}
    BY <1>1, <2>1, SaveBeginsInv, SaveRefusedInv DEF SaveAll, IInv, Holder
  <2>3. ProjectInv'
    BY <2>1, <2>2 DEF IInv, ProjectInv, Invalid, history
  <2> QED
    BY <1>1, <2>2, <2>3, KeepChecker, KeepClient DEF IInv, SaveAll
<1>2. CASE SaveAllWrites
  <2>1. DocumentsInv'
    BY <1>2, WrittenInv DEF SaveAllWrites, IInv, Free, Holder
  <2> QED
    BY <1>2, <2>1, KeepProject, KeepChecker, KeepClient DEF IInv, SaveAllWrites
<1> QED
  BY <1>1, <1>2 DEF Saving

\* The check and the autosave after it.
LEMMA WorkerInv == IInv /\ Worker => IInv'
<1> SUFFICES ASSUME IInv, Worker
             PROVE  IInv'
  OBVIOUS
<1>0. ASSUME WorkerEnds
      PROVE  active # None /\ UNCHANGED pending /\ active' = None /\ report' = None
  BY <1>0 DEF WorkerEnds, Scheduler!Finish
<1>1. CASE WorkerStart
  <2>1. pending # None /\ active' = pending /\ pending' = None
    BY <1>1 DEF WorkerStart, Scheduler!Start
  <2>2. pending.sources # None => Check(pending.sources) \in Session \cup {None}
    BY <2>1, CheckTyped DEF IInv, CheckerInv, CheckRequest, DocumentsInv,
       DocumentsSound
  <2>3. CheckerInv'
    BY <1>1, <2>1, <2>2 DEF IInv, CheckerInv, WorkerStart
  <2> QED
    BY <1>1, <2>3, KeepDocuments, KeepProject, KeepClient DEF IInv, WorkerStart
<1>2. CASE WorkerDrops
  <2>1. CheckerInv'
    BY <1>0, <1>2 DEF IInv, CheckerInv, WorkerDrops
  <2> QED
    BY <1>2, <2>1, KeepDocuments, KeepProject, KeepClient DEF IInv, WorkerDrops
<1>3. CASE WorkerCompletes
  <2>1. gate = Free /\ UNCHANGED <<disk, externals, epoch, revision, history, autosave>>
    BY <1>3 DEF WorkerCompletes, Authoring
  <2>2. DocumentsInv' /\ project' \in {Analysed, Invalid}
    <3>1. CASE UNCHANGED <<documents, gate>> /\ project' = Analysed
      BY <2>1, <3>1, FreeDocuments DEF IInv, DocumentsInv, DocumentsSound
    <3>2. CASE SaveBegins("worker", Analysed)
      BY <2>1, <3>2, SaveBeginsInv DEF IInv, Holder
    <3>3. CASE SaveRefused(Analysed)
      BY <2>1, <3>3, SaveRefusedInv DEF IInv
    <3> QED
      BY <1>3, <3>1, <3>2, <3>3 DEF WorkerCompletes
  <2>3. ProjectInv'
    <3>1. \/ Analysed = project
          \/ Analysed = Invalid
          \/ Analysed = Ready(report, revision) /\ report # None
      BY Zenon DEF Analysed
    <3>2. report # None => report \in Session
      BY DEF IInv, CheckerInv
    <3> HIDE DEF Analysed
    <3> QED
      BY <2>1, <2>2, <3>1, <3>2 DEF IInv, ProjectInv, Invalid, Ready, history
  <2>4. CheckerInv'
    BY <1>0, <1>3 DEF IInv, CheckerInv, WorkerCompletes, checker
  <2> QED
    BY <1>3, <2>2, <2>3, <2>4, KeepClient DEF IInv, WorkerCompletes
<1>4. CASE WorkerWrites
  <2>1. DocumentsInv'
    BY <1>4, WrittenInv DEF WorkerWrites, IInv, Free, Holder
  <2>2. CheckerInv'
    BY <1>0, <1>4 DEF IInv, CheckerInv, WorkerWrites
  <2> QED
    BY <1>4, <2>1, <2>2, KeepProject, KeepClient DEF IInv, WorkerWrites
<1> QED
  BY <1>1, <1>2, <1>3, <1>4 DEF Worker

\* A transition that is applied is over, and leaves the mutex.
LEMMA AppliesInv ==
  ASSUME Applies
  PROVE  gate' = Free /\ request' = None
BY DEF Applies

\* Every step of a transition.
LEMMA TransitionStepInv == IInv /\ TransitionStep => IInv'
<1> SUFFICES ASSUME IInv, TransitionStep
             PROVE  IInv'
  OBVIOUS
<1>0. ASSUME request' = None, UNCHANGED <<closed, draft>>,
             authorized' \in {None, authorized}
      PROVE  ClientInv'
  BY <1>0 DEF IInv, ClientInv
<1>1. CASE TransitionReconciles
  <2>1. ClientInv'
    BY <1>1 DEF TransitionReconciles, IInv, ClientInv, Transition
  <2>2. CASE SourcesChanged(Reconciled)
    <3>1. DocumentsInv' /\ ProjectInv' /\ CheckerInv'
      BY <1>1, <2>2, ReconciledSound, SourcesChangedInv
         DEF TransitionReconciles, Authoring, IInv, DocumentsInv
    <3> QED
      BY <2>1, <3>1 DEF IInv
  <2>3. CASE ~SourcesChanged(Reconciled)
    BY <1>1, <2>1, <2>3, KeepDocuments, KeepProject, KeepChecker
       DEF IInv, TransitionReconciles
  <2> QED
    BY <2>2, <2>3
<1>2. CASE TransitionEnds
  BY <1>0, <1>2, KeepDocuments, KeepProject, KeepChecker DEF IInv, TransitionEnds
<1>3. CASE TransitionSaves
  <2>1. gate = Free /\ UNCHANGED <<disk, externals, epoch, revision, history>>
    BY <1>3 DEF TransitionSaves, Deciding, Settled, Authoring
  <2>2. DocumentsInv' /\ project' \in {project, Invalid}
    BY <1>3, <2>1, SaveBeginsInv, SaveRefusedInv DEF TransitionSaves, IInv, Holder
  <2>3. ProjectInv'
    BY <2>1, <2>2 DEF IInv, ProjectInv, Invalid, history
  <2>4. ClientInv'
    BY <1>3 DEF TransitionSaves, IInv, ClientInv
  <2> QED
    BY <1>3, <2>2, <2>3, <2>4, KeepChecker DEF IInv, TransitionSaves
<1>4. CASE TransitionWrites
  <2>1. gate' \in [holder : Holder \ {"path"}, writes : {{}}]
    BY <1>4 DEF TransitionWrites, IInv, DocumentsInv, Free, Holder
  <2>2. DocumentsInv'
    BY <1>4, <2>1, WrittenInv DEF TransitionWrites, IInv
  <2>3. ClientInv'
    BY <1>4 DEF TransitionWrites, IInv, ClientInv, Transition
  <2> QED
    BY <1>4, <2>2, <2>3, KeepProject, KeepChecker DEF IInv, TransitionWrites
<1>5. CASE CloseFile
  <2>1. ClientInv'
    BY <1>0, <1>5, AppliesInv DEF CloseFile
  <2>2. CASE request.decision = "discard"
    <3>1. DocumentsInv' /\ ProjectInv' /\ CheckerInv'
      BY <1>5, <2>2, AppliesInv, DiscardedSound, SourcesChangedInv
         DEF CloseFile, IInv, DocumentsInv
    <3> QED
      BY <2>1, <3>1 DEF IInv
  <2>3. CASE request.decision # "discard"
    <3>1. DocumentsInv'
      BY <1>5, <2>3, AppliesInv, FreeDocuments
         DEF CloseFile, IInv, DocumentsInv, DocumentsSound
    <3> QED
      BY <1>5, <2>1, <2>3, <3>1, KeepProject, KeepChecker DEF IInv, CloseFile
  <2> QED
    BY <2>2, <2>3
<1>6. CASE ReloadFile
  <2>1. ClientInv'
    BY <1>0, <1>6, AppliesInv DEF ReloadFile
  <2>2. DocumentsInv' /\ ProjectInv' /\ CheckerInv'
    BY <1>6, AppliesInv, DiscardedSound, SourcesChangedInv
       DEF ReloadFile, IInv, DocumentsInv
  <2> QED
    BY <2>1, <2>2 DEF IInv
<1>7. CASE ReloadProject
  <2>1. ClientInv'
    BY <1>0, <1>7, AppliesInv DEF ReloadProject
  <2>2. DocumentsInv'
    BY <1>7, AppliesInv, ReadSound, FreeDocuments
       DEF ReloadProject, IInv, DocumentsInv
  <2>3. Check(disk) \in Session \cup {None}
    BY CheckTyped DEF IInv, DocumentsInv, DocumentsSound
  <2>4. /\ epoch' = epoch + 1 /\ revision' = revision + 1
        /\ project' = IF Check(disk) = None THEN Invalid
                      ELSE Ready(Check(disk), revision + 1)
        /\ undo' = <<>> /\ redo' = <<>>
    BY <1>7 DEF ReloadProject
  <2>5. ProjectInv'
    BY <2>3, <2>4, EmptySeq DEF IInv, ProjectInv, Invalid, Ready
  <2>6. CheckerInv'
    BY <1>7 DEF ReloadProject, Scheduler!Invalidate, IInv, CheckerInv
  <2> QED
    BY <2>1, <2>2, <2>5, <2>6 DEF IInv
<1>8. CASE CloseApplication
  <2>1. DocumentsInv'
    BY <1>8, AppliesInv, FreeDocuments
       DEF CloseApplication, IInv, DocumentsInv, DocumentsSound
  <2>2. request \in Transition
    BY <1>8 DEF CloseApplication, Applies, IInv, ClientInv
  <2>3. request.decision \in Decision /\ request.texts \in [Files -> TextOrNone]
    BY <2>2 DEF Transition
  <2>4. authorized' \in [epoch : Nat, revision : Nat, decision : Decision,
                         texts : [Files -> TextOrNone]]
    BY <1>8, <2>3 DEF CloseApplication, IInv, ProjectInv
  <2>5. ClientInv'
    BY <1>8, <2>4, AppliesInv DEF CloseApplication, IInv, ClientInv
  <2> QED
    BY <1>8, <2>1, <2>5, KeepProject, KeepChecker DEF IInv, CloseApplication
<1>9. CASE TransitionFails
  <2>1. DocumentsInv'
    BY <1>9, AppliesInv, FreeDocuments
       DEF TransitionFails, IInv, DocumentsInv, DocumentsSound
  <2>2. ProjectInv'
    BY <1>9, EmptySeq DEF TransitionFails, IInv, ProjectInv, history
  <2>3. ClientInv'
    BY <1>0, <1>9, AppliesInv DEF TransitionFails
  <2> QED
    BY <1>9, <2>1, <2>2, <2>3, KeepChecker DEF IInv, TransitionFails
<1> QED
  BY <1>1, <1>2, <1>3, <1>4, <1>5, <1>6, <1>7, <1>8, <1>9 DEF TransitionStep

\* Asking for a transition, its steps, and closing.
LEMMA TransitionsInv == IInv /\ Transitions => IInv'
<1> SUFFICES ASSUME IInv, Transitions
             PROVE  IInv'
  OBVIOUS
<1>1. ASSUME NEW kind \in {"closeFile", "reloadFile", "reloadProject", "close"},
             NEW f \in Files, NEW decision \in Decision,
             RequestTransition(kind, f, decision)
      PROVE  IInv'
  <2>1. WorkingTexts \in [Files -> TextOrNone]
    BY WorkingTextsTyped DEF IInv, DocumentsInv
  <2>2. request' \in Transition
    BY <1>1, <2>1 DEF RequestTransition, IInv, ProjectInv, Transition
  <2>3. ClientInv'
    BY <1>1, <2>2 DEF RequestTransition, IInv, ClientInv
  <2> QED
    BY <1>1, <2>3, KeepDocuments, KeepProject, KeepChecker
       DEF IInv, RequestTransition
<1>2. CASE TransitionStep
  BY <1>2, TransitionStepInv
<1>3. CASE FinishClose
  <2>1. ClientInv'
    BY <1>3 DEF FinishClose, IInv, ClientInv
  <2> QED
    BY <1>3, <2>1, KeepDocuments, KeepProject, KeepChecker DEF IInv, FinishClose
<1> QED
  BY <1>1, <1>2, <1>3 DEF Transitions

\* Doing nothing.
LEMMA StutterInv == IInv /\ UNCHANGED vars => IInv'
BY KeepDocuments, KeepProject, KeepChecker, KeepClient DEF IInv, vars

\* A move: whoever holds the mutex for it has a typed project.
LEMMA MovingInv == IInv /\ Moving => IInv'
<1> SUFFICES ASSUME IInv, Moving
             PROVE  IInv'
  OBVIOUS
<1>1. CASE ChangePath
  <2>1. disk' \in [Files -> TextOrNone]
    <3>1. project.session \in Session /\ disk \in [Files -> TextOrNone]
      BY <1>1 DEF ChangePath, HasSession, IInv, ProjectInv, DocumentsInv, DocumentsSound
    <3>2. Renamed \in [Files -> TextOrNone]
      BY <3>1, WorkingCopyAssumption DEF Renamed, Session, TextOrNone
    <3> QED
      BY <1>1, <3>1, <3>2 DEF ChangePath
  <2>2. DocumentsInv'
    BY <1>1, <2>1 DEF ChangePath, HasSession, IInv, DocumentsInv, DocumentsSound, Holder
  <2> QED
    BY <1>1, <2>2, KeepProject, KeepChecker, KeepClient DEF IInv, ChangePath
<1>2. CASE PathRefreshes
  <2>1. PICK unread \in SUBSET Refreshable :
          /\ \A f \in Refreshable : disk[f] = None => f \in unread
          /\ documents' = Refreshed(Refreshable \ unread)
          /\ project' = IF unread = {} THEN Ready(project.session, revision + 1)
                        ELSE Invalid
    BY <1>2 DEF PathRefreshes
  <2>2. Refreshed(Refreshable \ unread) \in [Files -> SoundOrNone]
    BY <2>1, RefreshedSound DEF IInv, DocumentsInv
  <2>3. DocumentsInv'
    BY <1>2, <2>1, <2>2, FreeDocuments DEF PathRefreshes, IInv
  <2>4. project.session \in Session
    BY <1>2 DEF PathRefreshes, IInv, DocumentsInv, ProjectInv
  <2>5. ProjectInv'
    BY <1>2, <2>1, <2>4, EmptySeq DEF PathRefreshes, IInv, ProjectInv, Ready, Invalid
  <2> QED
    BY <1>2, <2>3, <2>5, KeepChecker, KeepClient DEF IInv, PathRefreshes
<1> QED
  BY <1>1, <1>2 DEF Moving

\* The invariant is inductive.
LEMMA NextInv == IInv /\ [Next]_vars => IInv'
BY TextAuthoringInv, GuiAuthoringInv, OutsideInv, SavingInv, MovingInv, WorkerInv,
   TransitionsInv, StutterInv DEF Next, Ended
-----------------------------------------------------------------------------
\* The state of the working copy has its type, whatever the files, the texts
\* and their meanings, and however many there are.
THEOREM TypeCorrect == Spec => []TypeOK
<1>1. Init => IInv
  BY InitInv
<1>2. IInv /\ [Next]_vars => IInv'
  BY NextInv
<1>3. IInv => TypeOK
  BY InvImplies
<1> QED
  BY <1>1, <1>2, <1>3, PTL DEF Spec

\* A document that is shown as saved, or that a transition need not ask about,
\* holds the bytes last seen on disk: through edits, undo, conflicts, saves that
\* fail half way, and every transition.
THEOREM SavedDocumentsAreSaved == Spec => []SavedIsSaved
<1>1. Init => IInv
  BY InitInv
<1>2. IInv /\ [Next]_vars => IInv'
  BY NextInv
<1>3. IInv => SavedIsSaved
  BY InvImplies
<1> QED
  BY <1>1, <1>2, <1>3, PTL DEF Spec
-----------------------------------------------------------------------------
(***************************************************************************)
(* What happens to unsaved text.                                           *)
(***************************************************************************)
\* Every unsaved text was there before, and the revision counts nothing.
Quiet == /\ UNCHANGED revision
         /\ \A f \in Dirty' : f \in Dirty /\ documents'[f].text = documents[f].text

\* The document stays open with its text; it may lose its conflict only if it is
\* one of those that are written.
Keeps(f) == /\ documents'[f] # None
            /\ documents'[f].text = documents[f].text
            /\ documents'[f].dirty => documents[f].dirty
            /\ documents'[f].external # "current" \/ documents[f].external = "current"
               \/ f \in gate.writes

\* A document is not None.
LEMMA NoDocument == None \notin Document
BY DocumentAssumption

\* Every document that is open is one, and stays so as Keeps demands.
LEMMA OpenedKeeps ==
  ASSUME DocumentsInv, NEW f \in Opened, documents'[f] = documents[f]
  PROVE  Keeps(f)
BY DEF Keeps, Opened

\* The mark of a save changes nothing else of a document.
LEMMA MarkedKeeps ==
  ASSUME NEW doc \in Document, NEW save \in {"saving", "failed"}
  PROVE  LET marked == [doc EXCEPT !.save = save]
         IN  /\ marked # None
             /\ marked.text = doc.text /\ marked.dirty = doc.dirty
             /\ marked.external = doc.external
<1>1. [doc EXCEPT !.save = save] \in Document
  BY DEF Document
<1> QED
  BY <1>1, NoDocument DEF Document

\* A save that begins marks what it writes.
LEMMA SaveBeginsKeeps ==
  ASSUME DocumentsInv, NEW holder, NEW typed, SaveBegins(holder, typed)
  PROVE  /\ \A f \in Opened : Keeps(f) /\ documents'[f].dirty = documents[f].dirty
                              /\ documents'[f].external = documents[f].external
         /\ \A f \in Files \ Opened : documents'[f] = documents[f]
<1>1. ASSUME NEW f \in Opened
      PROVE  Keeps(f) /\ documents'[f].dirty = documents[f].dirty
             /\ documents'[f].external = documents[f].external
  <2>1. f \in Files /\ documents[f] # None /\ documents[f] \in Document
    BY OpenedIsSound DEF DocumentsInv, Opened
  <2>2. CASE f \in Dirty
    <3>1. documents'[f] = [documents[f] EXCEPT !.save = "saving"]
      BY <2>1, <2>2 DEF SaveBegins
    <3> QED
      BY <2>1, <3>1, MarkedKeeps DEF Keeps
  <2>3. CASE f \notin Dirty
    BY <2>1, <2>3 DEF SaveBegins, Keeps
  <2> QED
    BY <2>2, <2>3
<1>2. \A f \in Files \ Opened : documents'[f] = documents[f]
  BY DEF SaveBegins, Dirty
<1> QED
  BY <1>1, <1>2

\* A save that is refused marks one document as failed or in conflict.
LEMMA SaveRefusedKeeps ==
  ASSUME DocumentsInv, NEW typed, SaveRefused(typed)
  PROVE  /\ \A f \in Opened : Keeps(f) /\ documents'[f].dirty = documents[f].dirty
         /\ \A f \in Files \ Opened : documents'[f] = documents[f]
<1>1. PICK g \in Dirty : \/ documents' = [documents EXCEPT ![g].save = "failed"]
                         \/ documents' = [documents EXCEPT ![g] = Conflict(@, g)]
  BY DEF SaveRefused
<1>2. g \in Opened /\ g \in Files /\ documents[g] \in Document
      /\ documents \in [Files -> SoundOrNone] /\ disk[g] \in TextOrNone
  BY OpenedIsSound DEF DocumentsInv, DocumentsSound, Dirty, Opened
<1>3. \A f \in Files \ {g} : documents'[f] = documents[f]
  BY <1>1, <1>2
<1>4. Keeps(g) /\ documents'[g].dirty = documents[g].dirty
  <2>1. CASE documents' = [documents EXCEPT ![g].save = "failed"]
    <3>1. documents'[g] = [documents[g] EXCEPT !.save = "failed"]
      BY <1>2, <2>1
    <3> QED
      BY <1>2, <3>1, MarkedKeeps DEF Keeps
  <2>2. CASE documents' = [documents EXCEPT ![g] = Conflict(@, g)]
    <3>1. documents'[g] = Conflict(documents[g], g)
      BY <1>2, <2>2
    <3>2. Conflict(documents[g], g) \in Document
      BY <1>2 DEF Conflict, DiskState, Document, TextOrNone
    <3>3. /\ Conflict(documents[g], g).text = documents[g].text
          /\ Conflict(documents[g], g).dirty = documents[g].dirty
          /\ Conflict(documents[g], g).external # "current"
      BY <1>2 DEF Conflict, DiskState, Document
    <3> QED
      BY <3>1, <3>2, <3>3, NoDocument DEF Keeps
  <2> QED
    BY <1>1, <2>1, <2>2
<1>5. \A f \in Opened : Keeps(f) /\ documents'[f].dirty = documents[f].dirty
  BY <1>3, <1>4 DEF Keeps, Opened
<1> QED
  BY <1>2, <1>3, <1>5

\* A writer leaves every text as it was, and what it wrote is saved or failed.
LEMMA WrittenKeeps ==
  ASSUME DocumentsInv, SaveSucceeds \/ SaveFails
  PROVE  /\ \A f \in Opened : Keeps(f)
         /\ \A f \in Files \ Opened : documents'[f] = documents[f]
         /\ SaveSucceeds => \A f \in gate.writes : ~documents'[f].dirty
<1>1. ASSUME NEW f \in gate.writes
      PROVE  f \in Files /\ documents[f] \in Document /\ f \in Opened
  BY NoDocument DEF DocumentsInv, SoundDocument, Opened
<1>2. ASSUME SaveSucceeds, NEW f \in gate.writes
      PROVE  Keeps(f) /\ ~documents'[f].dirty
  <2> DEFINE saved == [documents[f] EXCEPT !.observed = documents[f].text,
                          !.dirty = FALSE, !.save = "saved", !.external = "current"]
  <2>1. documents'[f] = saved
    BY <1>1, <1>2 DEF SaveSucceeds
  <2>2. saved \in Document /\ saved.text = documents[f].text /\ ~saved.dirty
    BY <1>1, <1>2 DEF Document, TextOrNone
  <2> HIDE DEF saved
  <2> QED
    BY <1>2, <2>1, <2>2, NoDocument DEF Keeps
<1>3. ASSUME SaveFails, NEW f \in gate.writes
      PROVE  Keeps(f)
  <2>1. documents'[f] = [documents[f] EXCEPT !.save = "failed"]
    BY <1>1, <1>3 DEF SaveFails
  <2> QED
    BY <1>1, <1>3, <2>1, MarkedKeeps DEF Keeps
<1>4. ASSUME NEW f \in Files \ gate.writes
      PROVE  documents'[f] = documents[f]
  BY <1>4 DEF SaveSucceeds, SaveFails
<1>5. \A f \in Opened : Keeps(f)
  BY <1>2, <1>3, <1>4 DEF Keeps, Opened
<1>6. \A f \in Files \ Opened : documents'[f] = documents[f]
  BY <1>1, <1>4
<1> QED
  BY <1>2, <1>5, <1>6

\* Reading the documents again after a move leaves what is unsaved as it was, and
\* makes nothing unsaved.
LEMMA RefreshKeeps ==
  ASSUME DocumentsInv, PathRefreshes
  PROVE  /\ \A f \in Dirty : documents'[f] = documents[f]
         /\ Dirty' \subseteq Dirty
<1>1. PICK read \in SUBSET Refreshable :
        /\ \A f \in read : disk[f] # None
        /\ documents' = Refreshed(read)
  BY DEF PathRefreshes
<1>2. \A f \in Files \ read : documents'[f] = documents[f]
  BY <1>1 DEF Refreshed
<1>3. ASSUME NEW f \in read
      PROVE  ~documents'[f].dirty
  <2> DEFINE doc == [documents[f] EXCEPT !.observed = disk[f]]
  <2>1. f \in Files /\ f \in Opened /\ ~documents[f].dirty /\ disk[f] \in Texts
    BY <1>1 DEF Refreshable, Opened, DocumentsInv, DocumentsSound, TextOrNone
  <2>2. doc \in Document /\ ~doc.dirty /\ doc.observed = disk[f]
    BY <2>1, OpenedIsSound DEF DocumentsInv, Document, TextOrNone
  <2>3. documents'[f] = Edit(doc, disk[f])
    BY <1>1, <2>1 DEF Refreshed
  <2> HIDE DEF doc
  <2>4. CASE doc.text = disk[f]
    BY <2>2, <2>3, <2>4 DEF Edit
  <2>5. CASE doc.text # disk[f]
    <3> DEFINE edited == [doc EXCEPT !.text = disk[f], !.rev = @ + 1, !.dirty = FALSE]
    <3>1. \E save : Edit(doc, disk[f]) = [edited EXCEPT !.save = save]
      BY <2>2, <2>5 DEF Edit
    <3>2. edited.dirty = FALSE /\ "dirty" \in DOMAIN edited
      BY <2>2 DEF Document
    <3> QED
      BY <2>3, <3>1, <3>2
  <2> QED
    BY <2>4, <2>5
<1>4. \A f \in Dirty : f \in Files \ read
  BY <1>1 DEF Dirty, Refreshable, Opened
<1> QED
  BY <1>2, <1>3, <1>4 DEF Dirty, Opened

\* A reconcile keeps every unsaved text, and its conflict unless the disk has come
\* to hold the text.
LEMMA ReconciledKeeps ==
  ASSUME DocumentsInv, documents' = Reconciled, NEW f \in Dirty
  PROVE  /\ documents'[f] # None /\ documents'[f].text = documents[f].text
         /\ \/ documents'[f].external # "current"
            \/ documents[f].external = "current"
            \/ disk[f] = documents[f].text
<1>1. /\ f \in Opened /\ f \in Files /\ documents[f] \in Document
      /\ documents[f].dirty /\ disk[f] \in TextOrNone /\ documents[f] # None
  BY OpenedIsSound DEF DocumentsInv, DocumentsSound, Dirty, Opened
<1>2. documents'[f] = ReconciledDocument(f)
  BY <1>1 DEF Reconciled
<1>3. CASE disk[f] = documents[f].observed
  BY <1>1, <1>2, <1>3 DEF ReconciledDocument
<1>4. CASE disk[f] # documents[f].observed /\ disk[f] = documents[f].text
  <2>1. documents'[f] = MatchesDisk(documents[f], f)
    BY <1>1, <1>2, <1>4 DEF ReconciledDocument
  <2>2. MatchesDisk(documents[f], f) \in Document
        /\ MatchesDisk(documents[f], f).text = documents[f].text
    BY <1>1 DEF MatchesDisk, Document, TextOrNone
  <2> QED
    BY <1>4, <2>1, <2>2, NoDocument
<1>5. CASE disk[f] \notin {documents[f].observed, documents[f].text}
  <2>1. documents'[f] = Conflict(documents[f], f)
    BY <1>1, <1>2, <1>5 DEF ReconciledDocument
  <2>2. /\ Conflict(documents[f], f) \in Document
        /\ Conflict(documents[f], f).text = documents[f].text
        /\ Conflict(documents[f], f).external # "current"
    BY <1>1 DEF Conflict, DiskState, Document, TextOrNone
  <2> QED
    BY <2>1, <2>2, NoDocument
<1> QED
  BY <1>3, <1>4, <1>5
-----------------------------------------------------------------------------
\* The worker, a save and the watcher leave every unsaved text with its author:
\* for any files and texts, and however the other programs write them.
THEOREM NothingIsLost == Spec => NothingLostInBackground
<1>1. ASSUME IInv, NEW f \in Dirty,
             Worker \/ Saving \/ Moving \/ ReconcileExternalFiles \/ TransitionReconciles
      PROVE  Kept(f)
  <2>1. /\ f \in Files /\ f \in Opened /\ documents[f] # None /\ DocumentsInv
    BY <1>1 DEF IInv, Dirty, Opened
  <2>2. SUFFICES documents'[f] # None /\ documents'[f].text = documents[f].text
    BY <2>1, <2>2 DEF Kept, WorkingTexts, Opened
  <2>3. CASE UNCHANGED documents
    BY <2>1, <2>3
  <2>4. CASE SaveAll
    BY <2>1, <2>4, SaveBeginsKeeps, SaveRefusedKeeps DEF SaveAll, Keeps
  <2>5. CASE SaveAllWrites
    BY <2>1, <2>5, WrittenKeeps DEF SaveAllWrites, Keeps
  <2>6. CASE WorkerCompletes
    BY <2>1, <2>6, SaveBeginsKeeps, SaveRefusedKeeps DEF WorkerCompletes, Keeps
  <2>7. CASE WorkerWrites
    BY <2>1, <2>7, WrittenKeeps DEF WorkerWrites, Keeps
  <2>8. CASE documents' = Reconciled
    BY <1>1, <2>1, <2>8, ReconciledKeeps
  <2>9. CASE PathRefreshes
    BY <1>1, <2>1, <2>9, RefreshKeeps
  <2> QED
    BY <1>1, <2>3, <2>4, <2>5, <2>6, <2>7, <2>8, <2>9
       DEF Worker, Saving, Moving, ChangePath, WorkerStart, WorkerDrops, ReconcileExternalFiles,
           TransitionReconciles, SourcesChanged
<1>2. IInv /\ [Next]_vars => IInv'
  BY NextInv
<1>3. IInv => [Worker \/ Saving \/ Moving \/ ReconcileExternalFiles
                 \/ TransitionReconciles => \A f \in Dirty : Kept(f)]_vars
  BY <1>1
<1> QED
  BY <1>2, <1>3, InitInv, PTL DEF Spec, NothingLostInBackground
-----------------------------------------------------------------------------
(***************************************************************************)
(* The mutex while somebody writes: what is announced is all that is       *)
(* unsaved, and it has no conflict.  Nothing is unsaved once a transition  *)
(* has saved.                                                              *)
(***************************************************************************)
Written == request # None /\ request.phase = "saved"

GateInv == /\ Written => gate.holder = "transition" /\ Dirty = {}
           /\ gate.holder \in {"worker", "saveAll", "transition"} /\ ~Written =>
                Dirty \subseteq gate.writes
           /\ \A f \in gate.writes : documents[f].external = "current"

\* Nobody holds the mutex, and no transition has saved.
LEMMA FreeGate == gate = Free /\ ~Written => GateInv
BY DEF GateInv, Free

\* While the mutex is free no transition has saved.
LEMMA FreeNotWritten == GateInv /\ gate = Free => ~Written
BY DEF GateInv, Free

\* What does not touch the documents leaves the mutex as it is.
LEMMA SameGate ==
  ASSUME GateInv, UNCHANGED <<documents, gate, request>>
  PROVE  GateInv'
BY DEF GateInv, Written, Dirty, Opened

\* A save that begins announces every unsaved document, and none is in conflict.
LEMMA SaveBeginsGate ==
  ASSUME DocumentsInv, NEW holder, NEW typed, SaveBegins(holder, typed), ~Written'
  PROVE  GateInv'
<1>1. Dirty' = Dirty
  <2>1. \A f \in Files : f \in Dirty' <=> f \in Dirty
    BY SaveBeginsKeeps DEF Keeps, Dirty, Opened
  <2> QED
    BY <2>1 DEF Dirty, Opened
<1>2. gate'.writes = Dirty
  BY DEF SaveBegins
<1>3. ASSUME NEW f \in Dirty
      PROVE  documents'[f].external = "current"
  BY <1>3, SaveBeginsKeeps DEF SaveBegins, Clash, Dirty
<1> QED
  BY <1>1, <1>2, <1>3 DEF GateInv

\* The mutex is given back, or was free before.
LEMMA NextGate == IInv /\ GateInv /\ [Next]_vars => GateInv'
<1> SUFFICES ASSUME IInv, GateInv, [Next]_vars
             PROVE  GateInv'
  OBVIOUS
<1>0. DocumentsInv /\ (gate = Free => ~Written)
  BY FreeNotWritten DEF IInv
<1>1. ASSUME Authoring, gate' = gate, request' \in {request, None}
      PROVE  GateInv'
  BY <1>0, <1>1, FreeGate DEF Authoring, GateInv, Written, Free
<1>2. CASE TextAuthoring
  BY <1>1, <1>2, SameGate
     DEF TextAuthoring, EditText, TakeDraft, OpenFile, SendDraft, ChangeDocuments,
         ChangeDocumentsPartly, UpdateDocument, Settled, client
<1>3. CASE GuiAuthoring
  BY <1>1, <1>3 DEF GuiAuthoring, GuiEdit, Undo, Redo, client
<1>4. CASE Outside
  BY <1>1, <1>4, SameGate
     DEF Outside, ExternalWrite, ReconcileExternalFiles, ResolveExternalConflict,
         SetAutosave, SetAutosaveFails, Settled, client
<1>5. CASE SaveAll
  <2>1. gate = Free /\ ~Written' /\ (gate' = gate \/ SaveBegins("saveAll", project))
    BY <1>0, <1>5 DEF SaveAll, SaveRefused, Settled, Authoring, Written, client
  <2> QED
    BY <1>0, <2>1, SaveBeginsGate DEF GateInv, Free
<1>6. CASE SaveAllWrites \/ WorkerWrites
  <2>1. ~Written
    BY <1>6 DEF SaveAllWrites, WorkerWrites, GateInv
  <2>2. gate' = Free /\ request' = request
    BY <1>6 DEF SaveAllWrites, WorkerWrites, client
  <2> QED
    BY <2>1, <2>2, FreeGate DEF Written, GateInv, Free
<1>7. CASE WorkerStart \/ WorkerDrops
  BY <1>7, SameGate DEF WorkerStart, WorkerDrops, client
<1>8. CASE WorkerCompletes
  <2>1. gate = Free /\ ~Written' /\ (gate' = gate \/ SaveBegins("worker", Analysed))
    BY <1>0, <1>8 DEF WorkerCompletes, SaveRefused, Authoring, Written, client
  <2> QED
    BY <1>0, <2>1, SaveBeginsGate DEF GateInv, Free
<1>9. ASSUME NEW kind, NEW f \in Files, NEW decision, RequestTransition(kind, f, decision)
      PROVE  GateInv'
  <2>1. ~Written /\ ~Written' /\ UNCHANGED <<documents, gate>>
    BY <1>9 DEF RequestTransition, Written
  <2> QED
    BY <2>1 DEF GateInv, Dirty, Opened
<1>10. CASE TransitionReconciles
  <2>1. gate = Free /\ gate' = gate /\ ~Written'
    BY <1>0, <1>10 DEF TransitionReconciles, Authoring, Written, IInv, ClientInv, Transition
  <2> QED
    BY <2>1 DEF GateInv, Free
<1>11. CASE TransitionEnds
  BY <1>1, <1>11 DEF TransitionEnds, Deciding, Settled
<1>12. CASE TransitionSaves
  <2>1. gate = Free /\ ~Written' /\ (gate' = gate \/ SaveBegins("transition", project))
    BY <1>0, <1>12 DEF TransitionSaves, Deciding, SaveRefused, Settled, Authoring, Written
  <2> QED
    BY <1>0, <2>1, SaveBeginsGate DEF GateInv, Free
<1>13. CASE TransitionWrites
  <2>1. CASE gate' = Free /\ request' = None
    BY <2>1 DEF GateInv, Written, Free
  <2>2. CASE SaveSucceeds /\ gate' = [gate EXCEPT !.writes = {}]
    <3>1. Dirty \subseteq gate.writes
      BY <1>13 DEF TransitionWrites, GateInv, Written, Free
    <3>2. ASSUME NEW f \in Files, documents'[f] # None, documents'[f].dirty
          PROVE  FALSE
      <4>1. CASE f \in Opened
        BY <1>0, <2>2, <3>1, <3>2, <4>1, WrittenKeeps DEF Keeps, Dirty
      <4>2. CASE f \notin Opened
        BY <1>0, <2>2, <3>2, <4>2, WrittenKeeps DEF Opened
      <4> QED
        BY <4>1, <4>2
    <3>3. Dirty' = {}
      BY <3>2 DEF Dirty, Opened
    <3>4. gate'.holder = "transition" /\ gate'.writes = {}
      BY <1>0, <1>13, <2>2 DEF TransitionWrites, DocumentsInv
    <3> QED
      BY <3>3, <3>4 DEF GateInv
  <2> QED
    BY <1>13, <2>1, <2>2 DEF TransitionWrites
<1>14. CASE Applies
  BY <1>14 DEF Applies, GateInv, Written, Free
<1>15. CASE FinishClose \/ UNCHANGED vars
  BY <1>15, SameGate DEF FinishClose, vars, client
<1>16. CASE ChangePath
  <2>1. gate = Free /\ gate' = [holder |-> "path", writes |-> {}] /\ request' = request
    BY <1>16 DEF ChangePath, Settled, Authoring, client
  <2> QED
    BY <1>0, <2>1 DEF GateInv, Written
<1>17. CASE PathRefreshes
  <2>1. ~Written /\ gate' = Free /\ request' = request
    BY <1>17 DEF PathRefreshes, GateInv, client
  <2> QED
    BY <2>1, FreeGate DEF Written, GateInv, Free
<1> QED
  BY <1>2, <1>3, <1>4, <1>5, <1>6, <1>7, <1>8, <1>9, <1>10, <1>11, <1>12, <1>13,
     <1>14, <1>15, <1>16, <1>17
     DEF Moving, Next, Saving, Worker, Transitions, TransitionStep, CloseFile, ReloadFile,
         ReloadProject, CloseApplication, TransitionFails, Ended
-----------------------------------------------------------------------------
\* A document that is edited stays open and keeps its conflict.
LEMMA EditKeepsConflict ==
  ASSUME NEW doc \in Unwritten, NEW text \in Texts
  PROVE  Edit(doc, text).external = doc.external
BY DEF Edit, Unwritten

\* A document in conflict stays so while its author edits it.
LEMMA EditedKeepsConflict ==
  ASSUME DocumentsInv, NEW f \in Conflicted, NEW text \in Texts,
         documents'[f] = Edit(documents[f], text)
  PROVE  f \in Conflicted'
<1>1. f \in Files /\ documents[f] \in SoundDocument /\ documents[f] \in Document
      /\ documents[f].external # "current"
  BY OpenedIsSound DEF Conflicted, DocumentsInv
<1>2. documents[f] \in Unwritten
  BY <1>1 DEF Document, Unwritten, Save, TextOrNone
<1>3. Edit(documents[f], text).external # "current"
  BY <1>1, <1>2, EditKeepsConflict
<1>4. Edit(documents[f], text) \in Document
  BY <1>1, <1>2, EditSound
<1> QED
  BY <1>1, <1>3, <1>4, NoDocument DEF Conflicted, Opened

\* So does one that is printed again.
LEMMA PrintedKeepsConflict ==
  ASSUME DocumentsInv, NEW f \in Conflicted, NEW session \in Session, NEW paths,
         documents' = Printed(session, paths)
  PROVE  f \in Conflicted'
<1>1. f \in Files /\ f \in Opened
  BY DEF Conflicted, Opened
<1>2. CASE f \in paths /\ session[f] # None
  <2> DEFINE text == Canonical[session[f]]
  <2>1. text \in Texts
    BY <1>1, <1>2, WorkingCopyAssumption DEF Session
  <2>2. documents'[f] = Edit(documents[f], text)
    BY <1>1, <1>2 DEF Printed
  <2> HIDE DEF text
  <2> QED
    BY <2>1, <2>2, EditedKeepsConflict
<1>3. CASE ~(f \in paths /\ session[f] # None)
  BY <1>1, <1>3 DEF Printed, Conflicted, Opened
<1> QED
  BY <1>2, <1>3

\* GUI edits, undo and redo print a session.
LEMMA GuiPrints ==
  ASSUME IInv, GuiAuthoring
  PROVE  \E session \in Session, paths \in SUBSET Files :
           AcceptGuiSources(session, paths)
<1>1. ASSUME NEW paths \in SUBSET Files, NEW meanings \in [paths -> Meanings],
             GuiEdit(paths, meanings)
      PROVE  \E session \in Session : AcceptGuiSources(session, paths)
  <2> DEFINE after == [f \in Files |-> IF f \in paths THEN meanings[f]
                                      ELSE project.session[f]]
  <2>1. project.session \in Session
    BY <1>1 DEF GuiEdit, HasSession, IInv, ProjectInv
  <2>2. after \in Session /\ AcceptGuiSources(after, paths)
    BY <1>1, <2>1 DEF Session, GuiEdit
  <2> QED
    BY <2>2
<1>2. CASE Undo
  <2> DEFINE entry == undo[Len(undo)]
  <2>1. entry \in Entry
    BY <1>2, FrontTyped DEF Undo, IInv, ProjectInv
  <2>2. AcceptGuiSources(entry.before, entry.paths)
    BY <1>2 DEF Undo
  <2> HIDE DEF entry
  <2> QED
    BY <2>1, <2>2 DEF Entry
<1>3. CASE Redo
  <2> DEFINE entry == redo[Len(redo)]
  <2>1. entry \in Entry
    BY <1>3, FrontTyped DEF Redo, IInv, ProjectInv
  <2>2. AcceptGuiSources(entry.after, entry.paths)
    BY <1>3 DEF Redo
  <2> HIDE DEF entry
  <2> QED
    BY <2>1, <2>2 DEF Entry
<1> QED
  BY <1>1, <1>2, <1>3 DEF GuiAuthoring

\* A transition that is applied finds nothing unsaved, or throws away what its
\* author said to discard.
LEMMA AppliesDiscards ==
  ASSUME GateInv, Applies
  PROVE  \/ Dirty = {}
         \/ request.decision = "discard" /\ request # None /\ Current
BY DEF Applies, GateInv, Written

\* For any files and texts, an unsaved document leaves its conflict only by a
\* decision of its author, or because the disk holds its text.
THEOREM ConflictsAreDecided == Spec => ConflictNeedsDecision
<1>1. ASSUME IInv, GateInv, [Next]_vars, NEW f \in Conflicted \cap Dirty,
             \A how \in {"reload", "keep"} : ~ResolveExternalConflict(f, how),
             ~(request # None /\ request.decision = "discard"),
             disk[f] # documents[f].text
      PROVE  f \in Conflicted'
  <2>1. /\ DocumentsInv /\ f \in Files /\ f \in Opened /\ documents[f] # None
        /\ documents \in [Files -> SoundOrNone]
        /\ documents[f].external # "current" /\ f \in Dirty
    BY <1>1 DEF IInv, DocumentsInv, DocumentsSound, Conflicted, Opened
  <2>2. CASE documents'[f] = documents[f]
    BY <2>1, <2>2 DEF Conflicted, Opened
  <2>3. f \notin gate.writes
    BY <1>1, <2>1 DEF GateInv
  <2>4. CASE Keeps(f)
    BY <2>1, <2>3, <2>4 DEF Keeps, Conflicted, Opened
  <2>5. CASE TextAuthoring
    <3>1. ASSUME NEW edit, NEW text \in Texts, UpdateDocument(edit, text),
                 edit.file \in Files
          PROVE  f \in Conflicted'
      BY <1>1, <2>1, <2>2, <3>1, EditedKeepsConflict DEF UpdateDocument, SourcesChanged
    <3>2. ASSUME NEW texts, NEW done \in SUBSET Files, \A g \in done : texts[g] \in Texts,
                 documents' = Rewritten(done, texts)
          PROVE  f \in Conflicted'
      <4>1. CASE f \in done
        BY <1>1, <2>1, <3>2, <4>1, EditedKeepsConflict DEF Rewritten, Loaded
      <4>2. CASE f \notin done
        BY <2>1, <2>2, <3>2, <4>2 DEF Rewritten
      <4> QED
        BY <4>1, <4>2
    <3>3. CASE \E g \in Files : TakeDraft(g) \/ OpenFile(g)
      BY <2>1, <2>2, <3>3 DEF TakeDraft, OpenFile
    <3>4. CASE \E g \in Files, text \in Texts : EditText(g, text)
      BY <3>1, <3>4 DEF EditText, DraftOf
    <3>5. CASE \E text \in Texts : SendDraft(text)
      BY <1>1, <2>2, <3>1, <3>5 DEF SendDraft, IInv, ClientInv
    <3>6. ASSUME NEW files \in SUBSET Files, NEW texts \in [files -> Texts],
                 ChangeDocuments(files, texts) \/ ChangeDocumentsPartly(files, texts)
          PROVE  f \in Conflicted'
      BY <3>2, <3>6 DEF ChangeDocuments, ChangeDocumentsPartly, SourcesChanged
    <3> QED
      BY <2>5, <3>3, <3>4, <3>5, <3>6 DEF TextAuthoring
  <2>6. CASE GuiAuthoring
    <3>1. \E session \in Session, paths \in SUBSET Files :
            AcceptGuiSources(session, paths)
      BY <1>1, <2>6, GuiPrints
    <3> QED
      BY <1>1, <2>1, <3>1, PrintedKeepsConflict DEF AcceptGuiSources
  <2>7. CASE Outside
    <3>1. CASE ReconcileExternalFiles
      BY <1>1, <2>1, <3>1, ReconciledKeeps
         DEF ReconcileExternalFiles, SourcesChanged, Conflicted, Opened
    <3>2. ASSUME NEW g \in Files, NEW how \in {"reload", "keep"},
                 ResolveExternalConflict(g, how)
          PROVE  f \in Conflicted'
      <4>1. g # f
        BY <1>1, <3>2
      <4>2. documents' = [documents EXCEPT ![g] = Decided(g, how)]
        BY <3>2 DEF ResolveExternalConflict, SourcesChanged
      <4> QED
        BY <2>1, <2>2, <4>1, <4>2
    <3>3. CASE UNCHANGED documents
      BY <2>2, <3>3
    <3> QED
      BY <2>7, <3>1, <3>2, <3>3
         DEF Outside, ExternalWrite, SetAutosave, SetAutosaveFails
  <2>8. CASE Saving
    BY <2>1, <2>4, <2>8, SaveBeginsKeeps, SaveRefusedKeeps, WrittenKeeps
       DEF Saving, SaveAll, SaveAllWrites
  <2>9. CASE Worker
    BY <2>1, <2>2, <2>4, <2>9, SaveBeginsKeeps, SaveRefusedKeeps, WrittenKeeps
       DEF Worker, WorkerStart, WorkerDrops, WorkerCompletes, WorkerWrites
  <2>10. CASE Transitions
    <3>1. ~Applies
      BY <1>1, <2>1, AppliesDiscards
    <3>2. CASE TransitionReconciles
      BY <1>1, <2>1, <2>2, <3>2, ReconciledKeeps
         DEF TransitionReconciles, SourcesChanged, Conflicted, Opened
    <3>3. CASE TransitionSaves
      BY <2>1, <2>4, <3>3, SaveBeginsKeeps, SaveRefusedKeeps DEF TransitionSaves
    <3>4. CASE TransitionWrites
      BY <2>1, <2>4, <3>4, WrittenKeeps DEF TransitionWrites
    <3>5. CASE UNCHANGED documents
      BY <2>2, <3>5
    <3> QED
      BY <2>10, <3>1, <3>2, <3>3, <3>4, <3>5
         DEF Transitions, TransitionStep, RequestTransition, TransitionEnds, CloseFile,
             ReloadFile, ReloadProject, CloseApplication, TransitionFails, FinishClose
  <2>11. CASE Moving
    BY <2>1, <2>2, <2>11, RefreshKeeps DEF Moving, ChangePath
  <2> QED
    BY <1>1, <2>2, <2>5, <2>6, <2>7, <2>8, <2>9, <2>10, <2>11 DEF Next, Ended, vars
<1>2. Init => GateInv
  BY FreeGate DEF Init, Written
<1>3. IInv /\ [Next]_vars => IInv'
  BY NextInv
<1>4. IInv /\ GateInv /\ [Next]_vars => GateInv'
  BY NextGate
<1>5. IInv /\ GateInv /\ [Next]_vars =>
        [\A f \in Conflicted \cap Dirty :
           \/ f \in Conflicted'
           \/ disk[f] = documents[f].text
           \/ \E how \in {"reload", "keep"} : ResolveExternalConflict(f, how)
           \/ request # None /\ request.decision = "discard"]_vars
  BY <1>1
<1> QED
  BY <1>2, <1>3, <1>4, <1>5, InitInv, PTL DEF Spec, ConflictNeedsDecision
-----------------------------------------------------------------------------
(***************************************************************************)
(* What was there to be seen.  As long as the revision has not moved since *)
(* a transition was asked for, every unsaved text is one its author could  *)
(* see; the same holds of a close that was granted.  A rename that fails   *)
(* half way edits texts and does not count (the code's own gap), so this   *)
(* is about working copies without one.                                    *)
(***************************************************************************)
Seen(texts) == \A f \in Dirty : texts[f] = documents[f].text

ReviewInv ==
  /\ request # None => /\ request.revision <= revision
                       /\ request.revision = revision => Seen(request.texts)
  /\ authorized # None =>
       /\ authorized.revision <= revision
       /\ authorized.revision = revision =>
            /\ Seen(authorized.texts)
            /\ Dirty # {} => authorized.decision = "discard"

\* What leaves the documents and the revision alone is quiet.
LEMMA SameIsQuiet == UNCHANGED <<documents, revision>> => Quiet
BY DEF Quiet, Dirty, Opened

\* A save is quiet: it keeps the open documents and leaves the others.
LEMMA KeptIsQuiet ==
  ASSUME UNCHANGED revision, \A f \in Opened : Keeps(f),
         \A f \in Files \ Opened : documents'[f] = documents[f]
  PROVE  Quiet
BY DEF Quiet, Keeps, Dirty, Opened

\* Whatever happens to unsaved texts, the revision counts it.
LEMMA RevisionCounts ==
  ASSUME IInv, [Next]_vars, "renameFails" \notin Operations
  PROVE  Quiet \/ revision' = revision + 1
<1>0. DocumentsInv
  BY DEF IInv
<1>1. CASE TextAuthoring
  <2>1. ASSUME NEW f \in Files, OpenFile(f)
        PROVE  Quiet
    <3>1. /\ documents' = [documents EXCEPT ![f] = NewDocument(disk[f])]
          /\ f \notin Opened /\ revision' = revision
          /\ documents \in [Files -> SoundOrNone]
      BY <1>0, <2>1 DEF OpenFile, DocumentsInv, DocumentsSound
    <3>2. ~documents'[f].dirty
      BY <3>1 DEF NewDocument
    <3>3. \A g \in Files \ {f} : documents'[g] = documents[g]
      BY <3>1
    <3> QED
      BY <3>1, <3>2, <3>3 DEF Quiet, Dirty, Opened
  <2> QED
    BY <1>1, <2>1, SameIsQuiet
       DEF TextAuthoring, EditText, TakeDraft, SendDraft, UpdateDocument,
           SourcesChanged, ChangeDocuments, ChangeDocumentsPartly
<1>2. CASE GuiAuthoring
  BY <1>2 DEF GuiAuthoring, GuiEdit, Undo, Redo, AcceptGuiSources
<1>3. CASE Outside
  BY <1>3, SameIsQuiet
     DEF Outside, ExternalWrite, ReconcileExternalFiles, ResolveExternalConflict,
         SetAutosave, SetAutosaveFails, SourcesChanged
<1>4. CASE Saving
  BY <1>0, <1>4, SaveBeginsKeeps, SaveRefusedKeeps, WrittenKeeps, KeptIsQuiet
     DEF Saving, SaveAll, SaveAllWrites
<1>5. CASE Worker
  BY <1>0, <1>5, SaveBeginsKeeps, SaveRefusedKeeps, WrittenKeeps, KeptIsQuiet,
     SameIsQuiet DEF Worker, WorkerStart, WorkerDrops, WorkerCompletes, WorkerWrites
<1>6. CASE TransitionSaves \/ TransitionWrites
  BY <1>0, <1>6, SaveBeginsKeeps, SaveRefusedKeeps, WrittenKeeps, KeptIsQuiet
     DEF TransitionSaves, TransitionWrites
<1>7. CASE TransitionReconciles \/ TransitionEnds \/ CloseFile \/ ReloadFile
           \/ ReloadProject \/ CloseApplication \/ TransitionFails \/ FinishClose
  BY <1>7, SameIsQuiet
     DEF TransitionReconciles, TransitionEnds, CloseFile, ReloadFile, ReloadProject,
         CloseApplication, TransitionFails, FinishClose, SourcesChanged
<1>8. ASSUME NEW kind, NEW f \in Files, NEW decision, RequestTransition(kind, f, decision)
      PROVE  Quiet
  BY <1>8, SameIsQuiet DEF RequestTransition
<1>9. CASE UNCHANGED vars
  BY <1>9, SameIsQuiet DEF vars
<1>10. CASE Moving
  BY <1>10, SameIsQuiet DEF Moving, ChangePath, PathRefreshes
<1> QED
  BY <1>1, <1>2, <1>3, <1>4, <1>5, <1>6, <1>7, <1>8, <1>9, <1>10
     DEF Next, Transitions, TransitionStep, Ended

\* The request of a transition stays what it was until it is answered.
LEMMA RequestStays ==
  ASSUME IInv, [Next]_vars, request' # None
  PROVE  \/ /\ request # None
            /\ request'.revision = request.revision /\ request'.texts = request.texts
         \/ /\ request'.revision = revision /\ request'.texts = WorkingTexts
            /\ UNCHANGED <<documents, revision>>
<1>1. CASE request' = request
  BY <1>1
<1>2. ASSUME NEW kind, NEW f \in Files, NEW decision, RequestTransition(kind, f, decision)
      PROVE  /\ request'.revision = revision /\ request'.texts = WorkingTexts
             /\ UNCHANGED <<documents, revision>>
  BY <1>2 DEF RequestTransition
<1>3. ASSUME request # None, NEW phase \in {"reconciled", "saved"},
             request' = [request EXCEPT !.phase = phase]
      PROVE  request'.revision = request.revision /\ request'.texts = request.texts
  BY <1>3 DEF IInv, ClientInv, Transition
<1> QED
  BY <1>1, <1>2, <1>3
     DEF Next, TextAuthoring, EditText, TakeDraft, OpenFile, SendDraft, ChangeDocuments,
         ChangeDocumentsPartly, GuiAuthoring, GuiEdit, Undo, Redo, Outside,
         ExternalWrite, ReconcileExternalFiles, ResolveExternalConflict, SetAutosave,
         SetAutosaveFails, Saving, SaveAll, SaveAllWrites, Moving, ChangePath, PathRefreshes, Worker, WorkerStart,
         WorkerDrops, WorkerCompletes, WorkerWrites, Transitions, TransitionStep,
         TransitionReconciles, TransitionEnds, TransitionSaves, TransitionWrites,
         CloseFile, ReloadFile, ReloadProject, CloseApplication, TransitionFails,
         Applies, FinishClose, Ended, vars, client

\* A close is granted to a transition that was applied, and to nothing else.
LEMMA AuthorizedStays ==
  ASSUME [Next]_vars, authorized' # None, authorized' # authorized
  PROVE  CloseApplication
BY DEF Next, TextAuthoring, EditText, TakeDraft, OpenFile, SendDraft, ChangeDocuments,
       ChangeDocumentsPartly, GuiAuthoring, GuiEdit, Undo, Redo, Outside,
       ExternalWrite, ReconcileExternalFiles, ResolveExternalConflict, SetAutosave,
       SetAutosaveFails, Saving, SaveAll, SaveAllWrites, Moving, ChangePath, PathRefreshes, Worker, WorkerStart,
       WorkerDrops, WorkerCompletes, WorkerWrites, Transitions, TransitionStep,
       RequestTransition, TransitionReconciles, TransitionEnds, TransitionSaves,
       TransitionWrites, CloseFile, ReloadFile, ReloadProject, TransitionFails,
       FinishClose, Ended, vars, client

\* What was seen stays seen while nothing is counted.
LEMMA QuietSeen ==
  ASSUME Quiet, NEW texts, Seen(texts)
  PROVE  Seen(texts)'
BY DEF Quiet, Seen

\* The texts that a request names are those of the open documents.
LEMMA WorkingTextsSeen == Seen(WorkingTexts)
BY DEF Seen, WorkingTexts, Dirty, Opened

\* What was seen at an earlier revision than this one does not matter any more.
LEMMA SeenAsLong ==
  ASSUME IInv, [Next]_vars, "renameFails" \notin Operations,
         NEW at \in Nat, NEW texts, at <= revision,
         at = revision => Seen(texts)
  PROVE  /\ at <= revision'
         /\ at = revision' => Seen(texts)' /\ revision' = revision
<1>1. revision \in Nat
  BY DEF IInv, ProjectInv
<1>2. CASE Quiet
  BY <1>1, <1>2, QuietSeen DEF Quiet
<1>3. CASE revision' = revision + 1
  BY <1>1, <1>3
<1> QED
  BY <1>2, <1>3, RevisionCounts

\* The invariant is inductive.
LEMMA NextReview ==
  ASSUME IInv, GateInv, ReviewInv, [Next]_vars, "renameFails" \notin Operations
  PROVE  ReviewInv'
<1>1. ASSUME request' # None
      PROVE  /\ request'.revision <= revision'
             /\ request'.revision = revision' => Seen(request.texts)'
  <2>1. revision \in Nat
    BY DEF IInv, ProjectInv
  <2>2. CASE request # None /\ request'.revision = request.revision
             /\ request'.texts = request.texts
    <3>1. PICK at, texts : at \in Nat /\ at = request.revision /\ texts = request.texts
      BY <2>2 DEF IInv, ClientInv, Transition
    <3>2. at <= revision /\ (at = revision => Seen(texts))
      BY <2>2, <3>1 DEF ReviewInv
    <3>3. at <= revision' /\ (at = revision' => Seen(texts)')
      BY <3>1, <3>2, SeenAsLong
    <3> QED
      BY <2>2, <3>1, <3>3 DEF Seen
  <2>3. CASE request'.revision = revision /\ request'.texts = WorkingTexts
             /\ UNCHANGED <<documents, revision>>
    BY <2>1, <2>3, WorkingTextsSeen DEF Seen, Dirty, Opened
  <2> QED
    BY <1>1, <2>2, <2>3, RequestStays
<1>2. ASSUME authorized' # None
      PROVE  /\ authorized'.revision <= revision'
             /\ authorized'.revision = revision' =>
                  /\ Seen(authorized.texts)'
                  /\ Dirty' # {} => authorized'.decision = "discard"
  <2>1. CASE authorized' = authorized
    <3>1. PICK at, texts : at \in Nat /\ at = authorized.revision
                        /\ texts = authorized.texts
      BY <1>2, <2>1 DEF IInv, ClientInv
    <3>2. at <= revision /\ (at = revision => Seen(texts))
      BY <1>2, <2>1, <3>1 DEF ReviewInv
    <3>3. at <= revision' /\ (at = revision' => Seen(texts)' /\ revision' = revision)
      BY <3>1, <3>2, SeenAsLong
    <3>4. at = revision' => Quiet
      BY <3>3, RevisionCounts DEF IInv, ProjectInv
    <3>5. at = revision' /\ Dirty' # {} => authorized.decision = "discard"
      BY <1>2, <2>1, <3>1, <3>3, <3>4 DEF ReviewInv, Quiet
    <3> QED
      BY <2>1, <3>1, <3>3, <3>5 DEF Seen
  <2>2. CASE authorized' # authorized
    <3>1. CloseApplication
      BY <1>2, <2>2, AuthorizedStays
    <3>2. /\ UNCHANGED <<documents, revision>> /\ request # None
          /\ authorized'.revision = revision
          /\ authorized'.decision = request.decision
          /\ authorized'.texts = request.texts
          /\ Applies
      BY <3>1 DEF CloseApplication, Applies
    <3>3. Dirty = {} \/ (request.decision = "discard" /\ request.revision = revision)
      BY <3>2, AppliesDiscards DEF Current
    <3>4. Seen(request.texts)
      BY <3>2, <3>3 DEF ReviewInv, Seen
    <3> QED
      BY <3>2, <3>3, <3>4 DEF Seen, Dirty, Opened, IInv, ProjectInv
  <2> QED
    BY <2>1, <2>2
<1> QED
  BY <1>1, <1>2 DEF ReviewInv

\* The invariants of this part hold at first.
LEMMA InitReview == Init => IInv /\ GateInv /\ ReviewInv
BY InitInv, FreeGate DEF Init, Written, ReviewInv

\* A transition throws away only unsaved texts that its author could see when
\* it said discard, for any files and texts, if no rename fails half way.
THEOREM DiscardsAreReviewed ==
  ASSUME "renameFails" \notin Operations
  PROVE  Spec => DiscardsOnlyReviewed
<1> DEFINE Reviewed == request # None /\ request' = None =>
                         \A f \in Dirty : \/ Kept(f)
                                          \/ /\ request.decision = "discard"
                                             /\ request.texts[f] = documents[f].text
<1>1. ASSUME IInv, GateInv, ReviewInv, [Next]_vars, request # None, request' = None,
             NEW f \in Dirty
      PROVE  \/ Kept(f)
             \/ /\ request.decision = "discard"
                /\ request.texts[f] = documents[f].text
  <2>1. /\ DocumentsInv /\ f \in Files /\ f \in Opened /\ documents[f] # None
    BY <1>1 DEF IInv, Dirty, Opened
  <2>2. CASE documents'[f] # None /\ documents'[f].text = documents[f].text
    BY <2>1, <2>2 DEF Kept, WorkingTexts, Opened
  <2>3. CASE Applies
    <3>1. request.decision = "discard" /\ request.revision = revision
      BY <2>3, <1>1, AppliesDiscards DEF Current
    <3> QED
      BY <1>1, <3>1 DEF ReviewInv, Seen
  <2>4. CASE TransitionReconciles
    BY <1>1, <2>1, <2>2, <2>4, ReconciledKeeps DEF TransitionReconciles, SourcesChanged
  <2>5. CASE TransitionSaves \/ TransitionWrites
    BY <2>1, <2>2, <2>5, SaveBeginsKeeps, SaveRefusedKeeps, WrittenKeeps
       DEF TransitionSaves, TransitionWrites, Keeps
  <2>6. CASE TransitionEnds
    BY <2>1, <2>2, <2>6 DEF TransitionEnds
  <2> QED
    BY <1>1, <2>3, <2>4, <2>5, <2>6
       DEF Next, TextAuthoring, EditText, TakeDraft, OpenFile, SendDraft,
           ChangeDocuments, ChangeDocumentsPartly, GuiAuthoring, GuiEdit, Undo, Redo,
           Outside, ExternalWrite, ReconcileExternalFiles, ResolveExternalConflict,
           SetAutosave, SetAutosaveFails, Saving, SaveAll, SaveAllWrites, Moving,
           ChangePath, PathRefreshes, Worker,
           WorkerStart, WorkerDrops, WorkerCompletes, WorkerWrites, Transitions,
           RequestTransition, TransitionStep, CloseFile, ReloadFile, ReloadProject,
           CloseApplication, TransitionFails, FinishClose, Ended, vars, client
<1>2. IInv /\ GateInv /\ ReviewInv /\ [Next]_vars => [Reviewed]_vars
  BY <1>1
<1>3. IInv /\ GateInv /\ ReviewInv /\ [Next]_vars => (IInv /\ GateInv /\ ReviewInv)'
  BY NextInv, NextGate, NextReview
<1> QED
  BY <1>2, <1>3, InitReview, PTL DEF Spec, DiscardsOnlyReviewed

\* The application closes over unsaved text only if its author saw that very
\* text and said discard, under the same condition.
THEOREM ClosesAreReviewed ==
  ASSUME "renameFails" \notin Operations
  PROVE  Spec => ClosesOnlyReviewed
<1> DEFINE Reviewed == ~closed /\ closed' =>
                         \A f \in Dirty : /\ authorized.decision = "discard"
                                          /\ authorized.texts[f] = documents[f].text
<1>1. ASSUME IInv, ReviewInv, [Next]_vars, ~closed, closed'
      PROVE  \A f \in Dirty : /\ authorized.decision = "discard"
                              /\ authorized.texts[f] = documents[f].text
  <2>1. FinishClose
    BY <1>1
       DEF Next, TextAuthoring, EditText, TakeDraft, OpenFile, SendDraft,
           ChangeDocuments, ChangeDocumentsPartly, GuiAuthoring, GuiEdit, Undo, Redo,
           Outside, ExternalWrite, ReconcileExternalFiles, ResolveExternalConflict,
           SetAutosave, SetAutosaveFails, Saving, SaveAll, SaveAllWrites, Moving,
           ChangePath, PathRefreshes, Worker,
           WorkerStart, WorkerDrops, WorkerCompletes, WorkerWrites, Transitions,
           RequestTransition, TransitionStep, TransitionReconciles, TransitionEnds,
           TransitionSaves, TransitionWrites, CloseFile, ReloadFile, ReloadProject,
           CloseApplication, TransitionFails, Ended, vars, client
  <2>2. authorized # None /\ authorized.revision = revision
    BY <1>1, <2>1 DEF FinishClose
  <2> QED
    BY <1>1, <2>2 DEF ReviewInv, Seen
<1>2. IInv /\ GateInv /\ ReviewInv /\ [Next]_vars => [Reviewed]_vars
  BY <1>1
<1>3. IInv /\ GateInv /\ ReviewInv /\ [Next]_vars => (IInv /\ GateInv /\ ReviewInv)'
  BY NextInv, NextGate, NextReview
<1> QED
  BY <1>2, <1>3, InitReview, PTL DEF Spec, ClosesOnlyReviewed
=============================================================================
