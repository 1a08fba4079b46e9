----------------------------- MODULE WorkingCopy -----------------------------
(***************************************************************************)
(* The desktop application's working copy (apps/desktop/src/desktop_state):*)
(* open documents over the files of a project, the typed project that the  *)
(* last check produced, GUI editing with undo, autosave, the external      *)
(* writer, and the transitions that may throw unsaved text away.           *)
(*                                                                         *)
(* The authoring mutex makes most handlers one step.  A save is two: it    *)
(* looks at the disk and announces what it writes, and it writes; another  *)
(* program may write in between.  The project check runs on the worker of  *)
(* a LatestScheduler, without the mutex.                                   *)
(***************************************************************************)
EXTENDS Naturals, Sequences

CONSTANTS
  Files, Root,       \* the source files and the one a project cannot lack
  Texts, Meanings,   \* texts, and what the texts that compile mean
  Meaning,           \* a text's meaning; None: it does not compile
  Canonical,         \* how the application prints a meaning
  None,
  InitialTexts,      \* what the files may hold when a run starts, or None
  Operations,        \* what the users and the environment of this run do
  HistoryLimit,      \* desktop_state.rs:104 uses 100
  MaxRevision, MaxToggles, MaxExternal   \* bounds of the model

ASSUME WorkingCopyAssumption ==
  /\ Root \in Files
  /\ Meaning \in [Texts -> Meanings \cup {None}]
  /\ Canonical \in [Meanings -> Texts]
  /\ \A m \in Meanings : Meaning[Canonical[m]] = m
  /\ InitialTexts \subseteq Texts \cup {None}
  /\ None \notin Texts \cup Meanings \cup Files
  /\ HistoryLimit \in Nat \ {0}
  /\ MaxRevision \in Nat
  /\ MaxToggles \in Nat /\ MaxExternal \in Nat

VARIABLES
  disk,         \* what each file holds; None: it does not exist
  externals,    \* writes by other programs so far
  documents,    \* WorkspaceState.documents
  project,      \* WorkspaceState.project, health and typed_revision
  epoch, revision,
  undo, redo,   \* GuiHistory
  autosave,     \* the setting, and autosave_generation
  pending, active, report,   \* the working_copy scheduler and its check
  gate,         \* who saves under the authoring mutex, and which files
  request,      \* the transition under way
  authorized,   \* close_authorization
  closed,
  draft         \* an edit a client made and has not sent yet

history == <<undo, redo>>
checker == <<pending, active, report>>
client == <<request, authorized, closed, draft>>
vars == <<disk, externals, documents, project, epoch, revision, history,
          autosave, checker, gate, client>>

Scheduler == INSTANCE LatestRequest WITH
  Request <- [epoch : Nat, revision : Nat, generation : Nat,
              sources : [Files -> Texts \cup {None}] \cup {None}]

TextOrNone == Texts \cup {None}
Session == [Files -> Meanings \cup {None}]
Document == [text : Texts, observed : TextOrNone, dirty : BOOLEAN, rev : Nat,
             save : {"saved", "dirty", "saving", "conflict", "failed"},
             external : {"current", "changed", "deleted"}]
Entry == [before : Session, after : Session, paths : SUBSET Files]
Holder == {"free", "worker", "saveAll", "transition", "path"}
Decision == {"none", "save", "discard", "cancel"}
Transition == [kind : {"closeFile", "reloadFile", "reloadProject", "close"},
               file : Files, decision : Decision,
               epoch : Nat, revision : Nat,
               phase : {"asked", "reconciled", "saved"},
               texts : [Files -> TextOrNone]]

ASSUME DocumentAssumption == None \notin Document

TypeOK ==
  /\ disk \in [Files -> TextOrNone]
  /\ externals \in 0..MaxExternal
  /\ documents \in [Files -> Document \cup {None}]
  /\ \/ project \in [health : {"checking", "invalid"},
                     session : {None}, typed : {None}]
     \/ project \in [health : {"ready"}, session : Session, typed : {revision}]
  /\ epoch \in Nat /\ revision \in Nat
  /\ undo \in Seq(Entry) /\ redo \in Seq(Entry)
  /\ autosave \in [on : BOOLEAN, generation : Nat]
  /\ Scheduler!TypeOK
  /\ report \in Session \cup {None}
  /\ gate \in [holder : Holder, writes : SUBSET Files]
  /\ request \in Transition \cup {None}
  /\ authorized \in [epoch : Nat, revision : Nat, decision : Decision,
                     texts : [Files -> TextOrNone]] \cup {None}
  /\ closed \in BOOLEAN
  /\ draft \in [file : Files, epoch : Nat, rev : Nat, base : Texts] \cup {None}
-----------------------------------------------------------------------------
(***************************************************************************)
(* Documents.                                                              *)
(***************************************************************************)
Opened == {f \in Files : documents[f] # None}
Dirty == {f \in Opened : documents[f].dirty}
Conflicted == {f \in Opened : documents[f].external # "current"}
WorkingTexts == [f \in Files |-> IF f \in Opened THEN documents[f].text ELSE None]

NewDocument(text) ==
  [text |-> text, observed |-> text, dirty |-> FALSE, rev |-> 0,
   save |-> "saved", external |-> "current"]

Edit(doc, text) ==
  IF doc.text = text THEN doc
  ELSE LET dirty == doc.observed # text
       IN  [doc EXCEPT !.text = text, !.rev = @ + 1, !.dirty = dirty,
                       !.save = IF doc.external # "current" THEN "conflict"
                                ELSE IF dirty THEN "dirty" ELSE "saved"]

\* The document after its text was replaced by the file's (reload, discard).
Reloaded(doc, text) ==
  [Edit([doc EXCEPT !.observed = text], text)
     EXCEPT !.dirty = FALSE, !.save = "saved", !.external = "current"]

DiskState(f) == IF disk[f] = None THEN "deleted" ELSE "changed"

Conflict(doc, f) == [doc EXCEPT !.external = DiskState(f), !.observed = disk[f],
                                !.save = "conflict"]

MatchesDisk(doc, f) == [doc EXCEPT !.observed = disk[f], !.dirty = FALSE,
                                   !.save = "saved", !.external = "current"]
-----------------------------------------------------------------------------
(***************************************************************************)
(* The project check and its scheduler.                                    *)
(***************************************************************************)
\* check_project over the given texts; a file nobody has open comes from disk.
Check(sources) ==
  LET seen == [f \in Files |-> IF sources[f] # None THEN sources[f] ELSE disk[f]]
      found == [f \in Files |-> IF seen[f] = None THEN None ELSE Meaning[seen[f]]]
  IN  IF /\ seen[Root] # None
         /\ \A f \in Files : seen[f] # None => found[f] # None
      THEN found ELSE None

Checking == [health |-> "checking", session |-> None, typed |-> None]
Invalid == [health |-> "invalid", session |-> None, typed |-> None]
Ready(session, at) == [health |-> "ready", session |-> session, typed |-> at]

\* WorkingCopyPayload: no texts to check when the typed project is current.
Payload == [epoch |-> epoch, revision |-> revision,
            generation |-> autosave.generation,
            sources |-> IF project.health = "ready" THEN None ELSE WorkingTexts]

ScheduleWorkingCopy == Scheduler!Schedule(Payload') /\ UNCHANGED report

HasSession == project.health = "ready" /\ project.typed = revision

\* Wrong variants of the definitions stand before them, each the way a bug would
\* make it; the properties at the end must refute every one.

SourcesKeepHistory(docs) ==
  /\ documents' = docs
  /\ revision' = revision + 1
  /\ project' = Checking
  /\ UNCHANGED <<epoch, autosave, history>>
  /\ ScheduleWorkingCopy

SourcesWithoutRecheck(docs) ==
  /\ documents' = docs
  /\ revision' = revision + 1
  /\ project' = Checking
  /\ undo' = <<>> /\ redo' = <<>>
  /\ UNCHANGED <<epoch, autosave, checker>>

\* mark_checking, then recheck: what every change of the sources ends with.
SourcesChanged(docs) ==
  /\ documents' = docs
  /\ revision' = revision + 1
  /\ project' = Checking
  /\ UNCHANGED <<epoch, autosave>>
  /\ undo' = <<>> /\ redo' = <<>>
  /\ ScheduleWorkingCopy

\* The bounds: no user starts anything more once they are reached.
InBounds == revision < MaxRevision

Free == [holder |-> "free", writes |-> {}]
Authoring == gate = Free /\ ~closed              \* lock of `authoring`
Settled == Authoring /\ Scheduler!Idle           \* settled_authoring
-----------------------------------------------------------------------------
(***************************************************************************)
(* Authoring in text.                                                      *)
(***************************************************************************)
DraftOf(f) == [file |-> f, epoch |-> epoch, rev |-> documents[f].rev,
               base |-> documents[f].text]

AcceptsWithoutRevision(edit) == edit.epoch = epoch /\ edit.file \in Opened

Accepts(edit) == /\ edit.epoch = epoch
                 /\ edit.file \in Opened
                 /\ edit.rev = documents[edit.file].rev

\* update_document; the client's ranges give some text.
UpdateDocument(edit, text) ==
  /\ Authoring
  /\ Accepts(edit)
  /\ documents[edit.file].text # text
  /\ SourcesChanged([documents EXCEPT ![edit.file] = Edit(@, text)])

EditText(f, text) ==
  /\ InBounds
  /\ "edit" \in Operations
  /\ f \in Opened
  /\ UpdateDocument(DraftOf(f), text)
  /\ UNCHANGED <<disk, externals, gate, client>>

\* A client edits what it shows; the edit reaches the application later.
TakeDraft(f) ==
  /\ InBounds
  /\ "draft" \in Operations
  /\ ~closed
  /\ draft = None
  /\ f \in Opened
  /\ draft' = DraftOf(f)
  /\ UNCHANGED <<disk, externals, documents, project, epoch, revision, history,
                 autosave, checker, gate, request, authorized, closed>>

SendDraft(text) ==
  /\ draft # None
  /\ draft' = None
  /\ \/ UpdateDocument(draft, text)
     \/ /\ Authoring
        /\ Accepts(draft) => documents[draft.file].text = text
        /\ UNCHANGED <<documents, project, epoch, revision, history, autosave,
                       checker>>
  /\ UNCHANGED <<disk, externals, gate, request, authorized, closed>>

Loaded(f) == IF f \in Opened THEN documents[f] ELSE NewDocument(disk[f])

Rewritten(done, texts) ==
  [f \in Files |-> IF f \in done THEN Edit(Loaded(f), texts[f]) ELSE documents[f]]

\* change_documents (a rename across files, an import): it loads the files
\* that nobody has open.
ChangeDocuments(files, texts) ==
  /\ InBounds
  /\ "rename" \in Operations
  /\ Authoring
  /\ \A f \in files : f \in Opened \/ disk[f] # None
  /\ SourcesChanged(Rewritten(files, texts))
  /\ UNCHANGED <<disk, externals, gate, client>>

\* ... and stops at the first that it cannot load, wherever it is in the list.
ChangeDocumentsPartly(files, texts) ==
  /\ "renameFails" \in Operations
  /\ Authoring
  /\ \E f \in files : f \notin Opened /\ disk[f] = None
  /\ \E done \in SUBSET {f \in files : f \in Opened \/ disk[f] # None} :
       /\ \A f \in done : Loaded(f).rev < MaxRevision       \* a bound
       /\ documents' = Rewritten(done, texts)
  /\ UNCHANGED <<disk, externals, project, epoch, revision, history, autosave,
                 checker, gate, client>>

\* open_file_path: a document nobody has loaded comes from the disk, unchecked.
OpenFile(f) ==
  /\ "open" \in Operations
  /\ Settled
  /\ f \notin Opened /\ disk[f] # None
  /\ documents' = [documents EXCEPT ![f] = NewDocument(disk[f])]
  /\ UNCHANGED <<disk, externals, project, epoch, revision, history, autosave,
                 checker, gate, client>>
-----------------------------------------------------------------------------
(***************************************************************************)
(* Authoring in the GUI: the typed project changes, and the texts of the   *)
(* documents it touched are printed again.                                 *)
(***************************************************************************)
Unread(f) == [NewDocument(None) EXCEPT !.observed = disk[f]]

Printed(session, paths) ==
  [f \in Files |->
     IF f \in paths /\ session[f] # None
     THEN Edit(IF f \in Opened THEN documents[f] ELSE Unread(f),
               Canonical[session[f]])
     ELSE documents[f]]

AcceptGuiSources(session, paths) ==
  /\ documents' = Printed(session, paths)
  /\ revision' = revision + 1
  /\ project' = Ready(session, revision + 1)
  /\ UNCHANGED <<epoch, autosave>>
  /\ ScheduleWorkingCopy

Front(s) == SubSeq(s, 1, Len(s) - 1)
Trimmed(s) == IF Len(s) > HistoryLimit THEN Tail(s) ELSE s

GuiEdit(paths, meanings) ==
  LET before == project.session
      after == [f \in Files |-> IF f \in paths THEN meanings[f] ELSE before[f]]
  IN  /\ "gui" \in Operations
      /\ InBounds
      /\ Authoring
      /\ HasSession
      /\ \A f \in paths : before[f] # None
      /\ AcceptGuiSources(after, paths)
      /\ undo' = Trimmed(Append(undo, [before |-> before, after |-> after,
                                       paths |-> paths]))
      /\ redo' = <<>>
      /\ UNCHANGED <<disk, externals, gate, client>>

\* Neither undo nor redo asks whether there is a typed project.
Undo ==
  /\ InBounds
  /\ Authoring
  /\ undo # <<>>
  /\ LET entry == undo[Len(undo)]
     IN  /\ AcceptGuiSources(entry.before, entry.paths)
         /\ undo' = Front(undo)
         /\ redo' = Append(redo, entry)
  /\ UNCHANGED <<disk, externals, gate, client>>

Redo ==
  /\ InBounds
  /\ Authoring
  /\ redo # <<>>
  /\ LET entry == redo[Len(redo)]
     IN  /\ AcceptGuiSources(entry.after, entry.paths)
         /\ redo' = Front(redo)
         /\ undo' = Trimmed(Append(undo, entry))
  /\ UNCHANGED <<disk, externals, gate, client>>
-----------------------------------------------------------------------------
(***************************************************************************)
(* The other programs that write the project's files.                      *)
(***************************************************************************)
ExternalWrite(f, text) ==
  /\ "external" \in Operations
  /\ ~closed
  /\ externals < MaxExternal
  /\ disk[f] # text
  /\ (text = None => "delete" \in Operations)
  /\ disk' = [disk EXCEPT ![f] = text]
  /\ externals' = externals + 1
  /\ UNCHANGED <<documents, project, epoch, revision, history, autosave,
                 checker, gate, client>>

ReconciledOverDirty(f) ==
  IF f \in Opened /\ disk[f] = documents[f].observed THEN documents[f]
  ELSE IF disk[f] = None THEN None ELSE NewDocument(disk[f])

ReconciledDocument(f) ==
  LET doc == documents[f]
  IN  CASE f \notin Opened -> IF disk[f] = None THEN None ELSE NewDocument(disk[f])
        [] f \in Opened /\ disk[f] = doc.observed -> doc
        [] f \in Opened /\ disk[f] # doc.observed /\ disk[f] = doc.text ->
             MatchesDisk(doc, f)
        [] f \in Opened /\ disk[f] \notin {doc.observed, doc.text} /\ doc.dirty ->
             Conflict(doc, f)
        [] OTHER -> IF disk[f] = None THEN None
                    ELSE Edit([doc EXCEPT !.observed = disk[f],
                                          !.external = "current"], disk[f])

Reconciled == [f \in Files |-> ReconciledDocument(f)]

\* reconcile_external_files_locked, for the watcher or for the user.
ReconcileExternalFiles ==
  /\ Authoring
  /\ Reconciled # documents
  /\ SourcesChanged(Reconciled)
  /\ UNCHANGED <<disk, externals, gate, client>>

Decided(f, decision) ==
  LET doc == documents[f]
      kept == disk[f] # doc.text
  IN  IF decision = "reload" THEN Reloaded(doc, disk[f])
      ELSE [doc EXCEPT !.observed = disk[f], !.dirty = kept,
                       !.save = IF kept THEN "dirty" ELSE "saved",
                       !.external = "current"]

ResolveExternalConflict(f, decision) ==
  /\ InBounds
  /\ "external" \in Operations
  /\ Settled
  /\ f \in Opened
  /\ decision = "reload" => disk[f] # None
  /\ SourcesChanged([documents EXCEPT ![f] = Decided(f, decision)])
  /\ UNCHANGED <<disk, externals, gate, client>>
-----------------------------------------------------------------------------
(***************************************************************************)
(* Settings.                                                               *)
(***************************************************************************)
SetAutosaveQuietly(on) ==
  /\ "settings" \in Operations
  /\ Authoring
  /\ on # autosave.on
  /\ autosave.generation < MaxToggles
  /\ autosave' = [on |-> on, generation |-> autosave.generation + 1]
  /\ UNCHANGED <<disk, externals, documents, project, epoch, revision, history,
                 checker, gate, client>>

\* update_app_settings_locked: the generation counts before the settings file
\* is written, and that write may fail.
SetAutosave(on) ==
  /\ "settings" \in Operations
  /\ Authoring
  /\ on # autosave.on
  /\ autosave.generation < MaxToggles
  /\ autosave' = [on |-> on, generation |-> autosave.generation + 1]
  /\ UNCHANGED <<disk, externals, documents, project, epoch, revision, history,
                 gate, client>>
  /\ IF on THEN ScheduleWorkingCopy ELSE UNCHANGED checker

SetAutosaveFails(on) ==
  /\ "settingsFail" \in Operations
  /\ Authoring
  /\ on # autosave.on
  /\ autosave.generation < MaxToggles
  /\ autosave' = [autosave EXCEPT !.generation = @ + 1]
  /\ UNCHANGED <<disk, externals, documents, project, epoch, revision, history,
                 checker, gate, client>>
-----------------------------------------------------------------------------
(***************************************************************************)
(* Saving: write_working_sources.  `typed` is the project it starts from.  *)
(***************************************************************************)
ClashOnDiskOnly(f) == disk[f] # documents[f].observed

Clash(f) == disk[f] # documents[f].observed \/ documents[f].external # "current"

SaveBegins(holder, typed) ==
  /\ \A f \in Dirty : ~Clash(f)
  /\ documents' = [f \in Files |-> IF f \in Dirty
                                   THEN [documents[f] EXCEPT !.save = "saving"]
                                   ELSE documents[f]]
  /\ gate' = [holder |-> holder, writes |-> Dirty]
  /\ project' = typed

\* It returns at the first document, in path order, that it cannot read or
\* that changed on disk; which document is the first is left open.
SaveRefused(typed) ==
  /\ UNCHANGED gate
  /\ \E f \in Dirty :
       \/ /\ "readFails" \in Operations
          /\ documents' = [documents EXCEPT ![f].save = "failed"]
          /\ project' = typed
       \/ /\ Clash(f)
          /\ documents' = [documents EXCEPT ![f] = Conflict(@, f)]
          /\ project' = Invalid

Writable == \A f \in gate.writes : disk[f] = documents[f].observed

SaveSucceeds ==
  /\ Writable
  /\ disk' = [f \in Files |-> IF f \in gate.writes THEN documents[f].text
                              ELSE disk[f]]
  /\ documents' = [f \in Files |-> IF f \in gate.writes
                                   THEN [documents[f] EXCEPT
                                           !.observed = documents[f].text,
                                           !.dirty = FALSE, !.save = "saved",
                                           !.external = "current"]
                                   ELSE documents[f]]

SaveFailsUnnoticed ==
  /\ \/ ~Writable
     \/ "writeFails" \in Operations /\ gate.writes # {}
  /\ documents' = [f \in Files |-> IF f \in gate.writes
                                   THEN [documents[f] EXCEPT !.dirty = FALSE,
                                                             !.save = "saved"]
                                   ELSE documents[f]]
  /\ UNCHANGED disk

\* write_source_texts failed and put the files back (module SourceSave).
SaveFails ==
  /\ \/ ~Writable
     \/ "writeFails" \in Operations /\ gate.writes # {}
  /\ documents' = [f \in Files |-> IF f \in gate.writes
                                   THEN [documents[f] EXCEPT !.save = "failed"]
                                   ELSE documents[f]]
  /\ UNCHANGED disk

SaveAll ==
  /\ Settled
  /\ SaveBegins("saveAll", project) \/ SaveRefused(project)
  /\ UNCHANGED <<disk, externals, epoch, revision, history, autosave, checker,
                 client>>

SaveAllWrites ==
  /\ gate.holder = "saveAll"
  /\ SaveSucceeds \/ SaveFails
  /\ gate' = Free
  /\ UNCHANGED <<externals, project, epoch, revision, history, autosave, checker,
                 client>>
-----------------------------------------------------------------------------
(***************************************************************************)
(* The worker: analyze_working_copy without the mutex, then                *)
(* complete_working_copy with it.                                          *)
(***************************************************************************)
WorkerStart ==
  /\ ~closed
  /\ Scheduler!Start
  /\ report' = IF pending.sources = None THEN None ELSE Check(pending.sources)
  /\ UNCHANGED <<disk, externals, documents, project, epoch, revision, history,
                 autosave, gate, client>>

WorkerEnds == Scheduler!Finish /\ report' = None

StaleByEpoch == active.epoch # epoch

Stale == active.epoch # epoch \/ active.revision # revision

WorkerDrops ==
  /\ Authoring
  /\ active # None
  /\ Stale
  /\ WorkerEnds
  /\ UNCHANGED <<disk, externals, documents, project, epoch, revision, history,
                 autosave, gate, client>>

AnalysedThoughConflicted == IF active.sources = None THEN project
                            ELSE IF report # None THEN Ready(report, revision)
                            ELSE Invalid

\* apply_analysis: a project with an unresolved external conflict is not Ready.
Analysed == IF active.sources = None THEN project
            ELSE IF report # None /\ Conflicted = {} THEN Ready(report, revision)
            ELSE Invalid

Autosaves == autosave.on /\ active.generation = autosave.generation

WorkerCompletes ==
  /\ Authoring
  /\ active # None
  /\ ~Stale
  /\ \/ /\ ~Autosaves
        /\ project' = Analysed
        /\ UNCHANGED <<documents, gate>>
        /\ WorkerEnds
     \/ Autosaves /\ SaveBegins("worker", Analysed) /\ UNCHANGED checker
     \/ Autosaves /\ SaveRefused(Analysed) /\ WorkerEnds
  /\ UNCHANGED <<disk, externals, epoch, revision, history, autosave, client>>

WorkerWrites ==
  /\ gate.holder = "worker"
  /\ SaveSucceeds \/ SaveFails
  /\ gate' = Free
  /\ WorkerEnds
  /\ UNCHANGED <<externals, project, epoch, revision, history, autosave, client>>
-----------------------------------------------------------------------------
(***************************************************************************)
(* A file or directory moves: apply_workspace_path_change.  Module         *)
(* PathChange looks into the first step, which a document or an asset makes*)
(* structural: then every document is printed again.                       *)
(***************************************************************************)
Renamed == [f \in Files |-> IF project.session[f] = None THEN disk[f]
                            ELSE Canonical[project.session[f]]]

ChangePath ==
  /\ InBounds
  /\ "path" \in Operations
  /\ Settled
  /\ HasSession
  /\ \/ Dirty = {} /\ disk' = Renamed
     \/ UNCHANGED disk
  /\ gate' = [holder |-> "path", writes |-> {}]
  /\ UNCHANGED <<externals, documents, project, epoch, revision, history,
                 autosave, checker, client>>

Refreshable == {f \in Opened : ~documents[f].dirty}

Refreshed(read) ==
  [f \in Files |-> IF f \in read
                   THEN Edit([documents[f] EXCEPT !.observed = disk[f]], disk[f])
                   ELSE documents[f]]

\* What is not dirty is read again; the project is the one that was printed,
\* unchecked, unless a document is gone or cannot be read.
PathRefreshes ==
  /\ gate.holder = "path"
  /\ gate' = Free
  /\ \E unread \in SUBSET Refreshable :
       /\ \A f \in Refreshable : disk[f] = None => f \in unread
       /\ \A f \in unread : disk[f] = None \/ "readFails" \in Operations
       /\ documents' = Refreshed(Refreshable \ unread)
       /\ project' = IF unread = {} THEN Ready(project.session, revision + 1)
                     ELSE Invalid
  /\ revision' = revision + 1
  /\ undo' = <<>> /\ redo' = <<>>
  /\ UNCHANGED <<disk, externals, epoch, autosave, checker, client>>
-----------------------------------------------------------------------------
(***************************************************************************)
(* Transitions.  The request names the revision its author looked at;      *)
(* `texts` remembers what was there to be seen.                            *)
(***************************************************************************)
RequestTransition(kind, f, decision) ==
  /\ revision <= MaxRevision
  /\ "transition" \in Operations
  /\ ~closed
  /\ request = None
  /\ IF kind \in {"closeFile", "reloadFile"} THEN f \in Opened ELSE f = Root
  /\ request' = [kind |-> kind, file |-> f, decision |-> decision,
                 epoch |-> epoch, revision |-> revision, phase |-> "asked",
                 texts |-> WorkingTexts]
  /\ UNCHANGED <<disk, externals, documents, project, epoch, revision, history,
                 autosave, checker, gate, authorized, closed, draft>>

\* It reconciles first, and lets the mutex go again; the disk may be unreadable.
TransitionReconciles ==
  /\ request # None /\ request.phase = "asked"
  /\ Authoring
  /\ \/ /\ "readFails" \in Operations
        /\ request' = None
        /\ UNCHANGED <<documents, project, epoch, revision, history, autosave,
                       checker>>
     \/ /\ request' = [request EXCEPT !.phase = "reconciled"]
        /\ IF Reconciled # documents
           THEN SourcesChanged(Reconciled)
           ELSE UNCHANGED <<documents, project, epoch, revision, history,
                            autosave, checker>>
  /\ UNCHANGED <<disk, externals, gate, authorized, closed, draft>>

CurrentEpoch == request.epoch = epoch

Current == request.epoch = epoch /\ request.revision = revision

Deciding == request # None /\ request.phase = "reconciled" /\ Settled

TransitionEndsWithoutAsking ==
  /\ Deciding
  /\ ~Current \/ request.decision = "cancel"
  /\ request' = None
  /\ UNCHANGED <<disk, externals, documents, project, epoch, revision, history,
                 autosave, checker, gate, authorized, closed, draft>>

\* Errors, Cancelled, and NeedsDecision: nothing happens.
TransitionEnds ==
  /\ Deciding
  /\ \/ ~Current
     \/ request.decision = "cancel"
     \/ Dirty # {} /\ request.decision = "none" /\ ~autosave.on
  /\ request' = None
  /\ UNCHANGED <<disk, externals, documents, project, epoch, revision, history,
                 autosave, checker, gate, authorized, closed, draft>>

MustSave == /\ Dirty # {}
            /\ request.decision # "discard"
            /\ request.decision = "none" => autosave.on

TransitionSaves ==
  /\ Deciding
  /\ Current
  /\ request.decision # "cancel"
  /\ MustSave
  /\ \/ SaveBegins("transition", project) /\ UNCHANGED request
     \/ SaveRefused(project) /\ request' = None
  /\ UNCHANGED <<disk, externals, epoch, revision, history, autosave, checker,
                 authorized, closed, draft>>

TransitionWrites ==
  /\ gate.holder = "transition"
  /\ request # None /\ request.phase = "reconciled"
  /\ \/ /\ SaveSucceeds
        /\ gate' = [gate EXCEPT !.writes = {}]
        /\ request' = [request EXCEPT !.phase = "saved"]
     \/ SaveFails /\ gate' = Free /\ request' = None
  /\ UNCHANGED <<externals, project, epoch, revision, history, autosave, checker,
                 authorized, closed, draft>>

\* Past every check and every save: the transition itself.
Applies ==
  /\ request # None
  /\ \/ /\ Deciding
        /\ Current
        /\ \/ Dirty = {} /\ request.decision # "cancel"
           \/ request.decision = "discard"
     \/ request.phase = "saved"
  /\ gate' = Free
  /\ request' = None

Discarded(paths) ==
  [f \in Files |-> IF f \notin paths \cap Opened THEN documents[f]
                  ELSE IF disk[f] = None THEN None
                  ELSE Reloaded(documents[f], disk[f])]

Thrown == IF request.decision = "discard" THEN Dirty ELSE {}

\* Closing a tab keeps the document; discarding takes every dirty document.
CloseFile ==
  /\ Applies
  /\ request.kind = "closeFile"
  /\ IF request.decision = "discard"
     THEN SourcesChanged(Discarded(Thrown))
     ELSE UNCHANGED <<documents, project, epoch, revision, history, autosave,
                      checker>>
  /\ UNCHANGED <<disk, externals, authorized, closed, draft>>

ReloadFile ==
  /\ Applies
  /\ request.kind = "reloadFile"
  /\ SourcesChanged(Discarded(Thrown \cup {request.file}))
  /\ UNCHANGED <<disk, externals, authorized, closed, draft>>

\* load_working_copy: a new epoch, read and checked in one go.
ReloadProject ==
  /\ Applies
  /\ request.kind = "reloadProject"
  /\ epoch' = epoch + 1 /\ revision' = revision + 1
  /\ documents' = [f \in Files |-> IF disk[f] = None THEN None
                                   ELSE NewDocument(disk[f])]
  /\ LET session == Check(disk)
     IN  project' = IF session = None THEN Invalid ELSE Ready(session, revision + 1)
  /\ undo' = <<>> /\ redo' = <<>>
  /\ Scheduler!Invalidate
  /\ UNCHANGED <<disk, externals, autosave, report, authorized, closed, draft>>

CloseApplication ==
  /\ Applies
  /\ request.kind = "close"
  /\ authorized' = [epoch |-> epoch, revision |-> revision,
                    decision |-> request.decision, texts |-> request.texts]
  /\ UNCHANGED <<disk, externals, documents, project, epoch, revision, history,
                 autosave, checker, closed, draft>>

\* The device, the settings file or a file that cannot be read refuses the
\* transition.  A project that cannot be read again has lost its undo history.
TransitionFails ==
  /\ Applies
  /\ request.kind = "closeFile" => request.decision = "discard"
  /\ \/ UNCHANGED history
     \/ request.kind = "reloadProject" /\ undo' = <<>> /\ redo' = <<>>
  /\ UNCHANGED <<disk, externals, documents, project, epoch, revision,
                 autosave, checker, authorized, closed, draft>>

FinishCloseUnreviewed ==
  /\ Settled
  /\ authorized # None
  /\ authorized' = None
  /\ closed' \in BOOLEAN
  /\ UNCHANGED <<disk, externals, documents, project, epoch, revision, history,
                 autosave, checker, gate, request, draft>>

\* finish_close takes the authorization whatever becomes of it.
FinishClose ==
  /\ Settled
  /\ authorized # None
  /\ authorized' = None
  /\ closed' \in (IF authorized.epoch = epoch /\ authorized.revision = revision
                  THEN BOOLEAN ELSE {FALSE})
  /\ UNCHANGED <<disk, externals, documents, project, epoch, revision, history,
                 autosave, checker, gate, request, draft>>
-----------------------------------------------------------------------------
Init ==
  /\ disk \in [Files -> InitialTexts]
  /\ Check(disk) # None
  /\ externals = 0
  /\ documents = [f \in Files |-> IF disk[f] = None THEN None
                                  ELSE NewDocument(disk[f])]
  /\ project = Ready(Check(disk), 0)
  /\ epoch = 0 /\ revision = 0
  /\ undo = <<>> /\ redo = <<>>
  /\ autosave \in [on : BOOLEAN, generation : {0}]
  /\ pending = None /\ active = None /\ report = None
  /\ gate = Free
  /\ request = None /\ authorized = None /\ closed = FALSE /\ draft = None

TextAuthoring ==
  \/ \E f \in Files, text \in Texts : EditText(f, text)
  \/ \E f \in Files : TakeDraft(f) \/ OpenFile(f)
  \/ \E text \in Texts : SendDraft(text)
  \/ \E files \in SUBSET Files \ {{}} : \E texts \in [files -> Texts] :
       ChangeDocuments(files, texts) \/ ChangeDocumentsPartly(files, texts)

GuiAuthoring ==
  \/ \E paths \in SUBSET Files \ {{}} : \E meanings \in [paths -> Meanings] :
       GuiEdit(paths, meanings)
  \/ Undo
  \/ Redo

Outside ==
  \/ \E f \in Files, text \in TextOrNone : ExternalWrite(f, text)
  \/ ReconcileExternalFiles
  \/ \E f \in Files, decision \in {"reload", "keep"} :
       ResolveExternalConflict(f, decision)
  \/ \E on \in BOOLEAN : SetAutosave(on) \/ SetAutosaveFails(on)

Saving == SaveAll \/ SaveAllWrites
Moving == ChangePath \/ PathRefreshes
Worker == WorkerStart \/ WorkerDrops \/ WorkerCompletes \/ WorkerWrites

TransitionStep ==
  \/ TransitionReconciles \/ TransitionEnds \/ TransitionSaves \/ TransitionWrites
  \/ CloseFile \/ ReloadFile \/ ReloadProject \/ CloseApplication
  \/ TransitionFails

Transitions ==
  \/ \E kind \in {"closeFile", "reloadFile", "reloadProject", "close"},
        f \in Files, decision \in Decision :
       RequestTransition(kind, f, decision)
  \/ TransitionStep
  \/ FinishClose

Ended == closed /\ UNCHANGED vars

Next == \/ TextAuthoring \/ GuiAuthoring \/ Outside \/ Saving \/ Moving
        \/ Worker \/ Transitions \/ Ended

\* The threads of the application run.  The mutex may change hands many times
\* before a thread that waits for it gets it, but it does get it: saves are
\* asked for by hand.  Nothing is assumed of the users and the other programs.
Fairness == /\ WF_vars(WorkerStart) /\ SF_vars(WorkerDrops \/ WorkerCompletes)
            /\ WF_vars(WorkerWrites) /\ WF_vars(SaveAllWrites)
            /\ WF_vars(PathRefreshes)
            /\ SF_vars(ReconcileExternalFiles)
            /\ SF_vars(TransitionStep)

Spec == Init /\ [][Next]_vars
FairSpec == Spec /\ Fairness
-----------------------------------------------------------------------------
(***************************************************************************)
(* Correctness.                                                            *)
(***************************************************************************)
\* The typed project that GUI editing and rendering use is the project the
\* open documents' texts mean (workspace_state.rs, mark_checking).
SessionIsCurrent ==
  project.health = "ready" =>
    \A f \in Opened : project.session[f] = Meaning[documents[f].text]

\* A document that is shown as saved, or that a transition need not ask about,
\* holds the bytes that were last seen on disk.
SavedIsSaved ==
  \A f \in Opened : documents[f].save = "saved" \/ ~documents[f].dirty =>
    documents[f].text = documents[f].observed

\* While a file has an external conflict nobody has decided, there is no typed
\* project (apply_analysis, write_working_sources).
ConflictBlocksGui == Conflicted # {} => project.health # "ready"

Kept(f) == WorkingTexts'[f] = WorkingTexts[f]

\* Nothing that runs by itself (the worker, a save, the watcher), and no move of
\* a file, takes unsaved text away from its author.
NothingLostInBackground ==
  [][Worker \/ Saving \/ Moving \/ ReconcileExternalFiles \/ TransitionReconciles =>
       \A f \in Dirty : Kept(f)]_vars

\* An unsaved document leaves a conflict only when its author decides, when
\* the disk comes to hold its text, or when its author discards the text.
ConflictNeedsDecision ==
  [][\A f \in Conflicted \cap Dirty :
       \/ f \in Conflicted'
       \/ disk[f] = documents[f].text
       \/ \E how \in {"reload", "keep"} : ResolveExternalConflict(f, how)
       \/ request # None /\ request.decision = "discard"]_vars

\* A transition throws away only unsaved text that was there to be seen when
\* its author said discard (the revision check of request_transition).
DiscardsOnlyReviewed ==
  [][request # None /\ request' = None =>
       \A f \in Dirty : \/ Kept(f)
                        \/ /\ request.decision = "discard"
                           /\ request.texts[f] = documents[f].text]_vars

\* The application closes over unsaved text only if that very text was there
\* to be seen when its author said discard (finish_close's comparison).
ClosesOnlyReviewed ==
  [][~closed /\ closed' =>
       \A f \in Dirty : /\ authorized.decision = "discard"
                        /\ authorized.texts[f] = documents[f].text]_vars

\* A client's edit of a document, which names the document's revision, is applied
\* to the text it was made on.
EditsWhatItSaw ==
  [][draft # None /\ draft' = None /\ documents' # documents =>
       documents[draft.file].text = draft.base]_vars

\* Undo and redo step through the states the project went through: each entry
\* starts where the one before it ended, and the typed project is where the two
\* stacks meet.
HistoryIsAPath ==
  /\ \A i \in 1..(Len(undo) - 1) : undo[i].after = undo[i + 1].before
  /\ \A i \in 1..(Len(redo) - 1) : redo[i].before = redo[i + 1].after
  /\ project.health = "ready" =>
       /\ undo # <<>> => undo[Len(undo)].after = project.session
       /\ redo # <<>> => redo[Len(redo)].before = project.session

\* The project does not stay in the state Checking: no check is lost.
CheckingEnds == project.health = "checking" ~> project.health # "checking" \/ closed

\* With autosave on, an unsaved text reaches the disk, unless its author is
\* told that the save failed, a conflict waits for a decision, or autosave is
\* switched off.
AutosaveSaves ==
  Dirty # {} /\ autosave.on ~>
    \/ Dirty = {} \/ Conflicted # {} \/ ~autosave.on \/ closed
    \/ \E f \in Dirty : documents[f].save = "failed"

\* Every transition is answered.
TransitionAnswered == request # None ~> request = None \/ closed
=============================================================================
