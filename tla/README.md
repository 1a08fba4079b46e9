# Donder in TLA+

Specifications, model-checking runs and proofs for the parts of Donder whose
correctness depends on the order of events: the desktop application's working
copy and its background scheduler, the save and the path change that write a
project's files, the ESP32 controller that stores and plays shows, playback on
several controllers at once, live output with the performances that use it, and the
inputs a performance is played from.
Every definition is translated from the source; `PROJECT.json` maps each one to
its lines.

## Inventory

Donder turns a folder of source documents into frames of LED colour. The crates
`donder-language`, `-model`, `-elaboration`, `-runtime`, `-import`, `-output`
are pure functions from documents to shows to bytes. State that several threads,
programs or processors touch is kept in the places below.

| Component | State | Operations | Interacts with | What is hard | What makes it correct |
| --- | --- | --- | --- | --- | --- |
| Background schedulers (`state_tasks/scheduler.rs`) | one pending request, `running`, `closed`, a worker thread | schedule, invalidate, finish_pending, drop | checks, external reconcile, render refresh | wakeups, the barrier, dropping | no lost wakeup; the barrier waits for the applied result; only the newest request runs |
| Working copy (`desktop_state/working_copy.rs`, `workspace_state.rs`, `project_lifecycle.rs`) | documents (text, observed bytes, dirty, save and external state), typed project, epoch, revision | text edits, renames across files, check, save, reconcile, resolve conflict, load | scheduler, disk, watcher, GUI, language server | a check runs without the mutex; other programs write the files | the typed project means the texts; unsaved text is not lost; conflicts are decided by people |
| GUI editing and history (`gui_editing.rs`, `history.rs`) | undo and redo stacks of typed projects | edit, undo, redo, trim, clear | working copy | text edits, checks and conflicts in between | the history is a path that meets at the current project |
| Autosave and settings (`desktop_state.rs`) | the setting, its generation | update settings | scheduler, working copy | the setting changes while a check runs | unsaved text reaches the disk or its author is told |
| Transitions (`transitions.rs`) | the request's epoch and revision, close authorization | close, reload, open, create, copy; finish close | all of the above | review, save and decision are separate steps | only reviewed text is thrown away; every request is answered |
| Saving sources (`donder-project-io/src/serialization/mod.rs`) | the files on disk | verify, recheck, replace, roll back | other programs, crashes | many files, one at a time | all or nothing when it returns; a prefix when it dies |
| Path changes (`path_refactor.rs`) | files, a staging directory | move, rewrite, roll back | saving | crash between renames, ways back that fail | whole or taken back, or the error says what is not; no document names a path that is not there |
| Controller storage (`firmware/esp32/src/storage.rs`) | two atomic flags, a mutex | access, pause | both cores | two cores, flash unusable while in use | one core at a time |
| Controller shows (`bin/loader.rs`, `show_slots.rs`) | two flash slots, the playing show, upload gate | boot, upload, settings | HTTP workers, rendering core, power | power cuts, concurrent uploads, wrapped counters, small heap | the saved show survives; what plays is what is saved |
| Device playback (`device/playback.rs`, `desktop_state/device_playback.rs`, `firmware/esp32/src/transport.rs`) | bindings, clock estimates, scheduled commands | bind, prepare, schedule, cancel | controllers over HTTP and UDP | lost replies, late deadlines, restarts | between operations the controllers that acknowledged a run follow it; an error names those still armed; the operation lock comes back |
| Live output (`output/live.rs`) | the worker's queue, the generation that counts, the output's state, a resumption that waits | enable, perform, test, disable, suspend, resume; the worker's ticks | window, edits, render refresh, performances, a poll | the worker answers late; transports fail; three parties resume | off means closed and dark; every stop is answered; what an edit suspended comes back |
| Perform mode (`perform.rs`, `perform/router.rs`, `midi.rs`, `osc.rs`) | armed console, held presses, input and event logs, open ports | start, arm again, route, stop; a port appears, speaks, goes away | Preview, live output, inputs, edits | evaluators that join late; edits in the middle; callbacks that read the performance's number before they take its lock; several ports holding one note | every evaluator plays the log once and in order; what is held is what a port holds, and its end is heard; an edit keeps every press |
| Preview (`preview.rs`) | what was sent to the Preview's process | send content, commands, clock | performance, render refresh | content is reloaded while a performance goes on | its commands are the beginning of the log, and catch up |
| Audio, the Preview's process, clip rasters, persistence, language server, network setup, import and export, frontend | | | | input, output or pure computation | not modelled; `PROJECT.json` says why |

## Modules

| Module | Models | Role |
| --- | --- | --- |
| `LatestRequest` | what a latest-request scheduler promises | abstract specification; `WorkingCopy` uses it as an instance |
| `LatestScheduler` | `state_tasks/scheduler.rs` | one action per critical section; implements `LatestRequest` |
| `LatestSchedulerProofs` | | its theorems |
| `WorkingCopy` | `desktop_state/` | documents, checks, GUI history, saving, reconcile, transitions |
| `WorkingCopyProofs`, `HistoryProofs` | | its theorems; those about undo |
| `SourceSave` | `write_source_texts`, `replace_files` | one step per file-system call |
| `PathChange` | `apply_path_change` | extends `SourceSave` with the staged move around it |
| `SourceSaveProofs` | | the theorems of both |
| `StoragePause` | `storage.rs` | one step per load or store of a flag |
| `Controller` | `loader.rs`, `show_slots.rs` | extends `StoragePause` with slots, uploads, restarts |
| `ControllerProofs` | | the theorems of both |
| `Transport` | `transport.rs`, `loader_control.rs` | what plays on one controller: its pending command, requests, frames |
| `DeviceGroup` | `device/playback.rs`, `device_playback.rs` | composes the editor, its audio and several `Transport`s |
| `DeviceGroupProofs` | | its theorems |
| `LiveOutput` | `output/live.rs` | the service as functions of its record, and its worker |
| `Performance` | `desktop_state.rs`, `perform.rs`, `rendering.rs`, `audio.rs`, `preview.rs`, `commands/` | composes `LiveOutput` with everybody who uses it, performances and the Preview's loop |
| `PerformanceProofs` | | its theorems |
| `ConsoleRouter` | `perform/router.rs`, `playback.rs` of the runtime | what an input does: the router as functions of its record, with an evaluator that obeys it |
| `LiveInput` | `perform.rs`, `midi.rs`, `osc.rs` | the performance in progress, the threads of its ports and their callbacks; extends `ConsoleRouter` |
| `LiveInputProofs` | | its theorems |
| `MC...` | | constants for the runs |

**LatestScheduler.** The struct's fields are `next`, `running`, `closed`. A
thread's section from taking the mutex to releasing it, or to sleeping on the
condition variable, is one action. `notify_all` puts sleepers back to their test,
and `SpuriousWake` does so for no reason, as the platform may.

**WorkingCopy.** A document keeps the fields of `WorkingDocument` that decide
something. The state of the typed project is `project` (health, session,
`typed_revision`); a session is what each file means, so that two texts with one
meaning (typed by hand, printed by the application) are told apart where the
code does. Handlers that hold the `authoring` mutex from start to end are one
action. A save is two, because the disk is read and then written (`gate` holds
the mutex in between); an asynchronous check is `WorkerStart` and then
`WorkerDrops` or `WorkerCompletes`; a transition is its request, its reconcile and
its decision, because the mutex is free between them. `SourcesChanged` is
`mark_checking` followed by `recheck`, which every change of the sources ends
with: revision, health, history and schedule change together.

Simplifications, each of which only removes detail no property looks at: reading
all files (load, reconcile) is one step; when several documents clash, which is
met first is left open; the wait for the scheduler at the start of a transition
only delays it; a check accepts a project when every present file compiles and
the root exists, and reads files nobody has open when it starts; every present
file belongs to the project; opening, creating, copying or importing a project
ends in the same `load_working_copy` as `ReloadProject`; `SaveFails` stands for a
failed save whose rollback succeeded, which `SourceSave` looks into; a person's
decision about a conflict names the revision it is made at. Tabs, status texts and
render invalidation, files that are not UTF-8, and errors while reading a file
that the GUI is about to print are left out.

Renaming or moving a path is `ChangePath`, which prints every document again to
the disk, and `PathRefreshes`, which reads the open ones back; the mutex is held
in between (`gate` is "path"), but other programs may write. The project is then
the session that was printed, without a check, unless a document cannot be read.
Creating or deleting a file in the explorer is a write to the disk followed by a
reconcile.

**SourceSave.** `at` walks over the files in path order, in the verify pass, the
replace pass and back in the rollback. Other programs write between any two
calls; any call may fail; the process may die. `theirs` is a history variable:
the files other programs wrote, about which a save promises nothing.

**PathChange.** `apply_path_change` moves the file by way of a staging directory
and then replaces the documents with the second pass of `SourceSave`; the first
pass stands for its reading of what they hold, and `expected` for what it finds.
`step` is where the change is, `place` where the moved file is, `told` that the
error says it is not back. A plain save is the case in which `step` is "none".
Left out: planning, which only compares, and a rename that touches no document or
asset, which is one call.

**StoragePause and Controller.** The two cores share `PAUSE_REQUESTED` and
`PAUSED`; each load and each store is a step. A network task is at a place of
`access` (`task`), and a request of `loader.rs` is at a step of its handler
(`job`). One erase or write of flash is a step: when the power goes during it,
the slot holds what it held (a torn header fails its checksum, torn data is behind
no header) or what it was to hold. `Restart` may come at any step and keeps only
`slot`. Whether a show is admitted, fits or arrives is left open. The playback
mutex is held only for a moment by either core, never across a wait, and is not
modelled; neither is the settings record, which a library keeps.

**Transport and DeviceGroup.** A *run* is one decision of the editor: Play, Pause or
Stop at a position when the clock reaches a deadline. Runs are numbered as they are
decided, and `plan[r].left` passes on every clock alike. The editor asks one controller
after the other (`operation` walks over `todo`); a request is answered, its answer is
lost, or it is lost itself. A controller may restart or be commanded by hand at any
step. `Bind` looks at one controller after the other: a binding is kept, released
because the setup or the network has the controller no more, or made anew because its
address or ports are others; such changes count as faults. Play may end after it without
a sequence to prepare (`Bound`). `group` and `disturbed` are history variables: the run
in force with those who acknowledged it, and whom somebody else commanded since. Left
out: how a clock is estimated and its validity of 15 s, the refresh every 5 s, commands
that arrive after the editor gave up (the 2-s timeout exceeds the lead, so they are
refused as late), a second editor, and edits of the project during play.

**LiveOutput and Performance.** The service's operations are functions of its record
(`Started`, `Stopped`, `Suspended`, `ResumeTaken`), so that a caller who holds its
lock makes several in one step, as the code does. The worker takes one command at a
time from `sender`; each command is followed by a tick of the output that is
active. Every reader of the service first takes the updates that were sent, so an
update counts when it is sent, if it names the generation that counts (`Told`). A frame
that fails may have reached some lights.
Holding and Streaming are one state, as no code that is modelled tells them apart;
`lit` is whether a frame, or what went out of one, is still on the lights, and `forgotten`
whether a start took away the error that warned of it: a failed blackout leaves an
error, turning the output on again clears it before the transports open, and they
may then fail to open.

A performance is its log of commands: 0 stands for those that start its `always` clips,
a positive number for what one input routed to. Armed again after an edit it has a new
number, and its log is the start and the same inputs, as the code replays them. The
threads are the window's (`user`), the one that starts a performance (`starter`, without
the authoring mutex), the holder of the authoring mutex (`authoring` says what it does
next, one lock at a time), the poll and the Preview's loop. `Edit`, `Choose` and
`Complete` ask whether a performance is in progress before they touch the output, in a
step of their own, because the code lets go of that lock. Turning the output on asks
whether a sequence is prepared and starts the output in one step, although the sequence
may be dropped in between: a start just before the drop comes to the same, as neither
touches what the other does and the output finds nothing to render in both. The
Preview's loop waits for a preparation twice, each time before it takes the authoring
mutex, so that an edit may ask for another one in between (`PreviewWaits`). There is one
start at a time. Left out: setups without a streamed controller, a performance whose
fixtures do not match the layout, the loading of projects, the shutdown, and what an
input routes to, which is the next module's. So is Preview content that cannot be made,
of which the loop tells the error and which it tries again at its next look.

**ConsoleRouter and LiveInput.** A performance is the router's record (held presses,
log, axes, the copies of each clip, the parameters written) with `lights`: what an
evaluator holds that has heard every command. An input makes several commands in one
step, because the code holds the performance's lock from the clock to the last command.
`Resume` is the replay of the log into a new router; `Opened` decides whether the open
ports are kept, by the filters that the devices name, which may find the same ports and
still differ (`Finds`). One port connects at a time. An input's connections (`links`)
belong to the inputs that opened them: inputs that were dropped close theirs when they
look again, without a word, and until then new inputs may open the same MIDI port, but
not the same UDP port. A callback is two steps, `Send` or `Lose`, which reads the number
of the performance, and `Hear` or `HearLost`, under the lock; the callbacks of one port
come one after the other, also where old and new inputs are connected to it. `hand` is
what the player holds down, and `missed` a history variable: the presses, each of a
port, a number and a control, whose end no callback could bring, because the port was
not open, the performance was armed again between the two steps of the callback, or the
edit had taken the control away from the note. A `number` stands for what the code
compares: a MIDI note or controller, a key or an OSC address. A control reads from the
ports of its kind (`WellRead`), as arming sorts the bindings by kind. Left out:
learning, played values and windows, the order of layers, the capacity of a mark
collection, failures to connect, a port that is gone and back between two looks, a look
that connects a port after its inputs were dropped, and an old connection that hears a
message later than a new one hears the next. A port of the model stands for a port and
one channel of it, which the code tells apart by the same comparison.

Each property has a wrong variant of a definition beside it (`WorkerTakeCopies`,
`DrainedAtOnce`, ...) that stands for a plausible bug; no specification uses it.
With the variant in the definition's place, the run that checks the property must
find it violated.

## Runs

| Run | Question | Bounds |
| --- | --- | --- |
| `scheduler` | Does the scheduler lose a wakeup or release its barrier early? Does it implement `LatestRequest`? | 2 callers, 4 requests |
| `saving` | Can a save, a check, a move of a path or the watcher lose unsaved text or decide a conflict? | 2 files, 2 texts, 3 revisions, 2 external writes, 1 change of the setting |
| `gui` | Is the typed project what the documents mean, and the history applicable? | 2 files, 3 texts with 2 meanings, 3 revisions, history of 2, moves of a path |
| `checks` | Does a conflict block the GUI? Does checking end, does autosave save? | 2 files, 3 texts (one does not compile), 2 revisions, 2 external writes, 2 changes of the setting |
| `transitions` | Is anything thrown away that nobody could review? Is every request answered? | 2 files, 1 edit, 1 external write, every kind and decision |
| `source_save` | What is on disk when a save or a path change succeeds, fails or dies? | 3 files, the second under the path that moves, 2 contents, any number of external writes |
| `controller` | Do the outputs, the saved show and the memory survive uploads and power cuts? | 2 workers, 2 shows, generations modulo 4, any number of requests and restarts |
| `device_group` | Do the controllers follow the editor, and does an error name those that will not? | 2 controllers, 2 runs, lead 2, 2 command ids, 1 failed exchange, restart, command by hand or change of the setup |
| `performance` | Is off dark? Do the output and the Preview play the log? Is every stop answered, and does a suspended output come back? | 3 edits, commands or starts, 2 inputs, 2 failures |
| `live_input` | Is what is held what the ports hold, and is its end heard? Do router and evaluators agree? What does an edit carry over? | 3 consoles, a note on 2 MIDI ports, a knob, a pedal, a key, an OSC button, 3 touches, 2 performances or edits, 3 ticks |
| `rename` | finding, below | 2 files |
| `undo` | finding, below | 2 files |

Why they are enough: the hazards need at most two actors against one more step of a
third. Two files are the least for a save or a rename that stops half way, three for a
rollback with a file on either side. `InBounds` limits only what people start; what runs
by itself (checks, saves, reconciles) always finishes, so the revision goes past
`MaxRevision`. A history of two is trimmed, undone to its end and redone within three
revisions. Four generations wrap after four uploads: enough for both slots to hold
generations on either side of zero; the comparison needs more than two. In
`device_group` the second run meets the first one pending, due or in force, and one
fault on either side of it splits the group; the deadlines pass between any two
exchanges (lead 2, needed 2 before, refused with less than 1 left), and two command ids
suffice as an id only has to differ from the one it replaces. In `performance` three
acts are an output that is on, one that is switched again or suspended before the worker
has answered, and the performance that joins; two inputs come before and after; two
failures are a transport and its blackout. In `live_input` the three consoles are one,
its edit that moves a key, takes a channel from the held note and names a port in
another way, so that the ports open again, and one with other events, an always clip, a
pedal and a button that became an OSC address; each press, release, unplugging and loss
of focus is a touch, so three are a press, its end and what comes between. In three
ticks two copies of one or two ticks overlap, one ends and is started again, or plays
past the end of the clock. Two things take more touches or consoles, and only the
theorems cover them: that the oldest of copies that all play is used again
(`RouterAndEvaluatorsAgree`), and that nothing sounds for ever at keys and OSC buttons
(`NothingSoundsForEver`): the run's one key and OSC button is the control that an edit
makes another kind, of which `NothingStuck` says nothing.

**What they show.** All properties of the passing runs hold, with every action
taken. In words: a thread in `finish_pending` returns, once scheduling stops, and
only when the result is applied; no check result is applied to texts it did not
see; unsaved text disappears only by its author's decision on text that could be
seen; a document called saved holds the bytes last seen on disk; a save that
returns has done all or nothing to the files that were left alone, except those
its error names; when it dies, the new files are a prefix of the list; the
controller uses flash only while the rendering core waits in RAM, restores the
show that was committed last, plays what it would restore, keeps one show in
memory and answers. A path change is made whole or taken back, or says what is not;
controllers that acknowledged the run in force follow it between operations, and a start
that is taken back leaves no driven controller armed that its error does not name. An output
shown as off is closed, nothing on its way opens it, and its lights are dark or an
error said otherwise; live output and the Preview play a performance's commands once
and in order, whenever they join, through edits that arm it again. A note or a pedal
sounds as long as a port holds it; its end is heard unless an edit comes between; the
router knows what the evaluators play; and an edit keeps every press and, with the
same events, every light.

### Findings

- `rename`: `change_documents` (`working_copy.rs:187-204`) edits documents one
  after another and returns at the first file it cannot load. Those it has edited
  are not checked: the project stays Ready with the old meaning, against the comment
  of `mark_checking` (`workspace_state.rs:66`). The run deletes one of the files
  and renames across both. `SessionIsCurrent` holds in all runs without this error.
- `undo`: a save that meets a conflict (`working_copy.rs:352-373`) makes the
  project Invalid but leaves the GUI history, and undo asks for no typed project.
  Undo then publishes a Ready project over the conflict, which `apply_analysis`
  never does; `recheck`'s comment (`working_copy.rs:86`) says the history no longer
  applies. `ConflictBlocksGui` holds in the run `checks`, which has no GUI edits.

Some behaviours that no run refutes are worth knowing.

- An output that an edit suspended comes back only while the poll runs
  (`OutputComesBack`): a poll that saw the output off between two edits has ended, only
  the window's commands start it, and a preparation that ends while the worker still stops
  leaves the output off. The property also accepts an output that is given up: a poll that
  has taken the resumption and then meets an edit's unload drops the error
  (`desktop_state.rs:420`), and the output stays off without a word.
- The end of a held note is lost when an edit arms the performance between the two steps
  of its callback (`missed` in `LiveInput`): the note is held until the focus is lost or it
  is played again. `NothingStuck` names this exception and does not forbid it.
- A run that replaced a pending one and is then taken back leaves its controllers without
  either: the pending command went when it was replaced (`transport.rs:95`), and cancelling
  does not bring it back (`transport.rs:149`). No run is in force then, and `Together` says
  nothing.
- Controllers that were released in an exchange may still play or start the old run;
  `ErrorsNameTheArmed` is about those still driven.
- A change across files checks the project's epoch and no revision, so that a late one is
  applied to newer texts; `EditsWhatItSaw` is about edits of one document.
- Documents whose own way back failed after a path change may name the new path
  (`NewTextNeedsTheMove` leaves them out); the error names them.

### Fairness

Safety is checked without fairness. Liveness assumes that threads of the program
run, and nothing about people, other programs or the power.

- `scheduler`: weak fairness of the worker and of each caller that waits, since the
  operating system runs a thread that can run.
- `checks`, `transitions`: weak fairness of the worker's start and of writes that
  have begun. Strong fairness of what waits for the mutex (a finished check, a
  reconcile, a transition's step): a person may save again and again, and the
  mutex is free in between each time.
- `controller`: weak fairness of the rendering loop and of each handler, whose
  reads and writes have timeouts (`SERVER_CONFIG`); strong fairness of the upload
  gate and of the storage mutex, which queue their waiters.
- `device_group`: weak fairness of the operation's own steps without a fault (its
  requests have timeouts) and of time, which passes for controllers that do not
  restart for ever.
- `performance`: weak fairness of the output's worker, of each thread
  that has begun something (the second half of a stop, a start, the holder of the
  mutex), of a preparation that was asked for, of the poll while it runs, and of the
  Preview's loop, which looks every 50 ms while a performance plays. Edits,
  commands and inputs may never come.

`EditsWhatItSaw` is checked without deletion: a file that comes back starts again
at document revision 0. `AutosaveSaves` is checked with settings that can be
saved: when writing the settings file fails, the generation has counted and the
pending autosave is dropped. Both are listed as hazards.

## Proofs

The theorems hold for every value of the constants under the modules'
assumptions: sizes and bounds are natural numbers, `None` and the like are no
ordinary values (`None \notin Contents`, `JobAssumption`, `DocumentAssumption`,
`OperationAssumption`, `OutputAssumption`, `PerformanceAssumption`), the moved
documents are documents, and a command is refused before it cannot be
cancelled any more (`TransportAssumption`, `GroupAssumption`). Each type invariant is
proved. Of `LiveInput` it is assumed that a session has a length (`RouterAssumption`)
and that consoles are well formed, that a control hears ports of its kind which its filter
finds and a pedal has one number, and that only OSC messages come without a value
(`InputAssumption`).

- **LatestSchedulerProofs.** `Inv` is the type invariant, `NoLostWakeup` and
  `PendingIsNewest`: the pending request is the last one issued. `NoLostWakeup`
  needs the type invariant to tie `running` to the worker's place. From `Inv` follow
  the barrier and newest-request action properties, and `ImplementsPromise`: every
  step is a step of `LatestRequest` or leaves `next` and `taken` alone.
- **WorkingCopyProofs.** `IInv` has four parts: documents, typed project, check and
  clients. A document is *sound* when it counts as saved only with the text last
  seen on disk; lemmas say that each operator that writes a document (an edit, a
  reload, a conflict, a decision, a save that begins, fails or succeeds) leaves it
  sound. `SavedIsSaved` alone is not inductive: the writer must know that what it
  announced still names documents (`gate.writes`), and undo prints what the history
  holds, so sessions, both stacks and the pending check are typed with it. Each
  action has a step that takes the four parts in turn. The action properties
  `NothingIsLost` and `ConflictsAreDecided` follow operator by operator: what runs by
  itself keeps an unsaved text, and a conflict. `DiscardsAreReviewed` and
  `ClosesAreReviewed` need that the revision counts with every change of a text
  (so that an equal revision means equal texts) and assume that changes across
  files do not fail (`"renameFails" \notin Operations`), which `rename` shows they do.
- **HistoryProofs.** `HistoryIsAPath` says nothing while no typed project is there, so
  the invariant keeps where the two stacks meet even while a conflict takes the typed
  project away, and says that no check puts another one in its place before the
  conflict is decided. Four more results need that some operation is left out, and
  each says which:
  - `EditsApplyToWhatTheySaw`: a save changes only the text it was checked against,
    unless files are deleted while another program writes. A deleted file that comes
    back is a new document, whose revision starts again at 0, so that an equal
    revision no longer means an equal text. `DraftInv` and `Synced` tie what the
    editor shows to the document, revision by revision; `ExistInv` keeps every
    document in place.
  - `ConflictsBlockTheGui`: without GUI edits there is nothing to undo and no typed
    project survives a conflict. With them undo steps over a conflict, as the run `undo`
    shows; `OnlyUndoIgnoresConflicts`, which assumes nothing, says that no other
    step of the program does.
  - `TheSessionIsCurrent` (`CurrentInv`): the typed project is what the documents
    say, when a change across files does not fail halfway (`rename` shows what
    follows when it does) and, if another program writes, neither *open* nor the
    change of a path reads the disk past the documents: with `external` and `open`,
    `ExternalWrite, OpenFile` violates it, and with `external` and `path`,
    `ExternalWrite, ChangePath, PathRefreshes`. TLC finds both in a few steps.
- **SourceSaveProofs.** `Inv` says, phase by phase, which files hold the wanted
  text and which still hold what they held: before `at` they are new, from `at` on
  they are as expected, and the rollback walks that boundary back, leaving behind
  the files in `failures`. Files other programs touched are exempt. `FailedMeansRestored`
  and `CrashLeavesAPrefix` are not inductive alone, as they say nothing of where the
  boundary is. `ChangeImplementsSave`: each step of a path change is a step of the
  save or leaves its state alone, so all this holds of its documents; with the order
  of the move and the writing follow `ChangesAreWhole` and `NoTextBeforeTheMove`.
- **ControllerProofs.** Of the pause protocol, `Inv` follows the one access that may be
  under way through the two flags: who may be past the mutex, when the request flag is
  set, and in which place the core then is. The important part is that a task asks
  only after `PAUSED` was seen false, so that the next true is an answer. Every step
  of the controller does to that protocol what one of its steps does, or nothing; so
  the controller inherits `FlashAlone`.
  `UploadInv` says who holds the upload gate, `SlotInv` what a request has made of the
  slot it writes, and `ShowInv` what is in memory meanwhile; from them follow that
  what plays is what is saved, and that memory holds one show. `OnlyCommitReplaces`
  follows from what is on flash at each place of a commit: the generation it writes is
  the neighbour of the one it replaces, and `Newer` orders two neighbours rightly even
  where the counter wraps around.
- **DeviceGroupProofs.** `GroupInv` has three parts. `Progress`: who is still to be asked
  and who has acknowledged are disjoint and together are all that are driven. `Named`:
  while a start is taken back, a driven controller that is armed is still to be
  asked or is among those that failed. `Following`: between operations the members that
  nobody else commanded follow the run in force, and during the exchange those that have
  acknowledged follow the new run. Between the two nothing is said of the members,
  which is why `Together` alone is not inductive.
- **PerformanceProofs.** An answer counts for the generation it names, and what it
  means depends on what is still in the queue. `OffInv` therefore says that the
  commands that switch the output are in the order of their generations, after the
  output's own and not above the service's: an answer for the generation that
  counts answers the last of them, so when it says off, nothing behind it opens the
  output. `Sent` says that what the Preview holds is the part of the log that was
  counted, of a performance that has been armed. `LogInv` does the same for the
  output: the queue is in the order of generations, no attached feed is of a
  performance not armed yet, and the log is what a feed has heard followed by the
  last commands in the queue; with the queue empty this is `OutputPlaysTheLog`.

- **LiveInputProofs.** None of the four properties of `LiveInput` is inductive. The router
  is a fold over its events and its replay a fold over the log, and what a fold makes
  of every sequence would be a matter of induction over data. The proofs get by
  without it: the recursive function exists because a set of values is closed under
  the step (`Climbs`), its value at n follows from that at n - 1, and what fails somewhere
  fails at a least place (`Reaches`). With that the invariant `IInv` says of the
  performance in progress:
  - `LogSays`: its log, replayed for *any* console, holds what is held now of the
    controls that console reads, and with the same events and clips gives the same
    lights. One entry more keeps it, which is why an edit may replay the log for a
    console that the log was not written for (`CarriesOver`).
  - `AgreesFrom`: the router's guess of which copies play, and what the evaluators say of
    it, agree at every tick from now on, not only now: a copy that starts has an end
    that only time brings (`EvaluatorsAgree`).
  - `Matched`: presses and ports match (`HeldAlike`), which needs where a held note may
    come from (`Where`).
  - `Backed`: what a port holds, or the router, has a reason: the player's hand, an end on
    its way or one that went by. `EndingKept`, proved for each action, says with which
    presses reasons go; `Pending` has one ready for a press that is still on its way, as
    a callback is two steps (`NothingStuck`).

  `HeldAlike` is said of controls that no edit makes another kind, and of pedals whose
  number no edit changes: otherwise the old press stays, in the code as well.
  `NothingStuck` needs the former only.

Every safety property of the passing runs is stated by a theorem, some without one of
the operations, as said above. Only model-checked are the liveness properties
(`BarrierReturns`, `CheckingEnds`, `AutosaveSaves`, `TransitionAnswered`, `FramesResume`,
`RequestsEnd`, `OperationsEnd`, `PreviewCatchesUp`, `StopsEnd`, `OutputComesBack`), as the
prover handles neither fairness (ENABLED) nor liveness.

## Not modelled

Most of the repository's lines are pure functions from data to data: the language's
parser, checker, compiler and virtual machine, the model's validation, elaboration,
preparation and evaluation, import and export, and the drawing of the editor. They
have no order of events; what a parser or an evaluator returns for every input is the
matter of the repository's own tests and out of a model checker's reach. So are the
bodies of tests, which are inside the source files. The audio engine's callback, the
Preview's process and its pipe, the persistence of window and session records, the
language server and network setup are input and output around a few assignments;
`PROJECT.json` gives the reason for each.

## Plan

1. Learning a control (`learn.rs`), which opens the same ports, and a property for
   `suspend_live_output` meeting the start of a performance (hazard at
   `desktop_state.rs:393`), once it is clear what the code is to promise.
2. Of the four results of `HistoryProofs` that leave an operation out, the largest set
   of operations for which each holds; TLC names the steps that break it.
3. That `LiveInput` implements the performance `Performance` knows: a log that grows at
   its end, and is replaced when the performance is armed again.
