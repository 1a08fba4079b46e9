----------------------------- MODULE StoragePause -----------------------------
(***************************************************************************)
(* firmware/esp32/src/storage.rs, access and pause: the tasks of the       *)
(* network core share the flash storage through a mutex, and the rendering *)
(* core waits in RAM while one of them uses it.  The cores share two       *)
(* atomic flags; every load and every store is a step.                     *)
(***************************************************************************)
CONSTANTS Tasks,     \* the tasks of the network core that use the storage
          None

ASSUME StoragePauseAssumption == None \notin Tasks

VARIABLES requested, paused,   \* PAUSE_REQUESTED and PAUSED
          core,                \* where the rendering core is
          holder,              \* who holds the storage mutex
          task                 \* where each task is

access == <<requested, paused, core, holder, task>>

CorePlace == {"off", "frames", "pausing", "waiting", "leaving"}
TaskPlace == {"idle", "locking", "draining", "asking", "waiting", "using",
              "releasing"}

PauseTypeOK == /\ requested \in BOOLEAN
               /\ paused \in BOOLEAN
               /\ core \in CorePlace
               /\ holder \in Tasks \cup {None}
               /\ task \in [Tasks -> TaskPlace]

PauseInit == /\ requested = FALSE
             /\ paused = FALSE
             /\ core = "off"
             /\ holder = None
             /\ task = [t \in Tasks |-> "idle"]

\* The rendering core starts after the storage was used to boot and before
\* any task runs.
StartCore == /\ core = "off"
             /\ core' = "frames"
             /\ UNCHANGED <<requested, paused, holder, task>>

\* render_outputs looks between frames.
SeesRequest == /\ core = "frames"
               /\ requested
               /\ core' = "pausing"
               /\ UNCHANGED <<requested, paused, holder, task>>

Pauses == /\ core = "pausing"
          /\ core' = "waiting"
          /\ paused' = TRUE
          /\ UNCHANGED <<requested, holder, task>>

\* From here the rendering core is on its way back to code in flash.
SeesRelease == /\ core = "waiting"
               /\ ~requested
               /\ core' = "leaving"
               /\ UNCHANGED <<requested, paused, holder, task>>

Resumes == /\ core = "leaving"
           /\ core' = "frames"
           /\ paused' = FALSE
           /\ UNCHANGED <<requested, holder, task>>

Core == StartCore \/ SeesRequest \/ Pauses \/ SeesRelease \/ Resumes

Moves(t, from, to) == task[t] = from /\ task' = [task EXCEPT ![t] = to]

\* A task calls access ...
Access(t) == /\ core # "off"
             /\ Moves(t, "idle", "locking")
             /\ UNCHANGED <<requested, paused, core, holder>>

Lock(t) == /\ Moves(t, "locking", "draining")
           /\ holder = None
           /\ holder' = t
           /\ UNCHANGED <<requested, paused, core>>

\* A wrong variant: it does not wait for the core to leave the last pause.
DrainedAtOnce(t) == /\ Moves(t, "draining", "asking")
                    /\ UNCHANGED <<requested, paused, core, holder>>

\* "The previous access ends only once the rendering core has left its wait."
Drained(t) == /\ Moves(t, "draining", "asking")
              /\ ~paused
              /\ UNCHANGED <<requested, paused, core, holder>>

Asks(t) == /\ Moves(t, "asking", "waiting")
           /\ requested' = TRUE
           /\ UNCHANGED <<paused, core, holder>>

Granted(t) == /\ Moves(t, "waiting", "using")
              /\ paused
              /\ UNCHANGED <<requested, paused, core, holder>>

\* A wrong variant: an Access that is dropped without telling the core.
ReleasesQuietly(t) == /\ Moves(t, "using", "releasing")
                      /\ UNCHANGED <<requested, paused, core, holder>>

\* ... and drops it: first the flag, then the mutex.
Releases(t) == /\ Moves(t, "using", "releasing")
               /\ requested' = FALSE
               /\ UNCHANGED <<paused, core, holder>>

Unlocks(t) == /\ Moves(t, "releasing", "idle")
              /\ holder' = None
              /\ UNCHANGED <<requested, paused, core>>

Accesses(t) == \/ Access(t) \/ Lock(t) \/ Drained(t) \/ Asks(t) \/ Granted(t)
               \/ Releases(t) \/ Unlocks(t)

\* A panic, a changed network configuration or a power cut: RAM starts afresh.
Reset == /\ requested' = FALSE
         /\ paused' = FALSE
         /\ core' = "off"
         /\ holder' = None
         /\ task' = [t \in Tasks |-> "idle"]

PauseNext == \/ Core
             \/ \E t \in Tasks : Accesses(t)
             \/ Reset

PauseSpec == PauseInit /\ [][PauseNext]_access
-----------------------------------------------------------------------------
\* "Neither core may run code or read data from flash while flash is read,
\* written or erased": the flash is used by one task at a time, and only while
\* the rendering core stays in its wait.
FlashAlone ==
  \A t \in Tasks : task[t] = "using" =>
    /\ core = "waiting" /\ requested
    /\ \A u \in Tasks \ {t} : task[u] \in {"idle", "locking"}
=============================================================================
