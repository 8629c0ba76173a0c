----------------------------- MODULE ConfigStore -----------------------------
(***************************************************************************)
(* The configuration workflow of internal/server: the admin handlers       *)
(* (GET/PUT /admin/config, preview, apply, rollback, reload) run as        *)
(* concurrent goroutines over one configuration file, a directory of       *)
(* backups and the runtime state in memory.  A save and a reload hold      *)
(* reloadMu; GET, preview, the reading of a backup and the building of an  *)
(* answer hold nothing.  The process may die at any step, any read or      *)
(* write may fail, and an operator may edit the file at any time.          *)
(*                                                                         *)
(* A file is abstracted to a member of File.  A configuration is named by  *)
(* the file it was loaded from, since config.Load is a function of the     *)
(* file (and of the environment, fixed while the process runs).            *)
(***************************************************************************)
CONSTANTS
  Handlers,   \* goroutines serving admin requests
  Content,    \* the complete files a request or the operator may write
  Torn,       \* what os.WriteFile leaves between its truncate and its write
  Valid,      \* the files config.Load accepts; Torn may be one of them when
              \* the environment supplies upstream.base_url
  MuxPanics,  \* valid files whose metrics.path ServeMux refuses by a panic
  AdminOn,    \* valid files with admin.enabled
  Metrics,    \* Metrics[f] is the path under which f has the counters shown, or
              \* that it has not (metrics.enabled, metrics.path)
  Trim,       \* Trim[f] is f without surrounding white space, up to a name
  Free        \* the value of lock when nobody holds reloadMu

File == Content \cup {Torn}
Serveable == Valid \ MuxPanics

\* What a file decides of the mux that buildMux makes for it.
MuxOf(f) == [admin |-> f \in AdminOn, metrics |-> Metrics[f]]

ASSUME HandlersAssumption == Free \notin Handlers
ASSUME FilesAssumption ==
  /\ Valid \subseteq File
  /\ MuxPanics \subseteq Valid
  /\ AdminOn \subseteq Valid
  /\ Torn \notin Content

VARIABLES
  disk,      \* the bytes at configPath
  backups,   \* the contents kept in .prompt-guard-backups, never deleted
  up,        \* the process runs
  running,   \* the file App.state was built from (kept when the process dies)
  mux,       \* the mux of the start, which the http server keeps
  lock,      \* the holder of reloadMu
  pc,        \* pc[h]: the next step of handler h
  req,       \* req[h]: the operation, the proposed file, the file read so far
  edited,    \* history: the operator changed the file since it was last loaded
  failed     \* history: a write of the file failed since it was last loaded

vars == <<disk, backups, up, running, mux, lock, pc, req, edited, failed>>
store == <<disk, backups>>
state == <<up, running, mux>>
history == <<edited, failed>>

-----------------------------------------------------------------------------
(* The shape of the state.                                                 *)

Saves == {"apply", "put", "rollback"}
Ops == Saves \cup {"reload", "get", "preview"}

\* Steps taken with reloadMu held; the second set runs after the backup.
Overwriting == {"write", "load", "restoreOpen", "restoreWrite", "reloadOld"}
AfterBackup == {"open"} \cup Overwriting
Locked == {"current", "check", "backup", "plainLoad"} \cup AfterBackup
\* Steps of an answer, and of the handlers that never lock.
Unlocked == {"readBackup", "lock", "answerState", "answerFile",
             "readFile", "showState", "previewLoad"}
PCs == {"idle"} \cup Locked \cup Unlocked

NoReq == [op |-> "get", proposed |-> Torn, current |-> Torn]
Requests == [op : Ops, proposed : File, current : File]

TypeOK ==
  /\ disk \in File
  /\ backups \in SUBSET File
  /\ up \in BOOLEAN
  /\ running \in File
  /\ mux \in {MuxOf(f) : f \in File}
  /\ lock \in Handlers \cup {Free}
  /\ pc \in [Handlers -> PCs]
  /\ req \in [Handlers -> Requests]
  /\ edited \in BOOLEAN /\ failed \in BOOLEAN

\* server.New has loaded the file and main has handed its mux to the server.
Init ==
  /\ disk \in Serveable
  /\ backups = {}
  /\ up = TRUE
  /\ running = disk
  /\ mux = MuxOf(disk)
  /\ lock = Free
  /\ pc = [h \in Handlers |-> "idle"]
  /\ req = [h \in Handlers |-> NoReq]
  /\ edited = FALSE /\ failed = FALSE

-----------------------------------------------------------------------------
(* Helpers.                                                                *)

At(h, step) == up /\ pc[h] = step
Goto(h, step) == pc' = [pc EXCEPT ![h] = step] /\ UNCHANGED <<lock, req>>

\* The handler has answered, or its connection was dropped.
Done(h) ==
  /\ pc' = [pc EXCEPT ![h] = "idle"]
  /\ req' = [req EXCEPT ![h] = NoReq]

FailLocked(h) == UNCHANGED lock /\ Done(h)      \* slip: no deferred Unlock

\* A return inside the critical section: the deferred Unlock runs.
Fail(h) == lock' = Free /\ Done(h)

\* A save that succeeds goes on to read back what it answers with: PUT loads
\* the state before the file, apply and rollback the file before the state.
Succeed(h) ==
  /\ lock' = Free
  /\ IF req[h].op = "reload"
     THEN Done(h)
     ELSE /\ pc' = [pc EXCEPT ![h] = IF req[h].op = "put" THEN "answerState"
                                                          ELSE "answerFile"]
          /\ UNCHANGED req

\* os.WriteFile(configPath, f): truncate, then write.  An error of the open
\* leaves the file as it was.
Truncate == disk' = Torn /\ UNCHANGED backups

\* reloadLocked stored a state built from the file; nobody serves its mux.
Install ==
  /\ disk \in Serveable
  /\ running' = disk
  /\ edited' = FALSE /\ failed' = FALSE
  /\ UNCHANGED <<store, up, mux>>

\* config.Load fails: the file is invalid or cannot be read.  The second
\* case is a fault and may strike any file.
LoadFails == UNCHANGED <<store, state, history>>

-----------------------------------------------------------------------------
(* Before the lock.                                                        *)

\* A request is routed by the mux of the start and passes requireAdmin, which
\* looks at the state of now.  decodeConfigUpdate refuses an empty file.
Receive(h) ==
  /\ At(h, "idle") /\ mux.admin /\ running \in AdminOn
  /\ \E op \in Ops, f \in Content :
       /\ req' = [req EXCEPT ![h] =
            [op |-> op,
             proposed |-> IF op \in {"apply", "put", "preview"} THEN f ELSE Torn,
             current |-> IF op = "get" THEN running ELSE Torn]]
       /\ pc' = [pc EXCEPT ![h] =
            CASE op = "rollback" -> "readBackup"
              [] op = "get" -> "answerFile"
              [] op = "preview" -> "readFile"
              [] OTHER -> "lock"]
  /\ UNCHANGED <<store, state, lock, history>>

\* readBackup runs before the lock: a backup another save is still writing
\* can be read, half-written.
BeingBackedUp == \E k \in Handlers : pc[k] = "backup"
ReadBackup(h) ==
  /\ At(h, "readBackup")
  /\ \/ \E f \in backups \cup (IF BeingBackedUp THEN {Torn} ELSE {}) :
          /\ req' = [req EXCEPT ![h].proposed = f]
          /\ pc' = [pc EXCEPT ![h] = "lock"]
     \/ Done(h)                                    \* not found, or unreadable
  /\ UNCHANGED <<store, state, lock, history>>

LockUnshared(h) ==                              \* slip: a lock per handler
  /\ At(h, "lock")
  /\ lock' = h
  /\ pc' = [pc EXCEPT ![h] = IF req[h].op = "reload" THEN "plainLoad"
                                                    ELSE "current"]
  /\ UNCHANGED <<store, state, req, history>>

Lock(h) ==
  /\ At(h, "lock") /\ lock = Free
  /\ lock' = h
  /\ pc' = [pc EXCEPT ![h] = IF req[h].op = "reload" THEN "plainLoad"
                                                    ELSE "current"]
  /\ UNCHANGED <<store, state, req, history>>

-----------------------------------------------------------------------------
(* saveConfigLocked and reloadLocked.                                      *)

ReadCurrent(h) ==
  /\ At(h, "current")
  /\ \/ /\ req' = [req EXCEPT ![h].current = disk]
        /\ pc' = [pc EXCEPT ![h] = "check"]
        /\ UNCHANGED lock
     \/ Fail(h)
  /\ UNCHANGED <<store, state, history>>

\* parseConfigContent loads the proposed file from a temporary copy, which
\* may also fail to be written; contentEqual compares trimmed contents.
Check(h) ==
  /\ At(h, "check")
  /\ \/ /\ req[h].proposed \in Valid
        /\ Goto(h, IF Trim[req[h].current] = Trim[req[h].proposed]
                   THEN "plainLoad" ELSE "backup")
     \/ Fail(h)
  /\ UNCHANGED <<store, state, history>>

CreateBackupIgnored(h) ==                       \* slip: its error is dropped
  /\ At(h, "backup")
  /\ backups' \in {backups, backups \cup {Torn}, backups \cup {req[h].current}}
  /\ Goto(h, "open")
  /\ UNCHANGED <<disk, state, history>>

\* createBackupLocked writes a new file; a failure may leave it half-written.
CreateBackup(h) ==
  /\ At(h, "backup")
  /\ \/ backups' = backups \cup {req[h].current} /\ Goto(h, "open")
     \/ backups' \in {backups, backups \cup {Torn}} /\ Fail(h)
  /\ UNCHANGED <<disk, state, history>>

OpenConfig(h) ==
  /\ At(h, "open")
  /\ \/ Truncate /\ Goto(h, "write")
     \/ UNCHANGED store /\ Fail(h)
  /\ UNCHANGED <<state, history>>

\* An error of the write returns at once: what was read is not put back.
WriteConfig(h) ==
  /\ At(h, "write")
  /\ \/ disk' = req[h].proposed /\ Goto(h, "load") /\ UNCHANGED failed
     \/ UNCHANGED disk /\ failed' = TRUE /\ Fail(h)
  /\ UNCHANGED <<backups, state, edited>>

LoadNewUnrestored(h) ==                         \* slip: the new file stays
  /\ At(h, "load")
  /\ \/ Install /\ Succeed(h)
     \/ LoadFails /\ Fail(h)

LoadNew(h) ==
  /\ At(h, "load")
  /\ \/ Install /\ Succeed(h)
     \/ LoadFails /\ Goto(h, "restoreOpen")

\* os.WriteFile(configPath, current), its error ignored.
RestoreOpen(h) ==
  /\ At(h, "restoreOpen")
  /\ \/ Truncate /\ Goto(h, "restoreWrite") /\ UNCHANGED failed
     \/ UNCHANGED store /\ failed' = TRUE /\ Goto(h, "reloadOld")
  /\ UNCHANGED <<state, edited>>

RestoreWriteProposed(h) ==                      \* slip: the wrong buffer
  /\ At(h, "restoreWrite")
  /\ disk' = req[h].proposed
  /\ Goto(h, "reloadOld")
  /\ UNCHANGED <<backups, state, history>>

RestoreWrite(h) ==
  /\ At(h, "restoreWrite")
  /\ \/ disk' = req[h].current /\ UNCHANGED failed
     \/ UNCHANGED disk /\ failed' = TRUE
  /\ Goto(h, "reloadOld")
  /\ UNCHANGED <<backups, state, edited>>

\* The second reloadLocked, its error ignored; the request fails either way.
ReloadOld(h) ==
  /\ At(h, "reloadOld")
  /\ Install \/ LoadFails
  /\ Fail(h)

\* POST /admin/reload, and a save whose file is already there.
PlainLoad(h) ==
  /\ At(h, "plainLoad")
  /\ \/ Install /\ Succeed(h)
     \/ LoadFails /\ Fail(h)

\* buildMux panics in reloadLocked: net/http recovers the goroutine, the
\* deferred Unlock runs, nothing after the call does and nothing is answered.
PanicInLoad(h) ==
  /\ \E step \in {"load", "reloadOld", "plainLoad"} : At(h, step)
  /\ disk \in MuxPanics
  /\ Fail(h)
  /\ UNCHANGED <<store, state, history>>

-----------------------------------------------------------------------------
(* After the lock: the answers, and the handlers that only read.           *)

\* PUT loads the state after its save; GET has done so in requireAdmin.
AnswerState(h) ==
  /\ At(h, "answerState")
  /\ req' = [req EXCEPT ![h].current = running, ![h].op = "get"]
  /\ pc' = [pc EXCEPT ![h] = "answerFile"]
  /\ UNCHANGED <<store, state, lock, history>>

\* GET and PUT read the file last and answer with it and the state they hold
\* (req[h].current); apply and rollback read it first.  An unreadable file is
\* answered with an error.
AnswerFile(h) ==
  /\ At(h, "answerFile")
  /\ \/ /\ req[h].op # "get"
        /\ req' = [req EXCEPT ![h].proposed = disk]
        /\ pc' = [pc EXCEPT ![h] = "showState"]
     \/ Done(h)
  /\ UNCHANGED <<store, state, lock, history>>

\* The answer of an apply or a rollback: req[h].proposed is the YAML read
\* above and running the configuration it is summarised with.
ShowState(h) ==
  /\ At(h, "showState")
  /\ Done(h)
  /\ UNCHANGED <<store, state, lock, history>>

\* previewConfig reads the file for its diff and loads it again for its
\* summary, without the lock; nothing is changed.
PreviewRead(h) ==
  /\ At(h, "readFile")
  /\ \/ /\ req' = [req EXCEPT ![h].current = disk]
        /\ pc' = [pc EXCEPT ![h] = "previewLoad"]
     \/ Done(h)
  /\ UNCHANGED <<store, state, lock, history>>

PreviewLoad(h) ==
  /\ At(h, "previewLoad")
  /\ Done(h)
  /\ UNCHANGED <<store, state, lock, history>>

-----------------------------------------------------------------------------
(* The world around the handlers.                                          *)

\* The operator puts another file in place, as a whole.  (An edit that lands
\* between the truncate and the write of one os.WriteFile is not modelled.)
Edit ==
  /\ \A h \in Handlers : pc[h] \notin {"write", "restoreWrite"}
  /\ disk' \in Content \ {disk}
  /\ edited' = TRUE
  /\ UNCHANGED <<backups, state, lock, pc, req, failed>>

\* The process is killed, or Shutdown gives up on handlers still at work.
Crash ==
  /\ up /\ up' = FALSE
  /\ lock' = Free
  /\ pc' = [h \in Handlers |-> "idle"]
  /\ req' = [h \in Handlers |-> NoReq]
  /\ UNCHANGED <<store, running, mux, history>>

\* A new process; with a file that cannot be served main exits at once.
Boot ==
  /\ ~up /\ disk \in Serveable
  /\ up' = TRUE
  /\ running' = disk
  /\ mux' = MuxOf(disk)
  /\ edited' = FALSE /\ failed' = FALSE
  /\ UNCHANGED <<store, lock, pc, req>>

Step(h) ==
  \/ ReadBackup(h) \/ ReadCurrent(h) \/ Check(h) \/ CreateBackup(h)
  \/ OpenConfig(h) \/ WriteConfig(h) \/ LoadNew(h)
  \/ RestoreOpen(h) \/ RestoreWrite(h) \/ ReloadOld(h)
  \/ PlainLoad(h) \/ PanicInLoad(h)
  \/ AnswerState(h) \/ AnswerFile(h) \/ ShowState(h)
  \/ PreviewRead(h) \/ PreviewLoad(h)

Next ==
  \/ \E h \in Handlers : Receive(h) \/ Lock(h) \/ Step(h)
  \/ Edit \/ Crash \/ Boot

\* A goroutine that can run does; sync.Mutex hands the lock to a waiter that
\* has starved for a millisecond, which is strong fairness of Lock.
Spec ==
  /\ Init /\ [][Next]_vars
  /\ \A h \in Handlers : WF_vars(Step(h)) /\ SF_vars(Lock(h))

-----------------------------------------------------------------------------
(* What the workflow is for.                                               *)

\* The file as whoever takes the lock will find it: a save under way counts
\* for nothing until it commits, so until then it is what the save read.
CommittedFile ==
  IF lock # Free /\ pc[lock] \in Overwriting THEN req[lock].current ELSE disk

Register == INSTANCE ConfigRegister
              WITH file <- CommittedFile, disturbed <- edited \/ failed

\* A save of many steps, with its backup, its restore and its two reloads, is
\* one atomic change of file and running configuration: what reloadMu and the
\* restore in saveConfigLocked are for.
SavesAreAtomic == Register!Spec

\* The configuration that runs (or ran when the process died) can always be
\* found again, in the file or in a backup, wherever a save was cut short;
\* only an operator's own edit may drop it.  createBackupLocked comes first.
NothingLost == edited \/ running \in {disk} \cup backups

\* When no save or reload is under way the file and the running configuration
\* are the same, unless the operator edited the file or a write to it failed
\* since it was last loaded.  Neither a crash nor a failed load parts them.
\* (A panic of buildMux does: see RefusedSaveChangesNothing.)
AgreeWhenQuiet ==
  MuxPanics = {} /\ up /\ lock = Free /\ ~edited /\ ~failed => disk = running

\* saveConfigLocked loads the very file it wrote, never one that another
\* handler wrote or was writing meanwhile.
LoadsItsOwn ==
  \A h \in Handlers : pc[h] = "load" /\ ~edited => disk = req[h].proposed

\* A save that is refused, for whatever reason and at whatever step, leaves
\* the running configuration as it was and the file equal to it ("keep the old
\* configuration and return an error"), if they were equal when it began and
\* the writes of the file succeeded.
RefusedSaveChangesNothing ==
  [][\A h \in Handlers :
       /\ pc[h] \in Locked /\ pc'[h] = "idle" /\ req[h].op \in Saves
       /\ up' /\ ~edited /\ ~failed /\ ~failed'
       => running' = running /\ disk' = running]_vars

\* Every admin request ends, whichever steps fail and whoever else asks: the
\* lock is released on every path, the panic included.
RequestsEnd == \A h \in Handlers : pc[h] # "idle" ~> pc[h] = "idle"

-----------------------------------------------------------------------------
(* The inductive invariant behind them, by named parts.                    *)

\* reloadMu is held by the handler in its critical section, and by no other.
LockHeld == \A h \in Handlers : pc[h] \in Locked <=> lock = h

DownIsIdle == ~up => \A h \in Handlers : pc[h] = "idle"

BackedUp ==
  \A h \in Handlers : pc[h] \in AfterBackup => req[h].current \in backups

CurrentIsDisk ==
  \A h \in Handlers :
    pc[h] \in {"check", "backup", "open"} /\ ~edited => req[h].current = disk

RestoredIsDisk ==
  \A h \in Handlers :
    pc[h] = "reloadOld" /\ ~edited /\ ~failed => req[h].current = disk

\* While the file is being replaced its own copy does not count.
KeptAside ==
  ~edited => \/ running \in backups
             \/ running = disk /\ \A h \in Handlers : pc[h] \notin Overwriting

Agrees == MuxPanics = {} /\ up /\ ~edited /\ ~failed => CommittedFile = running

\* What every reachable state satisfies, and every step preserves.
IInv ==
  /\ TypeOK /\ LockHeld /\ DownIsIdle /\ BackedUp /\ CurrentIsDisk
  /\ LoadsItsOwn /\ RestoredIsDisk /\ KeptAside /\ Agrees

-----------------------------------------------------------------------------
(* What the documentation says and the code does not do.                   *)

\* A reload puts the whole new configuration in place: the counters are shown
\* where the configuration that runs has them.  (The handlers of the admin API
\* look at that configuration themselves, so admin.enabled is obeyed.)
MetricsFollowConfig == up => mux.metrics = Metrics[running]
=============================================================================
