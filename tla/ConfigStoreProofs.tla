-------------------------- MODULE ConfigStoreProofs --------------------------
(* Proofs about ConfigStore, for any handlers, files and environment.      *)
EXTENDS ConfigStore, TLAPS

(* TypeOK in two halves: the flags are for Zenon, the rest for SMT.        *)
Flags == up \in BOOLEAN /\ edited \in BOOLEAN /\ failed \in BOOLEAN
Data ==
  /\ disk \in File /\ backups \in SUBSET File /\ running \in File
  /\ mux \in {MuxOf(f) : f \in File}
  /\ lock \in Handlers \cup {Free}
  /\ pc \in [Handlers -> PCs]
  /\ req \in [Handlers -> Requests]

(* The inductive invariant holds of a process that has just started. *)
LEMMA InitInv == Init => IInv
<1> SUFFICES ASSUME Init PROVE IInv
  OBVIOUS
<1> USE HandlersAssumption, FilesAssumption
<1>1. TypeOK
  <2>1. Flags
    BY Zenon DEF Init, Flags
  <2>2. Data
    BY SMT DEF Init, Data, File, Serveable, PCs, Requests, NoReq, Ops
  <2> QED
    BY <2>1, <2>2 DEF TypeOK, Flags, Data
<1>2. LockHeld /\ DownIsIdle /\ BackedUp /\ CurrentIsDisk /\ LoadsItsOwn
  BY DEF Init, LockHeld, DownIsIdle, BackedUp, CurrentIsDisk, LoadsItsOwn,
         Locked, AfterBackup, Overwriting
<1>3. RestoredIsDisk /\ KeptAside /\ Agrees
  BY DEF Init, RestoredIsDisk, KeptAside, Agrees, CommittedFile, Overwriting
<1> QED
  BY <1>1, <1>2, <1>3 DEF IInv

(* Every step keeps the types. *)
LEMMA FlagsStep == Flags /\ [Next]_vars => Flags'
<1> SUFFICES ASSUME Flags, [Next]_vars PROVE Flags'
  OBVIOUS
<1> USE DEF Flags, store, state, history
<1>1. ASSUME NEW h \in Handlers, Receive(h) \/ Lock(h) PROVE Flags'
  BY <1>1, Zenon DEF Receive, Lock
<1>2. ASSUME NEW h \in Handlers, Step(h) PROVE Flags'
  <2>1. CASE ReadBackup(h) \/ ReadCurrent(h) \/ Check(h) \/ CreateBackup(h)
    BY <2>1, Zenon DEF ReadBackup, ReadCurrent, Check, CreateBackup
  <2>2. CASE OpenConfig(h) \/ WriteConfig(h) \/ RestoreOpen(h) \/ RestoreWrite(h)
    BY <2>2, Zenon DEF OpenConfig, WriteConfig, RestoreOpen, RestoreWrite
  <2>3. CASE LoadNew(h) \/ ReloadOld(h) \/ PlainLoad(h) \/ PanicInLoad(h)
    BY <2>3, Zenon DEF LoadNew, ReloadOld, PlainLoad, PanicInLoad, Install, LoadFails
  <2>4. CASE AnswerState(h) \/ AnswerFile(h) \/ ShowState(h)
    BY <2>4, Zenon DEF AnswerState, AnswerFile, ShowState
  <2>5. CASE PreviewRead(h) \/ PreviewLoad(h)
    BY <2>5, Zenon DEF PreviewRead, PreviewLoad
  <2> QED
    BY <1>2, <2>1, <2>2, <2>3, <2>4, <2>5, Zenon DEF Step
<1>3. ASSUME Edit \/ Crash PROVE Flags'
  BY <1>3, Zenon DEF Edit, Crash
<1>4. ASSUME Boot PROVE Flags'
  BY <1>4, Zenon DEF Boot
<1>5. CASE UNCHANGED vars
  BY <1>5, Zenon DEF vars
<1> QED
  BY <1>1, <1>2, <1>3, <1>4, <1>5, Zenon DEF Next

(* The same for files, lock, control and requests. *)
LEMMA DataStep == Data /\ [Next]_vars => Data'
<1> SUFFICES ASSUME Data, [Next]_vars PROVE Data'
  OBVIOUS
<1> USE HandlersAssumption, FilesAssumption
<1> USE DEF Data, PCs, Locked, AfterBackup, Overwriting, Unlocked, Requests,
            store, state
<1>1. ASSUME NEW h \in Handlers, Receive(h) PROVE Data'
  BY <1>1 DEF Receive, Ops, Saves, At, File
<1>2. ASSUME NEW h \in Handlers, Lock(h) PROVE Data'
  BY <1>2 DEF Lock, At
<1>3. ASSUME NEW h \in Handlers, Step(h) PROVE Data'
  <2> USE DEF Done, Fail, Goto, Succeed, NoReq, Ops, Saves, At, File
  <2>1. CASE ReadBackup(h)
    <3>1. CASE Done(h) /\ UNCHANGED <<store, state, lock, history>>
      BY <3>1
    <3>2. ASSUME NEW f \in File, req' = [req EXCEPT ![h].proposed = f],
                 pc' = [pc EXCEPT ![h] = "lock"],
                 UNCHANGED <<store, state, lock, history>>
          PROVE Data'
      BY <3>2
    <3>3. (IF BeingBackedUp THEN {Torn} ELSE {}) \subseteq File
      OBVIOUS
    <3>4. backups \cup (IF BeingBackedUp THEN {Torn} ELSE {}) \subseteq File
      BY <3>3
    <3> QED
      BY <2>1, <3>1, <3>2, <3>4 DEF ReadBackup
  <2>2. CASE ReadCurrent(h) \/ Check(h) \/ CreateBackup(h)
    BY <2>2 DEF ReadCurrent, Check, CreateBackup
  <2>3. CASE OpenConfig(h) \/ WriteConfig(h)
    BY <2>3 DEF OpenConfig, WriteConfig, Truncate
  <2>4. CASE LoadNew(h)
    <3>1. CASE Install /\ Succeed(h)
      BY <3>1 DEF Install
    <3>2. CASE LoadFails /\ Goto(h, "restoreOpen")
      BY <3>2 DEF LoadFails
    <3> QED
      BY <2>4, <3>1, <3>2 DEF LoadNew
  <2>5. CASE RestoreOpen(h) \/ RestoreWrite(h)
    BY <2>5 DEF RestoreOpen, RestoreWrite, Truncate
  <2>6. CASE ReloadOld(h) \/ PlainLoad(h) \/ PanicInLoad(h)
    BY <2>6 DEF ReloadOld, PlainLoad, PanicInLoad, Install, LoadFails
  <2>7. CASE AnswerState(h) \/ AnswerFile(h) \/ ShowState(h)
    BY <2>7 DEF AnswerState, AnswerFile, ShowState
  <2>8. CASE PreviewRead(h) \/ PreviewLoad(h)
    BY <2>8 DEF PreviewRead, PreviewLoad
  <2> QED
    BY <1>3, <2>1, <2>2, <2>3, <2>4, <2>5, <2>6, <2>7, <2>8 DEF Step
<1>4. ASSUME Edit \/ Crash \/ Boot PROVE Data'
  BY <1>4 DEF Edit, Crash, Boot, NoReq, Ops, File
<1>5. CASE UNCHANGED vars
  BY <1>5 DEF vars
<1> QED
  BY <1>1, <1>2, <1>3, <1>4, <1>5 DEF Next

(* Both halves together. *)
LEMMA TypeStep == TypeOK /\ [Next]_vars => TypeOK'
<1>1. TypeOK <=> Flags /\ Data
  BY Zenon DEF TypeOK, Flags, Data
<1>2. TypeOK' <=> Flags' /\ Data'
  BY Zenon DEF TypeOK, Flags, Data
<1> QED
  BY <1>1, <1>2, FlagsStep, DataStep

-----------------------------------------------------------------------------
(* Every step keeps the rest of the inductive invariant. *)
Parts ==
  /\ LockHeld /\ DownIsIdle /\ BackedUp /\ CurrentIsDisk
  /\ LoadsItsOwn /\ RestoredIsDisk /\ KeptAside /\ Agrees

(* A step that neither holds the lock nor takes it, and changes nothing that
   the handlers share. *)
LEMMA Outside ==
  ASSUME IInv, NEW h \in Handlers, up,
         pc[h] \notin Locked, pc'[h] \notin Locked,
         \A k \in Handlers \ {h} : pc'[k] = pc[k] /\ req'[k] = req[k],
         UNCHANGED <<store, state, lock, history>>
  PROVE  Parts'
<1> USE DEF IInv, Parts, Locked, AfterBackup, Overwriting, store, state, history
<1>1. LockHeld' /\ DownIsIdle' /\ BackedUp' /\ CurrentIsDisk'
  BY DEF LockHeld, DownIsIdle, BackedUp, CurrentIsDisk
<1>2. LoadsItsOwn' /\ RestoredIsDisk' /\ KeptAside'
  BY DEF LoadsItsOwn, RestoredIsDisk, KeptAside
<1>3. lock # h
  BY DEF LockHeld
<1>4. CommittedFile' = CommittedFile
  BY <1>3, HandlersAssumption DEF CommittedFile, TypeOK
<1>5. Agrees'
  BY <1>4 DEF Agrees
<1> QED
  BY <1>1, <1>2, <1>5

(* A load that succeeds is the last step of a critical section. *)
LEMMA Leaving ==
  ASSUME IInv, NEW h \in Handlers, up,
         pc[h] \in Locked, pc'[h] \notin Locked, lock' = Free, Install,
         \A k \in Handlers \ {h} : pc'[k] = pc[k]
  PROVE  Parts'
<1> USE HandlersAssumption
<1> USE DEF IInv, Parts, LockHeld, Install, store
<1>1. \A k \in Handlers : pc'[k] \notin Locked
  OBVIOUS
<1> USE DEF Locked, AfterBackup, Overwriting
<1>2. LockHeld' /\ DownIsIdle' /\ BackedUp' /\ CurrentIsDisk'
  BY <1>1 DEF DownIsIdle, BackedUp, CurrentIsDisk
<1>3. LoadsItsOwn' /\ RestoredIsDisk' /\ KeptAside'
  BY <1>1 DEF LoadsItsOwn, RestoredIsDisk, KeptAside
<1>4. Agrees'
  BY DEF Agrees, CommittedFile
<1> QED
  BY <1>2, <1>3, <1>4

(* Every step of every handler and of the world keeps the other parts. *)
LEMMA PartsStep == IInv /\ [Next]_vars => Parts'
<1> SUFFICES ASSUME IInv, [Next]_vars PROVE Parts'
  OBVIOUS
<1> USE HandlersAssumption, FilesAssumption
<1> USE DEF IInv, Parts, LockHeld, DownIsIdle, BackedUp, CurrentIsDisk,
            LoadsItsOwn, RestoredIsDisk, KeptAside, Agrees, CommittedFile,
            Locked, AfterBackup, Overwriting
<1> USE DEF store, state, history
<1>0. pc \in [Handlers -> PCs] /\ req \in [Handlers -> Requests]
  BY DEF TypeOK
<1>1. ASSUME NEW h \in Handlers, Receive(h) PROVE Parts'
  BY <1>0, <1>1 DEF Receive, At
<1>2. ASSUME NEW h \in Handlers, Lock(h) PROVE Parts'
  BY <1>0, <1>2 DEF Lock, At
<1>3. ASSUME NEW h \in Handlers, Step(h) PROVE Parts'
  <2> USE DEF Done, Fail, Goto, Succeed, At
  <2>1. CASE ReadBackup(h)
    BY <1>0, <2>1, Outside DEF ReadBackup
  <2>2. CASE ReadCurrent(h)
    <3>1. CASE Fail(h) /\ UNCHANGED <<store, state, history>>
      BY <1>0, <2>2, <3>1 DEF ReadCurrent
    <3>2. CASE req' = [req EXCEPT ![h].current = disk] /\ UNCHANGED lock
      BY <1>0, <2>2, <3>2 DEF ReadCurrent
    <3> QED
      BY <2>2, <3>1, <3>2 DEF ReadCurrent
  <2>3. CASE Check(h)
    BY <1>0, <2>3 DEF Check
  <2>4. CASE CreateBackup(h)
    BY <1>0, <2>4 DEF CreateBackup
  <2>5. CASE OpenConfig(h)
    BY <1>0, <2>5 DEF OpenConfig, Truncate
  <2>6. CASE WriteConfig(h)
    BY <1>0, <2>6 DEF WriteConfig
  <2>7. CASE LoadNew(h)
    <3>1. CASE Install /\ Succeed(h)
      BY <1>0, <2>7, <3>1, Leaving DEF LoadNew
    <3>2. CASE LoadFails /\ Goto(h, "restoreOpen")
      BY <1>0, <2>7, <3>2 DEF LoadNew, LoadFails
    <3> QED
      BY <2>7, <3>1, <3>2 DEF LoadNew
  <2>8. CASE RestoreOpen(h)
    BY <1>0, <2>8 DEF RestoreOpen, Truncate
  <2>9. CASE RestoreWrite(h)
    BY <1>0, <2>9 DEF RestoreWrite
  <2>10. CASE ReloadOld(h)
    <3>1. CASE Install /\ Fail(h)
      BY <1>0, <2>10, <3>1, Leaving DEF ReloadOld
    <3>2. CASE LoadFails /\ Fail(h)
      BY <1>0, <2>10, <3>2 DEF ReloadOld, LoadFails
    <3> QED
      BY <2>10, <3>1, <3>2 DEF ReloadOld
  <2>11. CASE PlainLoad(h)
    <3>1. CASE Install /\ Succeed(h)
      BY <1>0, <2>11, <3>1, Leaving DEF PlainLoad
    <3>2. CASE LoadFails /\ Fail(h)
      BY <1>0, <2>11, <3>2 DEF PlainLoad, LoadFails
    <3> QED
      BY <2>11, <3>1, <3>2 DEF PlainLoad
  <2>12. CASE PanicInLoad(h)
    BY <1>0, <2>12 DEF PanicInLoad
  <2>13. CASE AnswerState(h) \/ AnswerFile(h) \/ ShowState(h)
    BY <1>0, <2>13, Outside DEF AnswerState, AnswerFile, ShowState
  <2>14. CASE PreviewRead(h) \/ PreviewLoad(h)
    BY <1>0, <2>14, Outside DEF PreviewRead, PreviewLoad
  <2> QED
    BY <1>3, <2>1, <2>2, <2>3, <2>4, <2>5, <2>6, <2>7, <2>8, <2>9, <2>10,
       <2>11, <2>12, <2>13, <2>14 DEF Step
<1>4. ASSUME Edit PROVE Parts'
  BY <1>4 DEF Edit
<1>5. ASSUME Crash PROVE Parts'
  BY <1>5 DEF Crash
<1>6. ASSUME Boot PROVE Parts'
  <2>1. lock = Free /\ \A k \in Handlers : pc[k] = "idle"
    BY <1>6 DEF Boot, TypeOK
  <2>2. LockHeld' /\ DownIsIdle' /\ BackedUp' /\ CurrentIsDisk'
    BY <1>6, <2>1 DEF Boot
  <2>3. LoadsItsOwn' /\ RestoredIsDisk' /\ KeptAside' /\ Agrees'
    BY <1>6, <2>1 DEF Boot
  <2> QED
    BY <2>2, <2>3
<1>7. CASE UNCHANGED vars
  BY <1>7 DEF vars
<1> QED
  BY <1>1, <1>2, <1>3, <1>4, <1>5, <1>6, <1>7 DEF Next

(* The inductive invariant is inductive. *)
LEMMA InvStep == IInv /\ [Next]_vars => IInv'
  BY TypeStep, PartsStep DEF IInv, Parts

(* The inductive invariant holds throughout. *)
THEOREM Invariance == Spec => []IInv
<1> QED
  BY InitInv, InvStep, PTL DEF Spec

(* The variables hold values of their types throughout. *)
THEOREM TypeCorrect == Spec => []TypeOK
<1>1. IInv => TypeOK
  BY DEF IInv
<1> QED
  BY <1>1, Invariance, PTL

(* The running configuration is always to be found in the file or a backup,
   at whatever step of whatever save the process dies, unless the operator
   replaced the file after it was last loaded. *)
THEOREM NothingIsLost == Spec => []NothingLost
<1>1. IInv => NothingLost
  BY DEF IInv, KeptAside, NothingLost
<1> QED
  BY <1>1, Invariance, PTL

(* Between saves and reloads the file is the running configuration. *)
THEOREM QuietAgreement == Spec => []AgreeWhenQuiet
<1>1. IInv => AgreeWhenQuiet
  BY DEF IInv, Agrees, AgreeWhenQuiet, CommittedFile
<1> QED
  BY <1>1, Invariance, PTL

(* A save loads the file it has written itself. *)
THEOREM OwnLoads == Spec => []LoadsItsOwn
<1>1. IInv => LoadsItsOwn
  BY DEF IInv
<1> QED
  BY <1>1, Invariance, PTL

-----------------------------------------------------------------------------
(* Where buildMux cannot panic, the workflow implements ConfigRegister: a
   save, with all its steps, is one atomic change. *)
LEMMA InitRefines == Init => Register!Init
<1> SUFFICES ASSUME Init PROVE Register!Init
  OBVIOUS
<1> QED
  BY HandlersAssumption DEF Init, Register!Init, CommittedFile

(* A step is a Save, a Reload (a start of the process is one), a Disturb or a
   Crash of the register, or leaves it alone. *)
LEMMA StepRefines ==
  ASSUME MuxPanics = {}, IInv, IInv', [Next]_vars
  PROVE  [Register!Next]_(Register!rvars)
<1> USE HandlersAssumption
<1> USE DEF Register!Next, Register!rvars, store, state, history
<1>0. TypeOK /\ LockHeld /\ TypeOK' /\ CommittedFile \in File /\ CommittedFile' \in File
  BY DEF IInv, TypeOK, CommittedFile, Requests
<1> DEFINE Same == UNCHANGED <<up, running, CommittedFile, edited, failed>>
<1>1. Same => [Register!Next]_(Register!rvars)
  OBVIOUS
<1>2. ASSUME NEW h \in Handlers, Receive(h) \/ Lock(h) PROVE Same
  BY <1>0, <1>2 DEF Receive, Lock, CommittedFile, LockHeld, TypeOK, At, Locked,
     AfterBackup, Overwriting
<1>3. ASSUME NEW h \in Handlers, Step(h) PROVE [Register!Next]_(Register!rvars)
  <2> USE <1>0, <1>1 DEF CommittedFile, LockHeld, TypeOK, At, Locked, AfterBackup,
      Overwriting, Done, Fail, Goto, Succeed
  <2>1. CASE ReadBackup(h) \/ ReadCurrent(h) \/ Check(h) \/ CreateBackup(h)
    BY <2>1 DEF ReadBackup, ReadCurrent, Check, CreateBackup
  <2>2. CASE OpenConfig(h)
    BY <2>2 DEF OpenConfig, Truncate, IInv, CurrentIsDisk, Register!Disturb
  <2>3. CASE WriteConfig(h)
    BY <2>3 DEF WriteConfig, Register!Disturb
  <2>4. CASE LoadNew(h)
    BY <2>4 DEF LoadNew, Install, LoadFails, Register!Save, Register!Load
  <2>5. CASE RestoreOpen(h) \/ RestoreWrite(h)
    BY <2>5 DEF RestoreOpen, RestoreWrite, Truncate, Register!Disturb
  <2>6. CASE ReloadOld(h)
    BY <2>6 DEF ReloadOld, Install, LoadFails, IInv, RestoredIsDisk,
       Register!Save, Register!Load, Register!Disturb
  <2>7. CASE PlainLoad(h)
    BY <2>7 DEF PlainLoad, Install, LoadFails, Register!Reload, Register!Load
  <2>8. CASE PanicInLoad(h)
    BY <2>8 DEF PanicInLoad
  <2>9. CASE AnswerState(h) \/ AnswerFile(h) \/ ShowState(h)
             \/ PreviewRead(h) \/ PreviewLoad(h)
    BY <2>9 DEF AnswerState, AnswerFile, ShowState, PreviewRead, PreviewLoad
  <2> QED
    BY <1>3, <2>1, <2>2, <2>3, <2>4, <2>5, <2>6, <2>7, <2>8, <2>9 DEF Step
<1>4. ASSUME Edit PROVE [Register!Next]_(Register!rvars)
  BY <1>0, <1>4 DEF Edit, Register!Disturb, CommittedFile
<1>5. ASSUME Crash PROVE [Register!Next]_(Register!rvars)
  BY <1>0, <1>5 DEF Crash, Register!Crash
<1>6. ASSUME Boot PROVE [Register!Next]_(Register!rvars)
  BY <1>0, <1>6 DEF Boot, Register!Reload, Register!Load, CommittedFile,
     IInv, DownIsIdle, Overwriting, TypeOK
<1>7. CASE UNCHANGED vars
  BY <1>1, <1>7 DEF vars, CommittedFile
<1> QED
  BY <1>1, <1>2, <1>3, <1>4, <1>5, <1>6, <1>7 DEF Next

(* saveConfigLocked, of many steps and ways to fail, implements one atomic
   change of file and running configuration. *)
THEOREM Atomicity ==
  ASSUME MuxPanics = {}
  PROVE  Spec => SavesAreAtomic
<1>1. IInv /\ IInv' /\ [Next]_vars => [Register!Next]_(Register!rvars)
  BY StepRefines
<1> QED
  BY <1>1, InitRefines, Invariance, PTL DEF Spec, SavesAreAtomic, Register!Spec

(* Where buildMux cannot panic, a refused save leaves the running
   configuration alone and the file equal to it. *)
LEMMA RefusedStep ==
  ASSUME MuxPanics = {}, IInv, IInv', [Next]_vars, NEW h \in Handlers,
         pc[h] \in Locked, pc'[h] = "idle", req[h].op \in Saves,
         up', ~edited, ~failed, ~failed'
  PROVE  running' = running /\ disk' = running
<1> USE HandlersAssumption DEF IInv, At, Locked, AfterBackup, Overwriting, store, state,
        history, Done, Fail, Goto, Succeed
<1>0. pc \in [Handlers -> PCs] /\ up /\ lock = h /\ CommittedFile = running
  BY DEF TypeOK, DownIsIdle, LockHeld, Agrees
<1>1. Step(h)
  <2>1. ASSUME NEW k \in Handlers, k # h, Step(k) \/ Receive(k) \/ Lock(k)
        PROVE  pc'[h] = pc[h]
    BY <1>0, <2>1 DEF Step, Receive, Lock, ReadBackup, ReadCurrent, Check, CreateBackup,
       OpenConfig, WriteConfig, LoadNew, RestoreOpen, RestoreWrite, ReloadOld, PlainLoad,
       PanicInLoad, AnswerState, AnswerFile, ShowState, PreviewRead, PreviewLoad
  <2>2. ~Receive(h) /\ ~Lock(h)
    BY DEF Receive, Lock
  <2>3. pc' # pc /\ ~Edit /\ ~Crash /\ ~Boot
    BY <1>0 DEF Edit, Crash, Boot
  <2> QED
    BY <2>1, <2>2, <2>3 DEF Next, vars
<1> DEFINE Goal == running' = running /\ disk' = running
<1>2. CASE ReadCurrent(h) \/ Check(h) \/ CreateBackup(h) \/ OpenConfig(h)
  BY <1>0, <1>2 DEF ReadCurrent, Check, CreateBackup, OpenConfig, CommittedFile
<1>3. CASE WriteConfig(h)
  BY <1>0, <1>3 DEF WriteConfig
<1>4. CASE LoadNew(h) \/ RestoreOpen(h) \/ RestoreWrite(h)
  BY <1>0, <1>4 DEF LoadNew, RestoreOpen, RestoreWrite, Saves
<1>5. CASE ReloadOld(h)
  BY <1>0, <1>5 DEF ReloadOld, Install, LoadFails, RestoredIsDisk, CommittedFile
<1>6. CASE PlainLoad(h)
  BY <1>0, <1>6 DEF PlainLoad, Install, LoadFails, CommittedFile, Saves
<1>7. CASE PanicInLoad(h)
  BY <1>7 DEF PanicInLoad
<1>8. CASE ReadBackup(h) \/ AnswerState(h) \/ AnswerFile(h) \/ ShowState(h)
            \/ PreviewRead(h) \/ PreviewLoad(h)
  BY <1>8 DEF ReadBackup, AnswerState, AnswerFile, ShowState, PreviewRead, PreviewLoad
<1> QED
  BY <1>1, <1>2, <1>3, <1>4, <1>5, <1>6, <1>7, <1>8 DEF Step

(* A save that is refused changes neither file nor running configuration. *)
THEOREM RefusedSaves ==
  ASSUME MuxPanics = {}
  PROVE  Spec => RefusedSaveChangesNothing
<1> DEFINE A == \A h \in Handlers :
                  /\ pc[h] \in Locked /\ pc'[h] = "idle" /\ req[h].op \in Saves
                  /\ up' /\ ~edited /\ ~failed /\ ~failed'
                  => running' = running /\ disk' = running
<1>1. IInv /\ IInv' /\ [Next]_vars => [A]_vars
  BY RefusedStep
<1> QED
  BY <1>1, Invariance, PTL DEF Spec, RefusedSaveChangesNothing
=============================================================================
