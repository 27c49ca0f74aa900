------------------------- MODULE BackupSystemProofs -------------------------
(***************************************************************************)
(* Theorems about BackupSystem, for every set of clients, every clock      *)
(* bound, every set of retention configurations and every number of faults *)
(* and cancellations.                                                      *)
(*                                                                         *)
(* The inductive invariants, on top of those of RegistryServiceProofs:     *)
(*   TaskTyped, Tasks  what a command is doing fits the registry call that *)
(*                     it has made (with those of the registry: Sound)     *)
(*   Known             what a command has read, retention has picked or a  *)
(*                     backup was told is registered is in the registry    *)
(*   Relisted          what a rebuild has found is still there              *)
(*   Names             each object and each entry is of a backup that has  *)
(*                     started, and each instant has one of them; so a name *)
(*                     that an upload finds taken is Shared                *)
(*   DeletedInv        what is or will be marked deleted is not there      *)
(*   KeptInv           every entry has its archive or a newer ready entry; *)
(*                     what retention deletes or marks has a newer one     *)
(*   Finite            what a command has loaded or picked is finite       *)
(* ArchivesInv is Sound, Locked and all up to DeletedInv; BackupsInv adds  *)
(* KeptInv, for policies that count.  Both allow that two backups start in *)
(* one second: what the theorems except is the archive of a name they share.*)
(* Steps outside the registry service do not touch what RegistryAtomicity  *)
(* knows of it, so its refinement holds for the whole program.             *)
(*                                                                         *)
(* Known is what makes stale snapshots harmless: entries stay in the       *)
(* registry (RegistryServiceProofs), and one that is marked deleted has a  *)
(* newer one that is ready, so a decision made on an old copy still holds. *)
(***************************************************************************)
EXTENDS BackupSystem, RegistryAtomicity, FiniteSetTheorems

R == INSTANCE RetentionPolicyProofs

----------------------------------------------------------------------------
\* The policy functions this module and RetentionPolicyProofs mean are the same.
LEMMA SameNewest ==
    ASSUME NEW n, NEW S
    PROVE  P!Newest(n, S) = R!Newest(n, S)
<1>1. \A T : P!Cardinality(T) = R!Cardinality(T)
  BY DEF P!Cardinality, R!Cardinality
<1> QED
  BY <1>1 DEF P!Newest, R!Newest

LEMMA SamePeriodKeeps ==
    ASSUME NEW S, NEW period, NEW n
    PROVE  P!PeriodKeeps(S, period, n) = R!PeriodKeeps(S, period, n)
<1>1. P!GroupNewest(S, period) = R!GroupNewest(S, period)
  BY DEF P!GroupNewest, R!GroupNewest
<1> QED
  BY <1>1, SameNewest DEF P!PeriodKeeps, R!PeriodKeeps

\* Whatever a policy picks for deletion is one of the backups it was given.
LEMMA VictimsAreGiven ==
    ASSUME NEW S, NEW cfg, NEW now, NEW V \in P!ToRemove(S, cfg, now)
    PROVE  V \subseteq S
BY DEF P!ToRemove

\* Each backup that a counting policy removes leaves one that is as new.
LEMMA VictimsLeaveAsNew ==
    ASSUME NEW S, IsFiniteSet(S), \A e \in S : e.created \in Int,
           NEW cfg \in P!Config, P!KeepsNewest(cfg), NEW now,
           NEW V \in P!ToRemove(S, cfg, now), NEW e \in V
    PROVE  \E k \in S \ V : k.created >= e.created
<1>1. R!Backups(S)
  BY DEF R!Backups, IsFiniteSet, R!IsFiniteSet
<1>2. cfg \in R!Config /\ R!KeepsNewest(cfg)
  BY DEF P!Config, R!Config, P!KeepsNewest, R!KeepsNewest
<1>3. V \in R!ToRemove(S, cfg, now)
  <2>1. /\ P!MaxCountKeeps(S, cfg) = R!MaxCountKeeps(S, cfg)
        /\ P!MaxAgeKeeps(S, cfg, now) = R!MaxAgeKeeps(S, cfg, now)
    BY SameNewest DEF P!MaxCountKeeps, R!MaxCountKeeps, P!MaxAgeKeeps, R!MaxAgeKeeps
  <2> QED
    BY <2>1, SamePeriodKeeps DEF P!ToRemove, R!ToRemove
<1> QED
  BY <1>1, <1>2, <1>3, R!RemovalLeavesAsNew

----------------------------------------------------------------------------
Calling == {"appending", "loading", "marking", "listing", "selecting"}
Making == {"upload", "register", "appending"}

TaskTyped ==
    /\ clock \in Readings
    /\ started \in SUBSET (Times \X EncModes)
    /\ made \in SUBSET Entry
    /\ pc \in [Clients -> PCs]
    /\ entry \in [Clients -> Entry \cup {NoEntry}]
    /\ policy \in [Clients -> Policies \cup {NoPolicy}]
    /\ victims \in [Clients -> SUBSET Ready(Entry)]
    /\ gone \in [Clients -> SUBSET Ready(Entry)]

\* What p's command is doing fits its registry call, and what it has in hand.
TaskOf(p) ==
    /\ pc[p] \in Calling <=> phase[p] # "idle"
    /\ pc[p] = "appending" => op[p] = "append" /\ arg[p] = entry[p]
    /\ pc[p] = "marking" => op[p] = "mark" /\ arg[p] \in gone[p]
    /\ pc[p] \in {"loading", "listing", "selecting"} => op[p] \in {"load", "recover"}
    /\ pc[p] \in Making => entry[p] \in NewEntries
    /\ pc[p] = "fetch" => entry[p] \in Ready(Entry)
    /\ pc[p] \in {"plan", "loading"} => policy[p] \in Policies
    /\ outcome[p] = "ok" => phase[p] \in {"unlock", "done"}

Tasks == \A p \in Clients : TaskOf(p)

Sound == Typed /\ TaskTyped /\ Tasks

LEMMA SoundInit == Init => Sound
<1> SUFFICES ASSUME Init PROVE Sound
  OBVIOUS
<1>1. Typed
  BY TypedInit DEF Init
<1>2. TaskTyped
  <2>1. Stored \subseteq Times \X EncModes
    BY DomainAssumption DEF Stored, Files
  <2> QED
    BY <2>1 DEF Init, TaskTyped, PCs
<1>3. Tasks
  BY DEF Init, ServiceInit, Tasks, TaskOf, Calling, Making
<1> QED
  BY <1>1, <1>2, <1>3 DEF Sound

\* A step that is none of the registry service: some object, some fault.
Outside ==
    /\ UNCHANGED <<lockFile, store, tempFile, call, cancelled>>
    /\ objects' \in [Files -> Digests \cup {NoObject}]
    /\ faults' \in Nat /\ cancels' \in Nat

LEMMA OutsideTyped == Typed /\ Outside => Typed'
BY DEF Typed, ServiceTypeOK, ArgTyped, Outside, tempFile, call

LEMMA EntryFile ==
    ASSUME NEW e \in Entry
    PROVE  FileOf(e) \in Files
BY DomainAssumption DEF Entry, FileOf, Files

\* Seen from the registry service every step of a command is one of its own, or
\* one that it has nothing to do with.
LEMMA ServiceOrOutside ==
    ASSUME Sound, [Next]_vars
    PROVE  [ServiceNext]_serviceVars \/ Outside
<1> USE DEF Sound
<1>1. ASSUME UNCHANGED serviceVars PROVE [ServiceNext]_serviceVars
  BY <1>1
<1>2. CASE UNCHANGED vars \/ Tick
  BY <1>1, <1>2 DEF vars, Tick
<1>3. ASSUME NEW p \in Clients,
             \/ StartBackup(p) \/ StartRetention(p) \/ DeletesDone(p) \/ RetentionDone(p)
             \/ Fetch(p)
      PROVE  UNCHANGED serviceVars
  BY <1>3 DEF StartBackup, StartRetention, DeletesDone, RetentionDone, Fetch
<1>4. ASSUME NEW p \in Clients, UploadBackup(p) \/ UploadFails(p)
      PROVE  Outside
  <2>1. entry[p] \in NewEntries
    BY <1>4 DEF UploadBackup, UploadFails, Tasks, TaskOf, Making
  <2>2. objects' \in {objects, [objects EXCEPT ![FileOf(entry[p])] = entry[p].sha]}
    BY <1>4 DEF UploadBackup, UploadFails
  <2>3. objects' \in [Files -> Digests \cup {NoObject}]
    BY <2>1, <2>2 DEF NewEntries, Typed, ServiceTypeOK
  <2> QED
    BY <1>4, <2>3 DEF UploadBackup, UploadFails, Outside, Fault, NoFault, budget, Typed, ServiceTypeOK
<1>5. ASSUME NEW p \in Clients, DeleteBackup(p) \/ DeleteFails(p)
      PROVE  Outside
  <2>1. PICK v \in victims[p] : objects' \in {objects, [objects EXCEPT ![FileOf(v)] = NoObject]}
    BY <1>5 DEF DeleteBackup, DeleteFails, NextOf
  <2>2. objects' \in [Files -> Digests \cup {NoObject}]
    BY <2>1 DEF Typed, ServiceTypeOK
  <2> QED
    BY <1>5, <2>2 DEF DeleteBackup, DeleteFails, Outside, Fault, NoFault, budget, Typed, ServiceTypeOK
<1>6. ASSUME NEW p \in Clients, RegisterBackup(p)
      PROVE  ServiceNext
  BY <1>6 DEF RegisterBackup, Tasks, TaskOf, Making, ServiceNext
<1>7. ASSUME NEW p \in Clients,
             \/ BackupRegistered(p) \/ PlanRetention(p) \/ MarkReturned(p) \/ ListDone(p)
             \/ SelectLatest(p) \/ SelectByID(p)
      PROVE  Return(p)
  BY <1>7 DEF BackupRegistered, PlanRetention, MarkReturned, ListDone, SelectLatest, SelectByID
<1>8. ASSUME NEW p \in Clients, LoadForRetention(p) \/ StartList(p) \/ StartRestore(p)
      PROVE  \E o \in {"load", "recover"} : Invoke(p, o, NoEntry)
  BY <1>8 DEF LoadForRetention, StartList, StartRestore
<1>9. ASSUME NEW p \in Clients, MarkNext(p)
      PROVE  \E e \in Ready(Entry) : Invoke(p, "mark", e)
  BY <1>9 DEF MarkNext, NextOf, TaskTyped
<1>10. ASSUME NEW p \in Clients, RegistryStep(p) \/ CancelCommand(p) \/ NextCommand(p)
       PROVE  CallStep(p) \/ Cancel(p) \/ Renew(p)
  BY <1>10 DEF RegistryStep, CancelCommand, NextCommand
<1>11. ASSUME NEW p \in Clients, CrashCommand(p)
       PROVE  Crash(p) \/ Outside
  BY <1>11 DEF CrashCommand, Outside, Fault, storage, Typed, ServiceTypeOK
<1> QED
  BY <1>1, <1>2, <1>3, <1>4, <1>5, <1>6, <1>7, <1>8, <1>9, <1>10, <1>11
     DEF Next, CommandStep, StartCommand, ServiceNext

\* Whose step it is: nothing changes of the other clients' commands and calls.
OnlyOf(p) ==
    \A q \in Clients \ {p} :
        /\ pc'[q] = pc[q] /\ entry'[q] = entry[q] /\ policy'[q] = policy[q]
        /\ victims'[q] = victims[q] /\ gone'[q] = gone[q]
        /\ phase'[q] = phase[q] /\ op'[q] = op[q] /\ arg'[q] = arg[q]
        /\ buf'[q] = buf[q] /\ outcome'[q] = outcome[q]

\* A call in progress keeps its operation and its argument and does not end, and
\* its answer is known only when there is nothing left but to release the lock.
LEMMA CallStepShape ==
    ASSUME Typed, NEW p \in Clients, CallStep(p)
    PROVE  /\ UNCHANGED <<op, arg, objects>>
           /\ phase[p] # "idle" /\ phase'[p] # "idle"
           /\ \A q \in Clients \ {p} :
                 phase'[q] = phase[q] /\ buf'[q] = buf[q] /\ outcome'[q] = outcome[q]
           /\ outcome'[p] = "ok" =>
                 \/ phase'[p] = "unlock"
                 \/ outcome[p] = "ok" /\ phase'[p] = "done"
                 \/ outcome[p] = "ok" /\ phase[p] \notin {"unlock", "done"}
<1> USE DEF Typed, ServiceTypeOK
<1>1. CASE AcquireLock(p) \/ StatLock(p) \/ RenameLock(p) \/ LockFails(p)
           \/ ReleaseLock(p) \/ UnlockFails(p)
  BY <1>1 DEF AcquireLock, StatLock, RenameLock, LockFails, ReleaseLock, UnlockFails, Finish,
              storage
<1>2. CASE DownloadFound(p) \/ DownloadMissing(p) \/ ListObjects(p)
  <2>1. UNCHANGED <<op, arg, objects>> /\ phase[p] \in {"download", "list"}
    BY <1>2 DEF DownloadFound, DownloadMissing, ListObjects, storage
  <2>2. PICK reg : \/ LoadDone(p, reg) \/ AppendTo(p, reg) \/ MarkIn(p, reg)
                   \/ /\ phase' = [phase EXCEPT ![p] = "list"]
                      /\ UNCHANGED <<buf, outcome>>
                   \/ /\ buf' = [buf EXCEPT ![p] = reg]
                      /\ phase' = [phase EXCEPT ![p] = "upload"]
                      /\ UNCHANGED outcome
                   \/ Finish(p, "error", "unlock") /\ UNCHANGED buf
    BY <1>2 DEF DownloadFound, DownloadMissing, ListObjects
  <2> QED
    BY <2>1, <2>2 DEF LoadDone, AppendTo, MarkIn, Finish
<1>3. CASE ParseFails(p) \/ CallFails(p) \/ UploadRegistry(p) \/ UploadAmbiguous(p)
  BY <1>3 DEF ParseFails, CallFails, UploadRegistry, UploadAmbiguous, Finish, storage
<1>4. CASE StoreTemp(p) \/ TempStored(p) \/ RenameTemp(p) \/ ReplaceFails(p)
  BY <1>4 DEF StoreTemp, TempStored, RenameTemp, ReplaceFails, Finish
<1> QED
  BY <1>1, <1>2, <1>3, <1>4 DEF CallStep

\* A command that ends forgets what it had in hand.
LEMMA ExitTyped ==
    ASSUME TaskTyped, NEW p \in Clients, Exit(p)
    PROVE  /\ pc' \in [Clients -> PCs]
           /\ entry' \in [Clients -> Entry \cup {NoEntry}]
           /\ policy' \in [Clients -> Policies \cup {NoPolicy}]
           /\ victims' \in [Clients -> SUBSET Ready(Entry)]
           /\ gone' \in [Clients -> SUBSET Ready(Entry)]
           /\ pc'[p] = "idle" /\ victims'[p] = {} /\ gone'[p] = {}
           /\ \A q \in Clients \ {p} :
                 /\ pc'[q] = pc[q] /\ entry'[q] = entry[q] /\ policy'[q] = policy[q]
                 /\ victims'[q] = victims[q] /\ gone'[q] = gone[q]
BY DEF TaskTyped, Exit, GoTo, PCs

\* So does a call whose answer has been taken, or that a crash cuts off.
LEMMA ForgetShape ==
    ASSUME Typed, NEW p \in Clients, Forget(p)
    PROVE  /\ phase'[p] = "idle" /\ outcome'[p] = "error"
           /\ \A q \in Clients \ {p} :
                 /\ phase'[q] = phase[q] /\ op'[q] = op[q] /\ arg'[q] = arg[q]
                 /\ buf'[q] = buf[q] /\ outcome'[q] = outcome[q]
BY DEF Typed, ServiceTypeOK, Forget

\* The entry of a backup that starts is an entry a caller may append.
LEMMA NewEntryTyped ==
    ASSUME NEW t \in Times, NEW enc \in EncModes, NEW d \in Digests
    PROVE  NewEntry(t, enc, d) \in NewEntries /\ NewEntry(t, enc, d) \in Entry
BY DEF NewEntry, NewEntries, Entry, Statuses

\* The steps of one client, and that each is the step of that client alone.
ClientStep(p) ==
    CommandStep(p) \/ StartCommand(p) \/ CancelCommand(p) \/ NextCommand(p) \/ CrashCommand(p)

LEMMA StepOfOne ==
    ASSUME Sound, NEW p \in Clients, ClientStep(p)
    PROVE  OnlyOf(p)
<1> USE DEF Sound, OnlyOf, GoTo
<1>1. CASE \/ StartBackup(p) \/ StartRetention(p) \/ DeletesDone(p)
           \/ UploadBackup(p) \/ DeleteBackup(p)
  BY <1>1 DEF StartBackup, StartRetention, DeletesDone, UploadBackup, DeleteBackup,
              TaskTyped, serviceVars, call, storage
<1>2. CASE UploadFails(p) \/ RetentionDone(p) \/ Fetch(p)
  BY <1>2, ExitTyped DEF UploadFails, RetentionDone, Fetch, serviceVars, call
<1>3. CASE DeleteFails(p)
  <2>1. UNCHANGED call
    BY <1>3 DEF DeleteFails
  <2>2. CASE Exit(p)
    BY <2>1, <2>2, ExitTyped DEF call
  <2>3. CASE ~Exit(p)
    BY <1>3, <2>1, <2>3 DEF DeleteFails, TaskTyped, call
  <2> QED
    BY <2>2, <2>3
<1>4. CASE \/ RegisterBackup(p) \/ LoadForRetention(p) \/ MarkNext(p) \/ StartList(p)
           \/ StartRestore(p)
  BY <1>4 DEF RegisterBackup, LoadForRetention, MarkNext, StartList, StartRestore, Invoke,
              TaskTyped, Typed, ServiceTypeOK
<1>5. CASE \/ BackupRegistered(p) \/ PlanRetention(p) \/ MarkReturned(p) \/ ListDone(p)
           \/ SelectLatest(p) \/ SelectByID(p)
  <2>1. Forget(p)
    BY <1>5 DEF BackupRegistered, PlanRetention, MarkReturned, ListDone, SelectLatest,
                SelectByID, Return
  <2>2. CASE Exit(p)
    BY <2>1, <2>2, ExitTyped, ForgetShape
  <2>3. CASE ~Exit(p)
    BY <1>5, <2>1, <2>3, ForgetShape
       DEF BackupRegistered, PlanRetention, MarkReturned, ListDone, SelectLatest, SelectByID,
           TaskTyped
  <2> QED
    BY <2>2, <2>3
<1>6. CASE RegistryStep(p)
  BY <1>6, CallStepShape DEF RegistryStep, taskVars
<1>7. CASE CancelCommand(p) \/ NextCommand(p)
  BY <1>7 DEF CancelCommand, NextCommand, Cancel, Renew, taskVars, call
<1>8. CASE CrashCommand(p)
  <2>1. CASE Forget(p)
    BY <1>8, <2>1, ExitTyped, ForgetShape DEF CrashCommand
  <2>2. CASE UNCHANGED call
    BY <1>8, <2>2, ExitTyped DEF CrashCommand, call
  <2> QED
    BY <1>8, <2>1, <2>2 DEF CrashCommand, Crash
<1> QED
  BY <1>1, <1>2, <1>3, <1>4, <1>5, <1>6, <1>7, <1>8 DEF ClientStep, CommandStep, StartCommand

\* What a step changes of a command's variables is well typed.
LEMMA ClientStepTyped ==
    ASSUME Sound, NEW p \in Clients, ClientStep(p)
    PROVE  TaskTyped'
<1> USE DEF Sound, GoTo
<1>1. CASE StartBackup(p)
  <2>1. PICK enc \in EncModes, d \in Digests :
            entry' = [entry EXCEPT ![p] = NewEntry(clock, enc, d)]
    BY <1>1 DEF StartBackup
  <2>2. NewEntry(clock, enc, d) \in Entry
    BY NewEntryTyped DEF TaskTyped, Readings
  <2>3. policy' \in [Clients -> Policies \cup {NoPolicy}]
    BY <1>1 DEF StartBackup, TaskTyped
  <2>4. started' \in SUBSET (Times \X EncModes)
    BY <1>1 DEF StartBackup, TaskTyped, Readings
  <2> QED
    BY <1>1, <2>1, <2>2, <2>3, <2>4 DEF StartBackup, TaskTyped, PCs
<1>2. CASE \/ StartRetention(p) \/ DeletesDone(p) \/ UploadBackup(p) \/ RegisterBackup(p)
           \/ LoadForRetention(p) \/ MarkNext(p) \/ StartList(p) \/ StartRestore(p)
  BY <1>2 DEF StartRetention, DeletesDone, UploadBackup, RegisterBackup, LoadForRetention,
              MarkNext, StartList, StartRestore, TaskTyped, PCs, worldVars
<1>3. CASE UploadFails(p) \/ RetentionDone(p) \/ Fetch(p) \/ ListDone(p) \/ CrashCommand(p)
  BY <1>3, ExitTyped
     DEF UploadFails, RetentionDone, Fetch, ListDone, CrashCommand, worldVars, TaskTyped
<1>4. CASE DeleteBackup(p) \/ DeleteFails(p)
  <2>1. UNCHANGED worldVars
    BY <1>4 DEF DeleteBackup, DeleteFails
  <2>2. CASE Exit(p)
    BY <2>1, <2>2, ExitTyped DEF TaskTyped, worldVars
  <2>3. CASE ~Exit(p)
    <3>1. PICK v \in victims[p] :
              /\ victims' = [victims EXCEPT ![p] = @ \ {v}]
              /\ gone' = gone \/ gone' = [gone EXCEPT ![p] = @ \cup {v}]
              /\ UNCHANGED <<pc, entry, policy>>
      BY <1>4, <2>3 DEF DeleteBackup, DeleteFails, NextOf
    <3>2. v \in Ready(Entry)
      BY <3>1 DEF TaskTyped
    <3> QED
      BY <2>1, <3>1, <3>2 DEF TaskTyped, worldVars
  <2> QED
    BY <2>2, <2>3
<1>5. CASE BackupRegistered(p)
  <2>1. made' \in SUBSET Entry
    BY <1>5 DEF BackupRegistered, Tasks, TaskOf, TaskTyped, Making, NewEntries
  <2>2. CASE Exit(p)
    BY <1>5, <2>1, <2>2, ExitTyped DEF BackupRegistered, TaskTyped
  <2>3. CASE ~Exit(p)
    BY <1>5, <2>1, <2>3 DEF BackupRegistered, TaskTyped, PCs
  <2> QED
    BY <2>2, <2>3
<1>6. CASE PlanRetention(p)
  <2>1. CASE Exit(p)
    BY <1>6, <2>1, ExitTyped DEF PlanRetention, TaskTyped, worldVars
  <2>2. CASE ~Exit(p)
    <3>1. PICK V \in P!ToRemove(Ready(buf[p]), policy[p], clock) :
              victims' = [victims EXCEPT ![p] = V]
      BY <1>6, <2>2 DEF PlanRetention
    <3>2. V \subseteq Ready(Entry)
      BY VictimsAreGiven DEF Ready, Typed, ServiceTypeOK
    <3> QED
      BY <1>6, <2>2, <3>1, <3>2 DEF PlanRetention, TaskTyped, PCs, worldVars
  <2> QED
    BY <2>1, <2>2
<1>7. CASE MarkReturned(p)
  <2>1. CASE Exit(p)
    BY <1>7, <2>1, ExitTyped DEF MarkReturned, TaskTyped, worldVars
  <2>2. CASE ~Exit(p)
    BY <1>7, <2>2 DEF MarkReturned, TaskTyped, PCs, worldVars
  <2> QED
    BY <2>1, <2>2
<1>8. CASE SelectLatest(p) \/ SelectByID(p)
  <2>1. CASE Exit(p)
    BY <1>8, <2>1, ExitTyped DEF SelectLatest, SelectByID, TaskTyped, worldVars, GoTo
  <2>2. CASE ~Exit(p)
    <3>1. PICK e \in Ready(buf[p]) : entry' = [entry EXCEPT ![p] = e]
      BY <1>8, <2>2 DEF SelectLatest, SelectByID, NextOf
    <3>2. e \in Entry
      BY DEF Ready, Typed, ServiceTypeOK
    <3> QED
      BY <1>8, <2>2, <3>1, <3>2 DEF SelectLatest, SelectByID, TaskTyped, PCs, worldVars
  <2> QED
    BY <2>1, <2>2
<1>9. CASE RegistryStep(p) \/ CancelCommand(p) \/ NextCommand(p)
  BY <1>9 DEF RegistryStep, CancelCommand, NextCommand, taskVars, worldVars, TaskTyped
<1> QED
  BY <1>1, <1>2, <1>3, <1>4, <1>5, <1>6, <1>7, <1>8, <1>9
     DEF ClientStep, CommandStep, StartCommand

\* What a client does next fits what it has done.
LEMMA ClientStepFits ==
    ASSUME Sound, NEW p \in Clients, ClientStep(p)
    PROVE  TaskOf(p)'
<1> USE DEF Sound, GoTo, Calling, Making
<1> TaskOf(p)
  BY DEF Tasks
<1>1. ASSUME Exit(p), phase'[p] = "idle", outcome'[p] = "error"
      PROVE  TaskOf(p)'
  BY <1>1, ExitTyped DEF TaskOf
<1>2. CASE StartBackup(p)
  <2>1. PICK enc \in EncModes, d \in Digests :
            entry' = [entry EXCEPT ![p] = NewEntry(clock, enc, d)]
    BY <1>2 DEF StartBackup
  <2>2. NewEntry(clock, enc, d) \in NewEntries
    BY NewEntryTyped DEF TaskTyped, Readings
  <2> QED
    BY <1>2, <2>1, <2>2 DEF StartBackup, TaskTyped, TaskOf, serviceVars, call
<1>3. CASE StartRetention(p) \/ DeletesDone(p) \/ UploadBackup(p)
  BY <1>3 DEF StartRetention, DeletesDone, UploadBackup, TaskTyped, TaskOf, serviceVars, call
<1>4. CASE \/ RegisterBackup(p) \/ LoadForRetention(p) \/ MarkNext(p) \/ StartList(p)
           \/ StartRestore(p)
  BY <1>4 DEF RegisterBackup, LoadForRetention, MarkNext, StartList, StartRestore, Invoke,
              NextOf, TaskTyped, Typed, ServiceTypeOK, TaskOf
<1>5. CASE UploadFails(p) \/ RetentionDone(p) \/ Fetch(p)
  <2>1. phase'[p] = phase[p] /\ outcome'[p] = outcome[p] /\ Exit(p)
    BY <1>5 DEF UploadFails, RetentionDone, Fetch, serviceVars, call
  <2>2. pc[p] \in {"upload", "mark", "fetch"}
    BY <1>5 DEF UploadFails, RetentionDone, Fetch
  <2> QED
    BY <1>1, <2>1, <2>2 DEF TaskOf, Typed, ServiceTypeOK
<1>6. CASE DeleteBackup(p) \/ DeleteFails(p)
  <2>1. UNCHANGED call /\ pc[p] = "delete"
    BY <1>6 DEF DeleteBackup, DeleteFails
  <2>2. CASE Exit(p)
    BY <1>1, <2>1, <2>2 DEF TaskOf, Typed, ServiceTypeOK, call
  <2>3. CASE ~Exit(p)
    BY <1>6, <2>1, <2>3 DEF DeleteBackup, DeleteFails, TaskOf, call
  <2> QED
    BY <2>2, <2>3
<1>7. CASE \/ BackupRegistered(p) \/ PlanRetention(p) \/ MarkReturned(p) \/ ListDone(p)
           \/ SelectLatest(p) \/ SelectByID(p)
  <2>1. Forget(p)
    BY <1>7 DEF BackupRegistered, PlanRetention, MarkReturned, ListDone, SelectLatest,
                SelectByID, Return
  <2>2. phase'[p] = "idle" /\ outcome'[p] = "error"
    BY <2>1, ForgetShape
  <2>3. CASE Exit(p)
    BY <1>1, <2>2, <2>3
  <2>4. CASE BackupRegistered(p) /\ ~Exit(p)
    BY <2>2, <2>4 DEF BackupRegistered, TaskTyped, TaskOf
  <2>5. CASE (PlanRetention(p) \/ MarkReturned(p)) /\ ~Exit(p)
    BY <2>2, <2>5 DEF PlanRetention, MarkReturned, TaskTyped, TaskOf
  <2>6. CASE (SelectLatest(p) \/ SelectByID(p)) /\ ~Exit(p)
    <3>1. PICK e \in Ready(buf[p]) : entry' = [entry EXCEPT ![p] = e]
      BY <2>6 DEF SelectLatest, SelectByID, NextOf
    <3>2. e \in Ready(Entry)
      BY DEF Ready, Typed, ServiceTypeOK
    <3>3. pc'[p] = "fetch" /\ entry'[p] = e
      BY <2>6, <3>1 DEF SelectLatest, SelectByID, TaskTyped
    <3> QED
      BY <2>2, <3>2, <3>3 DEF TaskOf
  <2> QED
    BY <1>7, <2>3, <2>4, <2>5, <2>6 DEF ListDone
<1>8. CASE RegistryStep(p)
  BY <1>8, CallStepShape DEF RegistryStep, taskVars, TaskOf
<1>9. CASE CancelCommand(p) \/ NextCommand(p)
  BY <1>9 DEF CancelCommand, NextCommand, Cancel, Renew, taskVars, call, TaskOf
<1>10. CASE CrashCommand(p)
  <2>1. CASE Forget(p)
    BY <1>1, <1>10, <2>1, ForgetShape DEF CrashCommand
  <2>2. CASE phase[p] = "idle" /\ UNCHANGED call
    BY <1>1, <1>10, <2>2 DEF CrashCommand, TaskOf, Typed, ServiceTypeOK, call
  <2> QED
    BY <1>10, <2>1, <2>2 DEF CrashCommand, Crash
<1> QED
  BY <1>2, <1>3, <1>4, <1>5, <1>6, <1>7, <1>8, <1>9, <1>10
     DEF ClientStep, CommandStep, StartCommand

LEMMA SoundStep == Sound /\ [Next]_vars => Sound'
<1> SUFFICES ASSUME Sound, [Next]_vars PROVE Sound'
  OBVIOUS
<1>1. Typed'
  BY ServiceOrOutside, TypedStep, OutsideTyped DEF Sound
<1>2. CASE UNCHANGED <<call, taskVars, worldVars>>
  BY <1>1, <1>2 DEF Sound, TaskTyped, Tasks, TaskOf, call, taskVars, worldVars
<1>3. CASE Tick
  <2>1. clock' \in Readings /\ UNCHANGED <<call, taskVars, started, made>>
    BY <1>3 DEF Tick, serviceVars
  <2> QED
    BY <1>1, <2>1 DEF Sound, TaskTyped, Tasks, TaskOf, call, taskVars
<1>4. ASSUME NEW p \in Clients, ClientStep(p)
      PROVE  Sound'
  <2>1. ASSUME NEW q \in Clients \ {p} PROVE TaskOf(q)'
    <3>1. OnlyOf(p) /\ TaskOf(q)
      BY <1>4, StepOfOne DEF Sound, Tasks
    <3> QED
      BY <3>1 DEF OnlyOf, TaskOf
  <2> QED
    BY <1>1, <1>4, <2>1, ClientStepTyped, ClientStepFits DEF Sound, Tasks
<1> QED
  BY <1>2, <1>3, <1>4 DEF Next, ClientStep, vars, serviceVars

\* Whatever interleaves, fails or crashes: every command's variables are well typed.
THEOREM SystemTypeCorrect == Spec => []TypeOK
<1>1. Sound => TypeOK
  <2>1. Ready(Entry) \subseteq Entry
    BY DEF Ready
  <2> QED
    BY <2>1 DEF Sound, Typed, TaskTyped, TypeOK
<1> QED
  BY <1>1, SoundInit, SoundStep, PTL DEF Spec

----------------------------------------------------------------------------
\* Between Lock and Unlock nothing outside the registry service matters.
LEMMA OutsideMutex == Mutex /\ Outside => Mutex'
BY DEF Mutex, LockExclusive, Outside, call

LEMMA OutsideLocked == Locked /\ Outside => Locked'
<1> SUFFICES ASSUME Locked, Outside PROVE Locked'
  OBVIOUS
<1>1. UNCHANGED <<phase, op, arg, buf, store, temp, writers>>
  BY DEF Outside, call, tempFile
<1> QED
  BY <1>1, OutsideTyped DEF Locked, Current, CurrentFor, TempOwned, StoredRegistryLoads

\* With a file system or s3 no two commands of the program are ever inside the
\* registry's lock at once, whatever else they do to the storage.
THEOREM SystemLockIsExclusive ==
    ASSUME Backend # "ftp"
    PROVE  Spec => []LockExclusive
<1>1. Init => Sound /\ Mutex
  BY SoundInit DEF Init, ServiceInit, Mutex, LockExclusive, Critical
<1>2. Sound /\ Mutex /\ [Next]_vars => (Sound /\ Mutex)'
  BY SoundStep, ServiceOrOutside, MutexStep, OutsideMutex DEF Sound
<1>3. Mutex => LockExclusive
  BY DEF Mutex
<1> QED
  BY <1>1, <1>2, <1>3, PTL DEF Spec

LEMMA SystemLockedStep == Sound /\ Locked /\ LockExclusive /\ [Next]_vars => Locked'
BY ServiceOrOutside, LockedStep, OutsideLocked

\* So the registry of the whole program can always be loaded.
THEOREM SystemRegistryLoads ==
    ASSUME Backend # "ftp"
    PROVE  Spec => []StoredRegistryLoads
<1>1. Init => Sound /\ Locked
  BY SoundInit, LockedInit DEF Init
<1>2. Sound /\ Locked /\ LockExclusive /\ [Next]_vars => (Sound /\ Locked)'
  BY SoundStep, SystemLockedStep
<1>3. Locked => StoredRegistryLoads
  BY DEF Locked
<1> QED
  BY <1>1, <1>2, <1>3, SystemLockIsExclusive, PTL DEF Spec

LEMMA SystemLocked == Spec => ([]LockExclusive => [](Sound /\ Locked))
<1>1. Init => Sound /\ Locked
  BY SoundInit, LockedInit DEF Init
<1>2. Sound /\ Locked /\ LockExclusive /\ [Next]_vars => (Sound /\ Locked)'
  BY SoundStep, SystemLockedStep
<1> QED
  BY <1>1, <1>2, PTL DEF Spec

\* No command undoes another's registration or mark, although each writes the whole
\* registry file: backups, retention and rebuilds may interleave, fail and die.
THEOREM SystemUpdatesAreKept ==
    ASSUME Backend # "ftp"
    PROVE  Spec => NoLostUpdate
<1>1. Sound /\ Locked /\ [Next]_vars => [EntriesKept]_store
  BY ServiceOrOutside, EntriesKeptStep DEF Outside
<1> QED
  BY <1>1, SystemLocked, SystemLockIsExclusive, PTL DEF Spec, NoLostUpdate

----------------------------------------------------------------------------
(***************************************************************************)
(* To the commands the registry is atomic.                                 *)
(***************************************************************************)
\* What is stored or deleted without the lock is nothing the registry's callers see.
LEMMA OutsideSilent ==
    ASSUME EffectKnown, Outside
    PROVE  EffectKnown' /\ UNCHANGED Atomic!vars
<1>1. UNCHANGED <<store, phase, op, arg, buf, outcome, took>>
  BY DEF Outside, call
<1> QED
  BY <1>1 DEF EffectKnown, Atomic!vars

LEMMA SystemRefines ==
    ASSUME Sound, Locked, EffectKnown, LockExclusive, [Next]_vars
    PROVE  EffectKnown' /\ [Atomic!Next]_Atomic!vars
<1>1. CASE [ServiceNext]_serviceVars
  BY <1>1, EffectStep, StepRefines DEF Sound
<1>2. CASE Outside
  BY <1>2, OutsideSilent
<1> QED
  BY <1>1, <1>2, ServiceOrOutside

\* The program implements the abstract registry as its commands use it: as long as
\* the lock excludes, each Load, Append and MarkDeleted of a backup, a retention, a
\* restore or a list acts in one instant, at most once, whatever the other commands
\* do to the registry and the archives, and however they fail, are cancelled or die.
THEOREM SystemAtomicWhileExclusive == Spec => ([]LockExclusive => CallsAreAtomic)
<1>1. Init => EffectKnown /\ Atomic!Init
  BY InitRefines DEF Init
<1>2. Sound /\ Locked /\ EffectKnown /\ LockExclusive /\ [Next]_vars
         => EffectKnown' /\ [Atomic!Next]_Atomic!vars
  BY SystemRefines
<1> QED
  BY <1>1, <1>2, SystemLocked, PTL DEF Spec, CallsAreAtomic, Atomic!Spec

\* With a file system or s3 that is always so.
THEOREM SystemCallsActAtomically ==
    ASSUME Backend # "ftp"
    PROVE  Spec => CallsAreAtomic
BY SystemAtomicWhileExclusive, SystemLockIsExclusive, PTL

----------------------------------------------------------------------------
(***************************************************************************)
(* What is in the registry, and what is said to be.                        *)
(***************************************************************************)
HasEntry(reg, e) == \E x \in reg : SameBackup(x, e)

InRegistry(e) == HasEntry(Contents(store), e)

\* What a call answers is so: it has loaded entries of the registry, or appended one.
Answered ==
    \A p \in Clients : outcome[p] = "ok" =>
        /\ op[p] \in {"load", "recover"} => \A e \in buf[p] : InRegistry(e)
        /\ op[p] = "append" => InRegistry(arg[p])

\* What commands rely on is in the registry.
Known ==
    /\ Answered
    /\ \A e \in made : InRegistry(e)
    /\ \A p \in Clients : /\ \A v \in victims[p] \cup gone[p] : InRegistry(v)
                          /\ pc[p] = "fetch" => InRegistry(entry[p])

LEMMA KnownInit == Init => Known
BY DEF Init, ServiceInit, Known, Answered

\* Entries stay in the registry, for the backups they were made for.
LEMMA InRegistryStays ==
    ASSUME Sound, Locked, [Next]_vars, NEW e, InRegistry(e)
    PROVE  HasEntry(Contents(store'), e)
<1>1. store' = store \/ EntriesKept
  BY ServiceOrOutside, EntriesKeptStep DEF Outside
<1>2. CASE store' = store
  BY <1>2 DEF InRegistry
<1>3. CASE EntriesKept
  <2>1. PICK x \in Contents(store) : SameBackup(x, e)
    BY DEF InRegistry, HasEntry
  <2>2. PICK y \in Contents(store') : SameBackup(y, x)
    BY <1>3, <2>1 DEF EntriesKept
  <2> QED
    BY <2>1, <2>2 DEF HasEntry, SameBackup
<1> QED
  BY <1>1, <1>2, <1>3

\* A call that turns out well has just loaded, or just saved, what it answers.
LEMMA CallAnswers ==
    ASSUME Sound, Locked, NEW p \in Clients, CallStep(p), outcome'[p] = "ok"
    PROVE  \/ outcome[p] = "ok" /\ buf'[p] = buf[p]
           \/ op[p] \in {"load", "recover"} /\ buf'[p] = Contents(store')
           \/ op[p] = "append" /\ arg[p] \in Contents(store')
           \/ op[p] = "mark"
<1> USE DEF Sound, Typed, ServiceTypeOK
<1>0. outcome[p] = "ok" => phase[p] \in {"unlock", "done"}
  BY DEF Tasks, TaskOf
<1>1. CASE AcquireLock(p) \/ StatLock(p) \/ RenameLock(p) \/ LockFails(p)
           \/ ReleaseLock(p) \/ UnlockFails(p)
  BY <1>1 DEF AcquireLock, StatLock, RenameLock, LockFails, ReleaseLock, UnlockFails, Finish
<1>2. CASE DownloadFound(p)
  <2>1. LoadDone(p, store) /\ store' = store /\ Contents(store) = store
    BY <1>0, <1>2 DEF DownloadFound, AppendTo, MarkIn, Finish, Contents, storage
  <2> QED
    BY <2>1 DEF LoadDone
<1>3. CASE DownloadMissing(p) \/ ListObjects(p)
  <2>1. LoadDone(p, {}) /\ store' = store
    BY <1>0, <1>3 DEF DownloadMissing, ListObjects, AppendTo, MarkIn, Finish, storage
  <2>2. Contents(store) = {}
    BY <1>3 DEF DownloadMissing, ListObjects, Contents, Locked, Current, CurrentFor
  <2> QED
    BY <2>1, <2>2 DEF LoadDone
<1>4. CASE ParseFails(p) \/ CallFails(p) \/ UploadAmbiguous(p) \/ ReplaceFails(p)
           \/ StoreTemp(p) \/ TempStored(p)
  BY <1>0, <1>4 DEF ParseFails, CallFails, UploadAmbiguous, ReplaceFails, StoreTemp, TempStored,
                    Finish
<1>5. CASE UploadRegistry(p) \/ RenameTemp(p)
  <2>1. phase[p] \in Writing /\ store' = buf[p] /\ buf'[p] = buf[p]
    BY <1>5 DEF UploadRegistry, RenameTemp, Writing, Locked, TempOwned
  <2>2. Contents(store') = buf[p]
    BY <2>1, EntriesAreARegistry
  <2> QED
    BY <2>1, <2>2 DEF Locked, Current, CurrentFor
<1> QED
  BY <1>1, <1>2, <1>3, <1>4, <1>5 DEF CallStep

\* What a command picks up in a step is what its call has answered.
LEMMA PicksUp ==
    ASSUME Sound, NEW p \in Clients, ClientStep(p)
    PROVE  /\ made' \subseteq made \cup
                  (IF outcome[p] = "ok" /\ op[p] = "append" THEN {arg[p]} ELSE {})
           /\ victims'[p] \cup gone'[p] \subseteq victims[p] \cup gone[p] \cup
                  (IF outcome[p] = "ok" /\ op[p] \in {"load", "recover"} THEN buf[p] ELSE {})
           /\ pc'[p] = "fetch" =>
                 \/ pc[p] = "fetch" /\ entry'[p] = entry[p]
                 \/ outcome[p] = "ok" /\ op[p] \in {"load", "recover"} /\ entry'[p] \in buf[p]
<1> USE DEF Sound, GoTo, TaskTyped
<1> TaskOf(p)
  BY DEF Tasks
<1>1. CASE Exit(p)
  <2>1. pc'[p] = "idle" /\ victims'[p] = {} /\ gone'[p] = {}
    BY <1>1, ExitTyped
  <2>2. made' = made \/ BackupRegistered(p)
    BY <1>1
       DEF ClientStep, CommandStep, StartCommand, CancelCommand, NextCommand, CrashCommand,
           UploadBackup, UploadFails, RegisterBackup, LoadForRetention, PlanRetention,
           DeleteBackup, DeleteFails, DeletesDone, MarkNext, MarkReturned, RetentionDone,
           ListDone, SelectLatest, SelectByID, Fetch, RegistryStep, StartBackup,
           StartRetention, StartList, StartRestore, worldVars
  <2> QED
    BY <2>1, <2>2 DEF BackupRegistered, TaskOf
<1>2. CASE ~Exit(p)
  <2>1. CASE StartBackup(p) \/ StartRetention(p) \/ DeletesDone(p) \/ UploadBackup(p)
    BY <2>1 DEF StartBackup, StartRetention, DeletesDone, UploadBackup, worldVars
  <2>2. CASE \/ RegisterBackup(p) \/ LoadForRetention(p) \/ MarkNext(p) \/ StartList(p)
             \/ StartRestore(p) \/ MarkReturned(p)
    BY <1>2, <2>2 DEF RegisterBackup, LoadForRetention, MarkNext, StartList, StartRestore,
                      MarkReturned, worldVars
  <2>3. CASE DeleteBackup(p) \/ DeleteFails(p)
    BY <1>2, <2>3 DEF DeleteBackup, DeleteFails, NextOf, worldVars
  <2>4. CASE BackupRegistered(p)
    BY <1>2, <2>4 DEF BackupRegistered, TaskOf
  <2>5. CASE PlanRetention(p)
    <3>1. PICK V \in P!ToRemove(Ready(buf[p]), policy[p], clock) :
              victims' = [victims EXCEPT ![p] = V]
      BY <1>2, <2>5 DEF PlanRetention
    <3>2. V \subseteq buf[p]
      BY VictimsAreGiven DEF Ready
    <3> QED
      BY <1>2, <2>5, <3>1, <3>2 DEF PlanRetention, TaskOf, worldVars
  <2>6. CASE SelectLatest(p) \/ SelectByID(p)
    BY <1>2, <2>6 DEF SelectLatest, SelectByID, NextOf, Ready, TaskOf, worldVars
  <2>7. CASE RegistryStep(p) \/ CancelCommand(p) \/ NextCommand(p)
    BY <2>7 DEF RegistryStep, CancelCommand, NextCommand, taskVars, worldVars
  <2> QED
    BY <1>2, <2>1, <2>2, <2>3, <2>4, <2>5, <2>6, <2>7
       DEF ClientStep, CommandStep, StartCommand, UploadFails, RetentionDone, Fetch, ListDone,
           CrashCommand
<1> QED
  BY <1>1, <1>2

LEMMA AnsweredStep ==
    ASSUME Sound, Locked, Answered, NEW p \in Clients, ClientStep(p), [Next]_vars
    PROVE  Answered'
<1> USE DEF Sound
<1>1. ASSUME NEW q \in Clients, outcome'[q] = "ok",
             outcome[q] = "ok", op'[q] = op[q], arg'[q] = arg[q], buf'[q] = buf[q]
      PROVE  /\ op'[q] \in {"load", "recover"} => \A e \in buf'[q] : HasEntry(Contents(store'), e)
             /\ op'[q] = "append" => HasEntry(Contents(store'), arg'[q])
  BY <1>1, InRegistryStays DEF Answered
<1>2. ASSUME outcome'[p] = "ok"
      PROVE  /\ op'[p] \in {"load", "recover"} => \A e \in buf'[p] : HasEntry(Contents(store'), e)
             /\ op'[p] = "append" => HasEntry(Contents(store'), arg'[p])
  <2>1. CASE RegistryStep(p)
    <3>1. CallStep(p) /\ op' = op /\ arg' = arg
      BY <2>1, CallStepShape DEF RegistryStep
    <3>2. CASE outcome[p] = "ok" /\ buf'[p] = buf[p]
      BY <1>1, <1>2, <3>1, <3>2
    <3>3. CASE op[p] \in {"load", "recover"} /\ buf'[p] = Contents(store')
      BY <3>1, <3>3 DEF HasEntry, SameBackup
    <3>4. CASE op[p] = "append" /\ arg[p] \in Contents(store')
      BY <3>1, <3>4 DEF HasEntry, SameBackup
    <3> QED
      BY <1>2, <3>1, <3>2, <3>3, <3>4, CallAnswers
  <2>2. CASE ~RegistryStep(p)
    <3>1. outcome[p] = "ok" /\ op'[p] = op[p] /\ arg'[p] = arg[p] /\ buf'[p] = buf[p]
      BY <1>2, <2>2, ForgetShape
         DEF ClientStep, CommandStep, StartCommand, CancelCommand, NextCommand, CrashCommand,
             UploadBackup, UploadFails, RegisterBackup, BackupRegistered, LoadForRetention,
             PlanRetention, DeleteBackup, DeleteFails, DeletesDone, MarkNext, MarkReturned,
             RetentionDone, ListDone, SelectLatest, SelectByID, Fetch, StartBackup,
             StartRetention, StartList, StartRestore, serviceVars, call, Cancel, Renew, Crash,
             Return, Invoke, Tasks, TaskOf
    <3> QED
      BY <1>1, <1>2, <3>1
  <2> QED
    BY <2>1, <2>2
<1>3. ASSUME NEW q \in Clients \ {p}, outcome'[q] = "ok"
      PROVE  /\ op'[q] \in {"load", "recover"} => \A e \in buf'[q] : HasEntry(Contents(store'), e)
             /\ op'[q] = "append" => HasEntry(Contents(store'), arg'[q])
  BY <1>1, <1>3, StepOfOne DEF OnlyOf
<1> QED
  BY <1>2, <1>3 DEF Answered, InRegistry

LEMMA KnownStep == Sound /\ Locked /\ Known /\ [Next]_vars => Known'
<1> SUFFICES ASSUME Sound, Locked, Known, [Next]_vars PROVE Known'
  OBVIOUS
<1>1. ASSUME UNCHANGED <<store, call, taskVars, made>> PROVE Known'
  BY <1>1 DEF Known, Answered, InRegistry, call, taskVars
<1>2. ASSUME NEW p \in Clients, ClientStep(p) PROVE Known'
  <2>1. Answered'
    BY <1>2, AnsweredStep DEF Known
  <2>2. ASSUME NEW e \in made' PROVE HasEntry(Contents(store'), e)
    <3>1. e \in made \/ (outcome[p] = "ok" /\ op[p] = "append" /\ e = arg[p])
      BY <1>2, PicksUp
    <3> QED
      BY <3>1, InRegistryStays DEF Known, Answered
  <2>3. ASSUME NEW v \in victims'[p] \cup gone'[p] PROVE HasEntry(Contents(store'), v)
    <3>1. \/ v \in victims[p] \cup gone[p]
          \/ outcome[p] = "ok" /\ op[p] \in {"load", "recover"} /\ v \in buf[p]
      BY <1>2, PicksUp
    <3> QED
      BY <3>1, InRegistryStays DEF Known, Answered
  <2>4. ASSUME pc'[p] = "fetch" PROVE HasEntry(Contents(store'), entry'[p])
    <3>1. \/ pc[p] = "fetch" /\ entry'[p] = entry[p]
          \/ outcome[p] = "ok" /\ op[p] \in {"load", "recover"} /\ entry'[p] \in buf[p]
      BY <1>2, <2>4, PicksUp
    <3>2. PICK e : e = entry'[p]
      OBVIOUS
    <3>3. InRegistry(e)
      BY <3>1, <3>2 DEF Known, Answered
    <3> QED
      BY <3>2, <3>3, InRegistryStays
  <2>5. ASSUME NEW q \in Clients \ {p}
        PROVE  /\ \A v \in victims'[q] \cup gone'[q] : HasEntry(Contents(store'), v)
               /\ pc'[q] = "fetch" => HasEntry(Contents(store'), entry'[q])
    <3>1. OnlyOf(p)
      BY <1>2, StepOfOne
    <3> QED
      BY <3>1, InRegistryStays DEF OnlyOf, Known
  <2> QED
    BY <2>1, <2>2, <2>3, <2>4, <2>5 DEF Known, InRegistry
<1> QED
  BY <1>1, <1>2 DEF Next, ClientStep, Tick, vars, serviceVars, storage, worldVars

LEMMA KnownWhileExclusive == Spec => ([]LockExclusive => []Known)
<1>1. Init => Known
  BY KnownInit
<1>2. Sound /\ Locked /\ Known /\ [Next]_vars => Known'
  BY KnownStep
<1> QED
  BY <1>1, <1>2, SystemLocked, PTL DEF Spec

\* A backup that was reported to have succeeded is in the registry from then on, with
\* its time, setting and digest, and so is all that retention has picked and a restore
\* has selected: for any policies, and also for backups that start in one second.
THEOREM AcknowledgedStaysRegistered ==
    ASSUME Backend # "ftp"
    PROVE  Spec => [](/\ \A e \in made : InRegistry(e)
                      /\ \A p \in Clients :
                            /\ \A v \in victims[p] \cup gone[p] : InRegistry(v)
                            /\ pc[p] = "fetch" => InRegistry(entry[p]))
<1>1. Known => /\ \A e \in made : InRegistry(e)
               /\ \A p \in Clients :
                     /\ \A v \in victims[p] \cup gone[p] : InRegistry(v)
                     /\ pc[p] = "fetch" => InRegistry(entry[p])
  BY DEF Known
<1> QED
  BY <1>1, KnownWhileExclusive, SystemLockIsExclusive, PTL

----------------------------------------------------------------------------
(***************************************************************************)
(* The two things a step may do to the storage.                            *)
(***************************************************************************)
Uploads(p) ==
    /\ pc[p] = "upload" /\ pc'[p] # "upload"
    /\ objects' = [objects EXCEPT ![FileOf(entry[p])] = entry[p].sha]

Deletes(p) == \E v \in victims[p] : objects' = [objects EXCEPT ![FileOf(v)] = NoObject]

\* Backup objects are stored by the command that makes the backup, and deleted by
\* retention, neither of which writes the registry.
LEMMA ObjectsStep ==
    ASSUME Sound, [Next]_vars, objects' # objects
    PROVE  store' = store /\ \E p \in Clients : Uploads(p) \/ Deletes(p)
<1> USE DEF Sound
<1>1. ASSUME NEW p \in Clients, UploadBackup(p) \/ UploadFails(p)
      PROVE  Uploads(p) /\ store' = store
  <2>1. pc'[p] # "upload"
    BY <1>1, ExitTyped DEF UploadBackup, UploadFails, GoTo, TaskTyped
  <2> QED
    BY <1>1, <2>1 DEF UploadBackup, UploadFails, Uploads
<1>2. ASSUME NEW p \in Clients, DeleteBackup(p) \/ DeleteFails(p)
      PROVE  Deletes(p) /\ store' = store
  BY <1>2 DEF DeleteBackup, DeleteFails, Deletes, NextOf
<1>3. ASSUME NEW p \in Clients,
             \/ BackupRegistered(p) \/ PlanRetention(p) \/ MarkReturned(p) \/ ListDone(p)
             \/ SelectLatest(p) \/ SelectByID(p)
      PROVE  FALSE
  BY <1>3 DEF BackupRegistered, PlanRetention, MarkReturned, ListDone, SelectLatest,
              SelectByID, Return, storage
<1>4. ASSUME NEW p \in Clients,
             \/ RegisterBackup(p) \/ LoadForRetention(p) \/ MarkNext(p) \/ StartList(p)
             \/ StartRestore(p) \/ CancelCommand(p) \/ NextCommand(p) \/ CrashCommand(p)
      PROVE  FALSE
  BY <1>4 DEF RegisterBackup, LoadForRetention, MarkNext, StartList, StartRestore,
              CancelCommand, NextCommand, CrashCommand, Cancel, Renew, Crash, Invoke, storage
<1>5. ASSUME NEW p \in Clients,
             \/ StartBackup(p) \/ StartRetention(p) \/ DeletesDone(p) \/ RetentionDone(p)
             \/ Fetch(p)
      PROVE  FALSE
  BY <1>5 DEF StartBackup, StartRetention, DeletesDone, RetentionDone, Fetch, serviceVars, storage
<1>6. ASSUME NEW p \in Clients, RegistryStep(p) PROVE FALSE
  BY <1>6, CallStepShape DEF RegistryStep
<1> QED
  BY <1>1, <1>2, <1>3, <1>4, <1>5, <1>6
     DEF Next, CommandStep, StartCommand, Tick, vars, serviceVars, storage

Appends(p) ==
    /\ pc[p] = "appending"
    /\ CanAppend(Contents(store), entry[p])
    /\ Contents(store') = Contents(store) \cup {entry[p]}

Marks(p) ==
    /\ arg[p] \in gone[p]
    /\ Contents(store') = Marked(Contents(store), arg[p])

Rebuilds(p) ==
    /\ phase[p] \in Writing /\ op[p] = "recover"
    /\ Contents(store) = {} /\ Contents(store') = buf[p] /\ Valid(buf[p])

\* The registry is written in one step of a call, which appends the backup just
\* made, marks one that is gone, or lists the archives when there was no registry.
LEMMA StoreStep ==
    ASSUME Sound, Locked, [Next]_vars, store' # store
    PROVE  /\ UNCHANGED <<objects, taskVars, worldVars>>
           /\ \E p \in Clients : Appends(p) \/ Marks(p) \/ Rebuilds(p)
<1>1. PICK p \in Clients : phase[p] \in Writing /\ store' = buf[p]
  BY ServiceOrOutside, OnlySavesWrite DEF Outside
<1>2. objects' = objects
  BY ObjectsStep
<1>3. PICK q \in Clients : RegistryStep(q)
  <2>1. ASSUME NEW q \in Clients, ClientStep(q), ~RegistryStep(q) PROVE FALSE
    <3>1. \/ storage' = storage
          \/ UploadBackup(q) \/ UploadFails(q) \/ DeleteBackup(q) \/ DeleteFails(q)
      BY <2>1
         DEF ClientStep, CommandStep, StartCommand, CancelCommand, NextCommand, CrashCommand,
             RegisterBackup, BackupRegistered, LoadForRetention, PlanRetention, DeletesDone,
             MarkNext, MarkReturned, RetentionDone, ListDone, SelectLatest, SelectByID, Fetch,
             StartBackup, StartRetention, StartList, StartRestore, Invoke, Return, Cancel,
             Renew, Crash, serviceVars
    <3> QED
      BY <3>1 DEF UploadBackup, UploadFails, DeleteBackup, DeleteFails, storage
  <2> QED
    BY <2>1 DEF Next, ClientStep, Tick, vars, serviceVars, storage
<1>4. UNCHANGED <<taskVars, worldVars>>
  BY <1>3 DEF RegistryStep
<1>5. Contents(store') = buf[p]
  BY <1>1, EntriesAreARegistry DEF Sound, Typed, ServiceTypeOK
<1>6. TaskOf(p) /\ phase[p] # "idle"
  BY <1>1 DEF Sound, Tasks, Writing
<1>7. ASSUME op[p] = "append", CanAppend(Contents(store), arg[p]),
             buf[p] = Contents(store) \cup {arg[p]}
      PROVE  Appends(p)
  BY <1>5, <1>6, <1>7 DEF TaskOf, Calling, Appends
<1>8. ASSUME op[p] = "mark", buf[p] = Marked(Contents(store), arg[p])
      PROVE  Marks(p)
  BY <1>5, <1>6, <1>8 DEF TaskOf, Calling, Marks
<1>9. ASSUME op[p] = "recover", store = NoRegistry
      PROVE  Rebuilds(p)
  BY <1>1, <1>5, <1>9, WrittenIsValid DEF Rebuilds, Contents
<1> QED
  BY <1>1, <1>2, <1>4, <1>7, <1>8, <1>9 DEF Locked, Current, CurrentFor

\* A backup is in the making since its command has started it, and uploaded once.
LEMMA MakingStep ==
    ASSUME Sound, NEW p \in Clients, ClientStep(p), pc'[p] \in Making
    PROVE  \/ StartBackup(p)
           \/ /\ pc[p] \in Making /\ entry'[p] = entry[p]
              /\ UNCHANGED <<started, clock>>
              /\ pc[p] = "upload" /\ pc'[p] # "upload" => UploadBackup(p)
              /\ pc'[p] = "upload" => pc[p] = "upload"
<1> USE DEF Sound, GoTo, Making
<1>1. ~Exit(p)
  BY ExitTyped
<1>2. CASE \/ RegisterBackup(p) \/ UploadBackup(p) \/ RegistryStep(p) \/ CancelCommand(p)
           \/ NextCommand(p)
  BY <1>2 DEF RegisterBackup, UploadBackup, RegistryStep, CancelCommand, NextCommand,
              TaskTyped, taskVars, worldVars
<1>3. CASE \/ BackupRegistered(p) \/ PlanRetention(p) \/ MarkReturned(p) \/ SelectLatest(p)
           \/ SelectByID(p) \/ DeleteBackup(p) \/ DeleteFails(p) \/ DeletesDone(p)
           \/ MarkNext(p) \/ LoadForRetention(p) \/ StartRetention(p) \/ StartList(p)
           \/ StartRestore(p)
  BY <1>1, <1>3 DEF BackupRegistered, PlanRetention, MarkReturned, SelectLatest, SelectByID,
              DeleteBackup, DeleteFails, DeletesDone, MarkNext, LoadForRetention,
              StartRetention, StartList, StartRestore, TaskTyped
<1> QED
  BY <1>1, <1>2, <1>3
     DEF ClientStep, CommandStep, StartCommand, UploadFails, RetentionDone, ListDone, Fetch,
         CrashCommand

----------------------------------------------------------------------------
(***************************************************************************)
(* Each instant has one backup, and each name those that have started.     *)
(***************************************************************************)
\* Some backup that has started has the name f.
StartedAs(f) == \E s \in started : NameOf(s) = f

\* What is known of the backup that p is making: its instant is its own, and before
\* its upload nothing has its name, unless it shares that name with another.
OwnInstant(p) ==
    /\ entry[p].created \in Readings
    /\ <<entry[p].created, entry[p].enc>> \in started
    /\ \A q \in Clients \ {p} : pc[q] \in Making => entry[q].created # entry[p].created
    /\ pc[p] = "upload" /\ ~Shared(FileOf(entry[p])) =>
          /\ FileOf(entry[p]) \notin Stored
          /\ \A e \in Contents(store) : FileOf(e) # FileOf(entry[p])

\* An instant's only entry in a registry.
OnePerInstant(reg) == \A a, b \in reg : a.created = b.created => a = b

OneEntryPerInstant == OnePerInstant(Contents(store))

\* An entry is of a backup that has started; a rebuilt one knows only its second.
EntryStarted(e) ==
    /\ StartedAs(FileOf(e))
    /\ e.created \in Readings => <<e.created, e.enc>> \in started

\* What a rebuild makes of the name of an archive that is there.
IsRebuilt(e) ==
    /\ Present(e) /\ e.status = "ready" /\ e.sha = Unknown
    /\ SecondOf[e.created] = e.created

\* While the registry is being rebuilt, what List has found is still there.
Relisted ==
    \A p \in Clients : phase[p] \in Writing /\ op[p] = "recover" =>
        \A e \in buf[p] : IsRebuilt(e)

Names ==
    /\ \A s, t \in started : s[1] \in Readings /\ s[1] = t[1] => s = t
    /\ \A f \in Stored : StartedAs(f)
    /\ \A e \in Contents(store) : EntryStarted(e)
    /\ OneEntryPerInstant
    /\ \A p \in Clients : pc[p] \in Making => OwnInstant(p)

LEMMA RelistedInit == Init => Relisted
BY DEF Init, ServiceInit, Relisted, Writing

LEMMA NamesInit == Init => Names
<1> SUFFICES ASSUME Init PROVE Names
  OBVIOUS
<1>1. \A f \in Files : SecondOf[f[1]] = f[1] /\ NameOf(f) = f
  BY DomainAssumption DEF Files, NameOf
<1>2. started = Stored /\ Stored \in SUBSET Files
  BY DEF Init, Stored
<1>3. Contents(store) = {} /\ \A p \in Clients : pc[p] \notin Making
  BY DEF Init, ServiceInit, Contents, Making
<1>4. \A s \in started : s[1] \notin Readings
  BY <1>1, <1>2 DEF Readings
<1>5. \A f \in Stored : StartedAs(f)
  BY <1>1, <1>2 DEF StartedAs
<1> QED
  BY <1>3, <1>4, <1>5 DEF Names, OneEntryPerInstant, OnePerInstant

\* The registry file, while it loads, holds entries.
LEMMA ContentsAreEntries ==
    ASSUME Sound, Locked
    PROVE  Contents(store) \in SUBSET Entry
BY ContentsTyped DEF Locked, StoredRegistryLoads, Sound, Typed, ServiceTypeOK, FileContents

\* Without a registry nothing is known, and retention has nothing to delete.
LEMMA NothingToDelete ==
    ASSUME Known, Contents(store) = {}
    PROVE  \A p \in Clients : victims[p] = {} /\ gone[p] = {}
BY DEF Known, InRegistry, HasEntry

\* rebuild makes a ready entry, of unknown digest, of each object it finds.
LEMMA RebuildFindsWhatIs ==
    ASSUME NEW F \in SUBSET Stored, NEW e \in Rebuilt(F)
    PROVE  IsRebuilt(e)
<1>1. PICK f \in F : e = NewEntry(f[1], f[2], Unknown)
  BY DEF Rebuilt
<1>2. f \in Files /\ objects[f] # NoObject
  BY DEF Stored
<1>3. f = <<f[1], f[2]>> /\ SecondOf[f[1]] = f[1]
  BY <1>2, DomainAssumption DEF Files
<1>4. FileOf(e) = f
  BY <1>1, <1>3 DEF NewEntry, FileOf
<1> QED
  BY <1>1, <1>2, <1>3, <1>4 DEF NewEntry, Present, IsRebuilt

LEMMA RelistedStep ==
    ASSUME Sound, Locked, Known, Relisted, [Next]_vars
    PROVE  Relisted'
<1> USE DEF Sound
<1>1. ASSUME NEW q \in Clients, NEW e, phase[q] \in Writing, op[q] = "recover", e \in buf[q]
      PROVE  objects'[FileOf(e)] # NoObject
  <2>1. Contents(store) = {}
    BY <1>1 DEF Locked, Current, CurrentFor, Contents, Writing
  <2>2. e \in Entry /\ Present(e)
    BY <1>1 DEF Relisted, IsRebuilt, Typed, ServiceTypeOK
  <2>3. CASE objects' = objects
    BY <2>2, <2>3 DEF Present
  <2>4. ASSUME NEW p \in Clients, Uploads(p)
        PROVE  objects'[FileOf(e)] # NoObject
    <3>1. entry[p].sha \in Digests
      BY <2>4 DEF Uploads, Tasks, TaskOf, Making, NewEntries
    <3> QED
      BY <2>2, <2>4, <3>1, EntryFile, ServiceAssumption
         DEF Uploads, Present, Typed, ServiceTypeOK
  <2>5. ASSUME NEW p \in Clients, Deletes(p)
        PROVE  FALSE
    BY <2>1, <2>5, NothingToDelete DEF Deletes
  <2> QED
    BY <2>3, <2>4, <2>5, ObjectsStep
<1>2. ASSUME NEW q \in Clients, NEW e, phase'[q] \in Writing, op'[q] = "recover", e \in buf'[q],
             ~(phase[q] \in Writing /\ op[q] = "recover" /\ e \in buf[q])
      PROVE  objects' = objects /\ IsRebuilt(e)
  <2>1. ASSUME NEW p \in Clients \ {q}, ClientStep(p) PROVE FALSE
    BY <1>2, <2>1, StepOfOne DEF OnlyOf
  <2>2. ClientStep(q)
    BY <1>2, <2>1 DEF Next, ClientStep, Tick, vars, serviceVars, call
  <2>3. RegistryStep(q)
    <3>1. CASE UNCHANGED call
      BY <1>2, <3>1 DEF call
    <3>2. CASE \E o, e2 : Invoke(q, o, e2)
      BY <1>2, <3>2 DEF Invoke, Sound, Typed, ServiceTypeOK, Writing
    <3>3. CASE Forget(q)
      BY <1>2, <3>3, ForgetShape DEF Sound, Writing
    <3> QED
      BY <2>2, <3>1, <3>2, <3>3
         DEF ClientStep, CommandStep, StartCommand, CancelCommand, NextCommand, CrashCommand,
             UploadBackup, UploadFails, RegisterBackup, BackupRegistered, LoadForRetention,
             PlanRetention, DeleteBackup, DeleteFails, DeletesDone, MarkNext, MarkReturned,
             RetentionDone, ListDone, SelectLatest, SelectByID, Fetch, StartBackup,
             StartRetention, StartList, StartRestore, serviceVars, Cancel, Renew, Crash, Return
  <2>4. CallStep(q) /\ op[q] = "recover" /\ objects' = objects
    BY <1>2, <2>3, CallStepShape DEF RegistryStep
  <2>5. /\ Stored # {} /\ buf' = [buf EXCEPT ![q] = Rebuilt(Stored)]
    <3>1. CASE AcquireLock(q) \/ StatLock(q) \/ RenameLock(q) \/ LockFails(q)
               \/ ReleaseLock(q) \/ UnlockFails(q) \/ ParseFails(q) \/ CallFails(q)
               \/ UploadRegistry(q) \/ UploadAmbiguous(q) \/ RenameTemp(q) \/ ReplaceFails(q)
      BY <1>2, <3>1
         DEF AcquireLock, StatLock, RenameLock, LockFails, ReleaseLock, UnlockFails,
             ParseFails, CallFails, UploadRegistry, UploadAmbiguous, RenameTemp,
             ReplaceFails, Finish, Typed, ServiceTypeOK, Writing
    <3>2. CASE StoreTemp(q) \/ TempStored(q)
      BY <1>2, <2>4, <3>2 DEF StoreTemp, TempStored, Writing
    <3>3. CASE DownloadFound(q) \/ DownloadMissing(q)
      BY <1>2, <2>4, <3>3
         DEF DownloadFound, DownloadMissing, LoadDone, AppendTo, MarkIn, Finish, Typed,
             ServiceTypeOK, Writing
    <3>4. CASE ListObjects(q)
      BY <1>2, <3>4 DEF ListObjects, LoadDone, Finish, Typed, ServiceTypeOK, Writing
    <3> QED
      BY <2>4, <3>1, <3>2, <3>3, <3>4 DEF CallStep
  <2> QED
    BY <1>2, <2>4, <2>5, RebuildFindsWhatIs DEF Typed, ServiceTypeOK
<1>3. ASSUME NEW q \in Clients, phase'[q] \in Writing, op'[q] = "recover", NEW e, e \in buf'[q]
      PROVE  IsRebuilt(e)'
  <2>1. CASE phase[q] \in Writing /\ op[q] = "recover" /\ e \in buf[q]
    BY <1>1, <2>1 DEF Relisted, IsRebuilt, Present
  <2>2. CASE ~(phase[q] \in Writing /\ op[q] = "recover" /\ e \in buf[q])
    BY <1>2, <1>3, <2>2 DEF IsRebuilt, Present
  <2> QED
    BY <2>1, <2>2
<1> QED
  BY <1>3 DEF Relisted

\* Each step's registry is made of the entries there were, for the same backups, of
\* the backup just made, or of archives that are there.
LEMMA EntriesComeFrom ==
    ASSUME Sound, Locked, Relisted, [Next]_vars, NEW y \in Contents(store')
    PROVE  \/ \E x \in Contents(store) : SameBackup(y, x)
           \/ \E p \in Clients : Appends(p) /\ y = entry[p]
           \/ (\E p \in Clients : Rebuilds(p)) /\ IsRebuilt(y)
<1>0. Contents(store) \in SUBSET Entry
  BY ContentsAreEntries
<1>1. CASE store' = store
  BY <1>1 DEF SameBackup
<1>2. ASSUME NEW p \in Clients, Appends(p)
      PROVE  y \in Contents(store) \/ y = entry[p]
  BY <1>2 DEF Appends
<1>3. ASSUME NEW p \in Clients, Marks(p)
      PROVE  \E x \in Contents(store) : SameBackup(y, x)
  BY <1>0, <1>3, MarkedFrom DEF Marks
<1>4. ASSUME NEW p \in Clients, Rebuilds(p)
      PROVE  IsRebuilt(y)
  BY <1>4 DEF Rebuilds, Relisted
<1> QED
  BY <1>1, <1>2, <1>3, <1>4, StoreStep DEF SameBackup

LEMMA NextIsTyped ==
    ASSUME Sound, Locked, Locked', NEW y \in Contents(store')
    PROVE  y \in Entry
BY ContentsTyped DEF Locked, StoredRegistryLoads, Typed, ServiceTypeOK, FileContents

\* Only a backup starts a backup.
LEMMA OnlyStartsStart ==
    ASSUME Sound, [Next]_vars
    PROVE  started' = started \/ \E q \in Clients : StartBackup(q)
<1>1. ASSUME NEW p \in Clients, ClientStep(p), ~StartBackup(p)
      PROVE  started' = started
  BY <1>1
     DEF ClientStep, CommandStep, StartCommand, CancelCommand, NextCommand, CrashCommand,
         UploadBackup, UploadFails, RegisterBackup, BackupRegistered, LoadForRetention,
         PlanRetention, DeleteBackup, DeleteFails, DeletesDone, MarkNext, MarkReturned,
         RetentionDone, ListDone, SelectLatest, SelectByID, Fetch,
         StartRetention, StartList, StartRestore, RegistryStep, worldVars
<1> QED
  BY <1>1 DEF Next, ClientStep, Tick, vars, worldVars

\* What has started has started.
LEMMA StartedStays ==
    ASSUME Sound, [Next]_vars
    PROVE  started \subseteq started'
BY OnlyStartsStart DEF StartBackup

\* So a name that two backups share they go on sharing, and an entry's stays one of
\* a backup that has started.
LEMMA SharedStays ==
    ASSUME Sound, [Next]_vars, NEW f
    PROVE  /\ Shared(f) => Shared(f)'
           /\ StartedAs(f) => StartedAs(f)'
BY StartedStays DEF Shared, StartedAs, NameOf

\* Marking changes the status of entries, and the instants of none.
LEMMA MarkedOnePerInstant ==
    ASSUME NEW reg \in SUBSET Entry, NEW e, OnePerInstant(reg)
    PROVE  OnePerInstant(Marked(reg, e))
<1> SUFFICES ASSUME NEW a \in Marked(reg, e), NEW b \in Marked(reg, e),
                    a.created = b.created
             PROVE  a = b
  BY DEF OnePerInstant
<1>1. PICK x \in reg : /\ a = IF IDOf(x) = IDOf(e) THEN [x EXCEPT !.status = "deleted"] ELSE x
                       /\ SameBackup(a, x)
  BY MarkedFrom
<1>2. PICK y \in reg : /\ b = IF IDOf(y) = IDOf(e) THEN [y EXCEPT !.status = "deleted"] ELSE y
                       /\ SameBackup(b, y)
  BY MarkedFrom
<1>3. x = y
  BY <1>1, <1>2 DEF OnePerInstant, SameBackup
<1> QED
  BY <1>1, <1>2, <1>3

\* A backup in the making has its own name only, so an entry of its instant would
\* keep it from being appended.
LEMMA OnePerInstantStep ==
    ASSUME Sound, Locked, Relisted, Names, [Next]_vars
    PROVE  OneEntryPerInstant'
<1>0. Contents(store) \in SUBSET Entry
  BY ContentsAreEntries
<1>1. CASE store' = store
  BY <1>1 DEF Names, OneEntryPerInstant
<1>2. ASSUME NEW p \in Clients, Appends(p) PROVE OnePerInstant(Contents(store'))
  <2>1. ASSUME NEW x \in Contents(store), x.created = entry[p].created PROVE FALSE
    <3>1. OwnInstant(p)
      BY <1>2 DEF Appends, Making, Names
    <3>2. <<x.created, x.enc>> \in started
      BY <2>1, <3>1 DEF Names, EntryStarted, OwnInstant
    <3>3. x.enc = entry[p].enc
      BY <2>1, <3>1, <3>2 DEF Names, OwnInstant
    <3> QED
      BY <1>2, <2>1, <3>3 DEF Appends, CanAppend, FileOf
  <2> QED
    BY <1>2, <2>1 DEF Appends, Names, OneEntryPerInstant, OnePerInstant
<1>3. ASSUME NEW p \in Clients, Marks(p) PROVE OnePerInstant(Contents(store'))
  <2>1. Contents(store') = Marked(Contents(store), arg[p])
    BY <1>3 DEF Marks
  <2>2. OnePerInstant(Contents(store))
    BY DEF Names, OneEntryPerInstant
  <2> QED
    BY <1>0, <2>1, <2>2, MarkedOnePerInstant
<1>4. ASSUME NEW p \in Clients, Rebuilds(p) PROVE OnePerInstant(Contents(store'))
  BY <1>4 DEF Rebuilds, Relisted, IsRebuilt, Valid, OnePerInstant, IDOf
<1> QED
  BY <1>1, <1>2, <1>3, <1>4, StoreStep DEF OneEntryPerInstant

\* A new object is that of the backup whose command has just stored it.
LEMMA NewObjects ==
    ASSUME Sound, [Next]_vars, NEW f \in Files, objects'[f] # NoObject, objects'[f] # objects[f]
    PROVE  \E p \in Clients : Uploads(p) /\ f = FileOf(entry[p]) /\ objects'[f] = entry[p].sha
<1>1. objects' # objects
  OBVIOUS
<1>2. ASSUME NEW p \in Clients, Deletes(p) PROVE FALSE
  BY <1>2 DEF Deletes, Sound, Typed, ServiceTypeOK
<1>3. PICK p \in Clients : Uploads(p)
  BY <1>1, <1>2, ObjectsStep
<1> QED
  BY <1>3 DEF Uploads, Sound, Typed, ServiceTypeOK

\* A backup in the making was so before, unless its command has just started it, in
\* a second of its own.
LEMMA MakingKept ==
    ASSUME Sound, [Next]_vars, NEW q \in Clients, pc'[q] \in Making, ~StartBackup(q)
    PROVE  /\ pc[q] \in Making /\ entry'[q] = entry[q] /\ started \subseteq started'
           /\ pc'[q] = "upload" => pc[q] = "upload"
           /\ pc[q] = "upload" /\ pc'[q] # "upload" => UploadBackup(q)
<1>1. CASE UNCHANGED <<taskVars, started>>
  BY <1>1 DEF taskVars
<1>2. CASE ClientStep(q)
  BY <1>2, MakingStep
<1>3. ASSUME NEW p \in Clients \ {q}, ClientStep(p)
      PROVE  pc'[q] = pc[q] /\ entry'[q] = entry[q] /\ started \subseteq started'
  <2>1. started \subseteq started'
    BY <1>3
       DEF ClientStep, CommandStep, StartCommand, CancelCommand, NextCommand, CrashCommand,
           UploadBackup, UploadFails, RegisterBackup, BackupRegistered, LoadForRetention,
           PlanRetention, DeleteBackup, DeleteFails, DeletesDone, MarkNext, MarkReturned,
           RetentionDone, ListDone, SelectLatest, SelectByID, Fetch, StartBackup,
           StartRetention, StartList, StartRestore, RegistryStep, worldVars
  <2> QED
    BY <1>3, <2>1, StepOfOne DEF OnlyOf
<1> QED
  BY <1>1, <1>2, <1>3 DEF Next, ClientStep, Tick, vars, worldVars

LEMMA StartUploads ==
    ASSUME Sound, NEW q \in Clients, StartBackup(q)
    PROVE  pc'[q] = "upload"
BY DEF StartBackup, GoTo, Sound, TaskTyped

LEMMA StartedNow ==
    ASSUME Sound, NEW q \in Clients, StartBackup(q)
    PROVE  /\ entry'[q].created = clock /\ entry'[q].enc \in EncModes /\ clock \in Readings
           /\ started' = started \cup {<<entry'[q].created, entry'[q].enc>>}
           /\ \A s \in started : s[1] # clock
           /\ UNCHANGED <<store, objects>>
           /\ \A r \in Clients \ {q} : pc'[r] = pc[r] /\ entry'[r] = entry[r]
<1>1. PICK enc \in EncModes, d \in Digests :
          /\ entry' = [entry EXCEPT ![q] = NewEntry(clock, enc, d)]
          /\ started' = started \cup {<<clock, enc>>}
  BY DEF StartBackup
<1>2. entry'[q].created = clock /\ entry'[q].enc = enc
  BY <1>1 DEF NewEntry, Sound, TaskTyped
<1> QED
  BY <1>1, <1>2 DEF StartBackup, GoTo, Sound, TaskTyped, serviceVars, storage

\* The name of a backup in the making is one of a backup that has started: its own.
LEMMA MakingStarted ==
    ASSUME Names, NEW p \in Clients, pc[p] \in Making
    PROVE  StartedAs(FileOf(entry[p]))
<1> DEFINE s == <<entry[p].created, entry[p].enc>>
<1>1. s \in started
  BY DEF Names, OwnInstant
<1>2. NameOf(s) = FileOf(entry[p])
  BY DEF NameOf, FileOf
<1> QED
  BY <1>1, <1>2 DEF StartedAs

\* Two backups in the making with one name share it.
LEMMA MakingShare ==
    ASSUME Names, NEW p \in Clients, NEW q \in Clients \ {p},
           pc[p] \in Making, pc[q] \in Making, FileOf(entry[p]) = FileOf(entry[q])
    PROVE  Shared(FileOf(entry[p]))
<1>1. OwnInstant(p) /\ OwnInstant(q)
  BY DEF Names
<1> DEFINE s == <<entry[p].created, entry[p].enc>>
           t == <<entry[q].created, entry[q].enc>>
<1>2. s \in started /\ t \in started /\ s # t
  BY <1>1 DEF OwnInstant
<1>3. NameOf(s) = FileOf(entry[p]) /\ NameOf(t) = FileOf(entry[q])
  BY DEF NameOf, FileOf
<1> QED
  BY <1>2, <1>3 DEF Shared

\* A backup that starts shares every name that some backup had before.
LEMMA StartShares ==
    ASSUME Sound, NEW q \in Clients, StartBackup(q), NEW f, f = FileOf(entry'[q]), StartedAs(f)
    PROVE  Shared(f)'
<1> DEFINE s == <<entry'[q].created, entry'[q].enc>>
<1>1. PICK t \in started : NameOf(t) = f
  BY DEF StartedAs
<1>2. s \in started' /\ t \in started' /\ t # s
  BY <1>1, StartedNow
<1>3. NameOf(s) = f
  BY DEF NameOf, FileOf
<1> QED
  BY <1>1, <1>2, <1>3 DEF Shared, NameOf

\* What has been said of the backups in the making stays so.
LEMMA OwnInstantStep ==
    ASSUME Sound, Locked, Relisted, Names, [Next]_vars, Locked', Sound',
           NEW q \in Clients, pc'[q] \in Making
    PROVE  OwnInstant(q)'
<1>1. CASE StartBackup(q)
  <2>1. /\ entry'[q].created \in Readings
        /\ <<entry'[q].created, entry'[q].enc>> \in started'
    BY <1>1, StartedNow
  <2>2. ASSUME NEW r \in Clients \ {q}, pc'[r] \in Making
        PROVE  entry'[r].created # entry'[q].created
    <3>1. <<entry[r].created, entry[r].enc>> \in started
      BY <1>1, <2>2, StartedNow DEF Names, OwnInstant
    <3> QED
      BY <1>1, <2>2, <3>1, StartedNow
  <2>3. ASSUME NEW f, f \in Stored' \/ \E e \in Contents(store') : f = FileOf(e),
               f = FileOf(entry'[q])
        PROVE  Shared(f)'
    <3>1. StartedAs(f)
      BY <1>1, <2>3, StartedNow DEF Names, Stored, EntryStarted
    <3> QED
      BY <1>1, <2>3, <3>1, StartShares
  <2> QED
    BY <2>1, <2>2, <2>3 DEF OwnInstant, Readings
<1>2. CASE ~StartBackup(q)
  <2>1. /\ pc[q] \in Making /\ entry'[q] = entry[q]
        /\ pc'[q] = "upload" => pc[q] = "upload"
        /\ OwnInstant(q)
    BY <1>2, MakingKept DEF Names
  <2>2. <<entry[q].created, entry[q].enc>> \in started'
    BY <2>1, StartedStays DEF OwnInstant
  <2>3. ASSUME NEW r \in Clients \ {q}, pc'[r] \in Making
        PROVE  entry'[r].created # entry[q].created
    <3>1. CASE StartBackup(r)
      BY <2>1, <3>1, StartedNow DEF OwnInstant
    <3>2. CASE ~StartBackup(r)
      BY <2>1, <2>3, <3>2, MakingKept DEF OwnInstant
    <3> QED
      BY <3>1, <3>2
  <2>4. ASSUME pc'[q] = "upload", ~Shared(FileOf(entry[q]))'
        PROVE  /\ FileOf(entry[q]) \notin Stored'
               /\ \A e \in Contents(store') : FileOf(e) # FileOf(entry[q])
    <3>1. ~Shared(FileOf(entry[q])) /\ pc[q] = "upload"
      BY <2>1, <2>4, SharedStays
    <3>2. /\ FileOf(entry[q]) \notin Stored
          /\ \A e \in Contents(store) : FileOf(e) # FileOf(entry[q])
      BY <2>1, <3>1 DEF OwnInstant
    <3>3. ASSUME NEW p \in Clients, Uploads(p) \/ Appends(p) PROVE FileOf(entry[p]) # FileOf(entry[q])
      <4>1. pc[p] \in Making /\ p # q
        BY <2>4, <3>1, <3>3 DEF Uploads, Appends, Making
      <4> QED
        BY <2>1, <3>1, <4>1, MakingShare
    <3>4. FileOf(entry[q]) \notin Stored'
      <4>1. ASSUME FileOf(entry[q]) \in Stored' PROVE FALSE
        <5>1. PICK f \in Files : f = FileOf(entry[q]) /\ objects'[f] # NoObject
          BY <4>1 DEF Stored
        <5>2. objects[f] = NoObject
          BY <3>2, <5>1 DEF Stored
        <5>3. PICK p \in Clients : Uploads(p) /\ f = FileOf(entry[p])
          BY <5>1, <5>2, NewObjects
        <5> QED
          BY <3>3, <5>1, <5>3
      <4> QED
        BY <4>1
    <3>5. ASSUME NEW e \in Contents(store') PROVE FileOf(e) # FileOf(entry[q])
      <4>1. CASE \E x \in Contents(store) : SameBackup(e, x)
        BY <3>2, <4>1, SameNames
      <4>2. CASE \E p \in Clients : Appends(p) /\ e = entry[p]
        BY <3>3, <4>2
      <4>3. CASE IsRebuilt(e)
        <5>1. e \in Entry
          BY NextIsTyped
        <5>2. FileOf(e) \in Stored
          BY <4>3, <5>1, EntryFile DEF IsRebuilt, Present, Stored
        <5> QED
          BY <3>2, <5>2
      <4> QED
        BY <4>1, <4>2, <4>3, EntriesComeFrom
    <3> QED
      BY <3>4, <3>5
  <2> QED
    BY <2>1, <2>2, <2>3, <2>4 DEF OwnInstant, Readings
<1> QED
  BY <1>1, <1>2

LEMMA NamesStep ==
    ASSUME Sound, Locked, Relisted, Names, [Next]_vars, Sound', Locked'
    PROVE  Names'
<1>1. ASSUME NEW s \in started', NEW t \in started', s[1] \in Readings, s[1] = t[1]
      PROVE  s = t
  <2>1. CASE started' = started
    BY <1>1, <2>1 DEF Names
  <2>2. ASSUME NEW q \in Clients, StartBackup(q) PROVE s = t
    BY <1>1, <2>2, StartedNow DEF Names
  <2> QED
    BY <2>1, <2>2, OnlyStartsStart
<1>2. ASSUME NEW f \in Files, objects'[f] # NoObject PROVE StartedAs(f)'
  <2>1. StartedAs(f)
    <3>1. CASE f \in Stored
      BY <3>1 DEF Names
    <3>2. CASE f \notin Stored
      <4>1. PICK p \in Clients : Uploads(p) /\ f = FileOf(entry[p])
        BY <1>2, <3>2, NewObjects DEF Stored
      <4> QED
        BY <4>1, MakingStarted DEF Uploads, Making
    <3> QED
      BY <3>1, <3>2
  <2> QED
    BY <2>1, SharedStays
<1>3. ASSUME NEW y \in Contents(store') PROVE EntryStarted(y)'
  <2>1. y \in Entry
    BY NextIsTyped
  <2>2. EntryStarted(y)
    <3>1. CASE \E x \in Contents(store) : SameBackup(y, x)
      BY <3>1, SameNames DEF Names, EntryStarted, SameBackup
    <3>2. CASE \E p \in Clients : Appends(p) /\ y = entry[p]
      BY <3>2, MakingStarted DEF Appends, Making, EntryStarted, Names, OwnInstant
    <3>3. CASE IsRebuilt(y)
      <4>1. FileOf(y) \in Stored
        BY <2>1, <3>3, EntryFile DEF IsRebuilt, Present, Stored
      <4> QED
        BY <3>3, <4>1 DEF Names, IsRebuilt, EntryStarted, Readings
    <3> QED
      BY <3>1, <3>2, <3>3, EntriesComeFrom
  <2> QED
    BY <2>2, SharedStays, StartedStays DEF EntryStarted, Readings
<1>4. OneEntryPerInstant'
  BY OnePerInstantStep
<1> QED
  BY <1>1, <1>2, <1>3, <1>4, OwnInstantStep DEF Names, Stored, Readings

----------------------------------------------------------------------------
(***************************************************************************)
(* What is marked deleted is gone.                                         *)
(***************************************************************************)
Gone(e) == ~Present(e) \/ Shared(FileOf(e))

DeletedInv ==
    /\ \A e \in Contents(store) : e.status = "deleted" => Gone(e)
    /\ \A p \in Clients : \A v \in gone[p] : Gone(v)

LEMMA DeletedInit == Init => DeletedInv
BY DEF Init, ServiceInit, DeletedInv, Contents

\* An upload that finds an entry of its name in the registry shares that name.
LEMMA UploadsItsOwn ==
    ASSUME Names, NEW p \in Clients, Uploads(p), NEW e \in Contents(store),
           FileOf(e) = FileOf(entry[p])
    PROVE  Shared(FileOf(e))
BY DEF Uploads, Names, OwnInstant, Making

\* The entry that a client marks is that of the backup it has deleted.
LEMMA MarksItsOwn ==
    ASSUME Sound, Locked, Known, NEW p \in Clients, arg[p] \in gone[p],
           NEW x \in Contents(store), IDOf(x) = IDOf(arg[p])
    PROVE  SameBackup(x, arg[p])
<1>1. PICK y \in Contents(store) : SameBackup(y, arg[p])
  BY DEF Known, InRegistry, HasEntry
<1>2. IDOf(y) = IDOf(arg[p])
  BY <1>1, SameNames
<1>3. x = y
  BY <1>2 DEF Locked, StoredRegistryLoads, Valid
<1> QED
  BY <1>1, <1>3

\* An entry that is new after a mark is that of the backup that was marked.
LEMMA MarkedIsItsCopy ==
    ASSUME Sound, Locked, Known, NEW p \in Clients, Marks(p),
           NEW y \in Contents(store'), y \notin Contents(store)
    PROVE  SameBackup(y, arg[p])
<1>0. Contents(store) \in SUBSET Entry
  BY ContentsAreEntries
<1>1. PICK x \in Contents(store) :
        /\ y = IF IDOf(x) = IDOf(arg[p]) THEN [x EXCEPT !.status = "deleted"] ELSE x
        /\ SameBackup(y, x)
  BY <1>0, MarkedFrom DEF Marks
<1>2. IDOf(x) = IDOf(arg[p])
  BY <1>1
<1>3. SameBackup(x, arg[p])
  BY <1>2, MarksItsOwn DEF Marks
<1> QED
  BY <1>1, <1>3 DEF SameBackup

\* No later upload brings an archive back whose name the registry knows, save one of
\* another backup with that name.
LEMMA GoneStays ==
    ASSUME Sound, Locked, Known, Names, [Next]_vars, NEW v \in Entry, Gone(v), InRegistry(v)
    PROVE  Gone(v)'
<1>1. CASE Shared(FileOf(v))
  BY <1>1, SharedStays DEF Gone
<1>2. CASE ~Present(v)
  <2>1. PICK x \in Contents(store) : FileOf(x) = FileOf(v)
    BY SameNames DEF InRegistry, HasEntry
  <2>2. ASSUME objects'[FileOf(v)] # NoObject PROVE Shared(FileOf(v))
    <3>1. PICK p \in Clients : Uploads(p) /\ FileOf(v) = FileOf(entry[p])
      BY <1>2, <2>2, EntryFile, NewObjects DEF Present
    <3> QED
      BY <2>1, <3>1, UploadsItsOwn
  <2> QED
    BY <2>2, SharedStays DEF Gone, Present
<1> QED
  BY <1>1, <1>2 DEF Gone

\* What retention still has to mark it has found deleted.
LEMMA GoneIsDeleted ==
    ASSUME Sound, NEW p \in Clients, ClientStep(p), NEW v \in gone'[p]
    PROVE  v \in gone[p] \/ objects'[FileOf(v)] = NoObject
<1> USE DEF Sound, TaskTyped, GoTo
<1>1. ~Exit(p)
  BY ExitTyped
<1>2. CASE DeleteBackup(p)
  <2>1. PICK u \in victims[p] : /\ objects' = [objects EXCEPT ![FileOf(u)] = NoObject]
                                /\ gone' = [gone EXCEPT ![p] = @ \cup {u}]
    BY <1>2 DEF DeleteBackup, NextOf
  <2>2. u \in Entry
    BY <2>1 DEF Ready
  <2>3. objects'[FileOf(u)] = NoObject
    BY <2>1, <2>2, EntryFile DEF Typed, ServiceTypeOK
  <2> QED
    BY <2>1, <2>3
<1>3. CASE ~DeleteBackup(p)
  BY <1>1, <1>3
     DEF ClientStep, CommandStep, StartCommand, CancelCommand, NextCommand, CrashCommand,
         UploadBackup, UploadFails, RegisterBackup, BackupRegistered, LoadForRetention,
         PlanRetention, DeleteFails, DeletesDone, MarkNext, MarkReturned, RetentionDone,
         ListDone, SelectLatest, SelectByID, Fetch, StartBackup, StartRetention, StartList,
         StartRestore, RegistryStep, taskVars
<1> QED
  BY <1>2, <1>3

LEMMA DeletedStep ==
    ASSUME Sound, Locked, Known, Relisted, Names, DeletedInv, [Next]_vars, Sound', Locked'
    PROVE  DeletedInv'
<1>1. ASSUME NEW y \in Contents(store'), y.status = "deleted"
      PROVE  Gone(y)'
  <2>0. y \in Entry
    BY NextIsTyped
  <2>1. ASSUME y \in Contents(store)
        PROVE  Gone(y)'
    <3>1. InRegistry(y)
      BY <2>1 DEF InRegistry, HasEntry, SameBackup
    <3> QED
      BY <1>1, <2>0, <2>1, <3>1, GoneStays DEF DeletedInv
  <2>2. ASSUME NEW p \in Clients, Appends(p) PROVE y \in Contents(store)
    BY <1>1, <2>2 DEF Appends, Sound, Tasks, TaskOf, Making, NewEntries
  <2>3. ASSUME NEW p \in Clients, Rebuilds(p) PROVE FALSE
    BY <1>1, <2>3 DEF Rebuilds, Relisted, IsRebuilt
  <2>4. ASSUME NEW p \in Clients, Marks(p), y \notin Contents(store)
        PROVE  Gone(y)'
    <3>1. SameBackup(y, arg[p]) /\ arg[p] \in gone[p]
      BY <2>4, MarkedIsItsCopy DEF Marks
    <3>2. PICK a \in Entry : a = arg[p]
      BY <3>1 DEF Sound, TaskTyped, Ready
    <3>3. FileOf(y) = FileOf(a)
      BY <3>1, <3>2, SameNames
    <3>4. InRegistry(a) /\ Gone(a)
      BY <3>1, <3>2 DEF Known, DeletedInv
    <3>5. Gone(a)'
      BY <3>4, GoneStays
    <3> QED
      BY <3>3, <3>5 DEF Gone, Present
  <2> QED
    BY <2>1, <2>2, <2>3, <2>4, StoreStep
<1>2. ASSUME NEW q \in Clients, NEW v \in gone'[q]
      PROVE  Gone(v)'
  <2>1. gone'[q] \subseteq Ready(Entry)
    BY DEF Sound, TaskTyped
  <2>2. v \in Entry
    BY <2>1 DEF Ready
  <2>3. v \in gone[q] \/ objects'[FileOf(v)] = NoObject
    <3>1. ASSUME NEW p \in Clients \ {q}, ClientStep(p) PROVE gone'[q] = gone[q]
      BY <3>1, StepOfOne DEF OnlyOf
    <3> QED
      BY <1>2, <3>1, GoneIsDeleted DEF Next, ClientStep, Tick, vars, taskVars
  <2>4. CASE v \in gone[q]
    BY <2>2, <2>4, GoneStays DEF DeletedInv, Known
  <2>5. CASE objects'[FileOf(v)] = NoObject
    BY <2>5 DEF Gone, Present
  <2> QED
    BY <2>3, <2>4, <2>5
<1> QED
  BY <1>1, <1>2 DEF DeletedInv

----------------------------------------------------------------------------
(***************************************************************************)
(* Every entry has its archive, or a newer entry that is ready.            *)
(***************************************************************************)
Kept(e) == Intact(e) \/ Superseded(e)

\* Some entry has the name of e, which therefore cannot be appended.
NameTaken(e) == \E x \in Contents(store) : FileOf(x) = FileOf(e)

KeptInv ==
    /\ \A e \in Contents(store) : Kept(e) /\ (e.status = "deleted" => Superseded(e))
    /\ \A p \in Clients :
          /\ pc[p] \in {"register", "appending"} => Intact(entry[p]) \/ NameTaken(entry[p])
          /\ \A v \in victims[p] \cup gone[p] : Superseded(v)

LEMMA KeptInit == Init => KeptInv
BY DEF Init, ServiceInit, KeptInv, Contents

\* Marking an entry takes nothing of what supersedes the others away: what is
\* marked has a newer entry that is ready and that stays so.
LEMMA SupersededStays ==
    ASSUME Sound, Locked, Known, KeptInv, [Next]_vars, NEW e, e.created \in Nat, Superseded(e)
    PROVE  \E g \in ReadyEntries' : g.created > e.created
<1>0. Contents(store) \in SUBSET Entry /\ Times \subseteq Nat
  BY ContentsAreEntries, DomainAssumption
<1>1. PICK g \in ReadyEntries : g.created > e.created
  BY DEF Superseded
<1>2. g \in Contents(store) /\ g.status = "ready" /\ g.created \in Nat
  BY <1>0, <1>1 DEF ReadyEntries, Ready, Entry
<1>3. CASE store' = store
  BY <1>1, <1>3 DEF ReadyEntries
<1>4. ASSUME NEW p \in Clients, Appends(p)
      PROVE  \E h \in ReadyEntries' : h.created > e.created
  BY <1>1, <1>2, <1>4 DEF Appends, ReadyEntries, Ready
<1>5. ASSUME NEW p \in Clients, Rebuilds(p)
      PROVE  FALSE
  BY <1>2, <1>5 DEF Rebuilds
<1>6. ASSUME NEW p \in Clients, Marks(p)
      PROVE  \E h \in ReadyEntries' : h.created > e.created
  <2>1. ASSUME NEW h \in ReadyEntries, IDOf(h) # IDOf(arg[p])
        PROVE  h \in ReadyEntries'
    BY <1>6, <2>1 DEF Marks, Marked, ReadyEntries, Ready
  <2>2. CASE IDOf(g) # IDOf(arg[p])
    BY <1>1, <2>1, <2>2
  <2>3. CASE IDOf(g) = IDOf(arg[p])
    <3>1. g.created = arg[p].created
      BY <1>2, <1>6, <2>3, MarksItsOwn DEF Marks, SameBackup
    <3>2. PICK h \in ReadyEntries : h.created > g.created
      BY <1>6, <3>1 DEF Marks, KeptInv, Superseded
    <3>3. h.created \in Nat
      BY <1>0, <3>2 DEF ReadyEntries, Ready, Entry
    <3>4. h.created # arg[p].created
      BY <1>2, <3>1, <3>2, <3>3
    <3>5. IDOf(h) # IDOf(arg[p])
      BY <1>6, <3>2, <3>4, MarksItsOwn DEF Marks, SameBackup, ReadyEntries, Ready
    <3> QED
      BY <1>0, <1>1, <1>2, <2>1, <3>2, <3>3, <3>5
  <2> QED
    BY <2>2, <2>3
<1> QED
  BY <1>3, <1>4, <1>5, <1>6, StoreStep

\* What is stored where an archive is, is that archive, or another's of its name.
LEMMA IntactStays ==
    ASSUME Sound, [Next]_vars, NEW e \in Entry, Intact(e), objects'[FileOf(e)] # NoObject,
           \A p \in Clients : Uploads(p) /\ FileOf(e) = FileOf(entry[p]) => Shared(FileOf(e))
    PROVE  Intact(e)'
<1>1. CASE Shared(FileOf(e))
  BY <1>1, SharedStays DEF Intact, Present
<1>2. CASE ~Shared(FileOf(e))
  <2>1. objects'[FileOf(e)] = objects[FileOf(e)]
    BY <1>2, EntryFile, NewObjects
  <2> QED
    BY <1>2, <2>1 DEF Intact, Present
<1> QED
  BY <1>1, <1>2

\* What is deleted is the archive of an entry that a newer one supersedes.
LEMMA DeletesSuperseded ==
    ASSUME Sound, Known, KeptInv, [Next]_vars, NEW f \in Files,
           objects[f] # NoObject, objects'[f] = NoObject
    PROVE  \E x \in Contents(store) : FileOf(x) = f /\ Superseded(x)
<1>1. ASSUME NEW p \in Clients, Uploads(p) PROVE FALSE
  <2>1. entry[p].sha # NoObject
    BY <1>1, ServiceAssumption DEF Uploads, Sound, Tasks, TaskOf, Making, NewEntries
  <2> QED
    BY <1>1, <2>1 DEF Uploads, Sound, Typed, ServiceTypeOK
<1>2. PICK p \in Clients : Deletes(p)
  BY <1>1, ObjectsStep
<1>3. PICK v \in victims[p] : objects' = [objects EXCEPT ![FileOf(v)] = NoObject]
  BY <1>2 DEF Deletes
<1>4. f = FileOf(v) /\ Superseded(v) /\ InRegistry(v)
  BY <1>3 DEF Sound, Typed, ServiceTypeOK, KeptInv, Known
<1>5. PICK x \in Contents(store) : SameBackup(x, v)
  BY <1>4 DEF InRegistry, HasEntry
<1> QED
  BY <1>4, <1>5, SameNames DEF Superseded, SameBackup

\* So the archive of an entry is there or superseded.
LEMMA KeptStays ==
    ASSUME Sound, Locked, Known, Names, KeptInv, [Next]_vars, NEW e \in Entry,
           e \in Contents(store)
    PROVE  Intact(e)' \/ \E g \in ReadyEntries' : g.created > e.created
<1>0. e.created \in Nat
  BY DomainAssumption DEF Entry
<1>1. CASE Superseded(e)
  BY <1>0, <1>1, SupersededStays
<1>2. CASE Intact(e) /\ objects'[FileOf(e)] # NoObject
  BY <1>2, IntactStays, UploadsItsOwn
<1>3. CASE Intact(e) /\ objects'[FileOf(e)] = NoObject
  <2>1. PICK x \in Contents(store) : FileOf(x) = FileOf(e) /\ Superseded(x)
    BY <1>3, EntryFile, DeletesSuperseded DEF Intact, Present
  <2>2. x = e
    BY <2>1 DEF Locked, StoredRegistryLoads, Valid
  <2> QED
    BY <1>0, <2>1, <2>2, SupersededStays
<1> QED
  BY <1>1, <1>2, <1>3 DEF KeptInv, Kept

\* And that of a backup which is being registered is there, or not to be registered.
LEMMA MadeStays ==
    ASSUME Sound, Locked, Known, Names, KeptInv, [Next]_vars, NEW q \in Clients,
           pc[q] \in {"register", "appending"}, NEW e \in Entry, e = entry[q]
    PROVE  Intact(e)' \/ \E x \in Contents(store') : FileOf(x) = FileOf(e)
<1>1. ASSUME NEW x \in Contents(store), FileOf(x) = FileOf(e)
      PROVE  \E y \in Contents(store') : FileOf(y) = FileOf(e)
  <2>1. InRegistry(x)
    BY <1>1 DEF InRegistry, HasEntry, SameBackup
  <2> QED
    BY <1>1, <2>1, InRegistryStays, SameNames DEF HasEntry
<1>2. CASE NameTaken(e)
  BY <1>1, <1>2 DEF NameTaken
<1>3. CASE Intact(e) /\ objects'[FileOf(e)] # NoObject
  <2>1. ASSUME NEW p \in Clients, Uploads(p), FileOf(e) = FileOf(entry[p])
        PROVE  Shared(FileOf(e))
    BY <2>1, MakingShare DEF Uploads, Making
  <2> QED
    BY <1>3, <2>1, IntactStays
<1>4. CASE Intact(e) /\ objects'[FileOf(e)] = NoObject
  BY <1>1, <1>4, EntryFile, DeletesSuperseded DEF Intact, Present
<1> QED
  BY <1>2, <1>3, <1>4 DEF KeptInv

\* Every policy in use counts backups or periods.  (A maximum age alone may remove
\* the newest backup; see RemovalLeavesAsNew.)
PoliciesKeepNewest == \A cfg \in Policies : P!KeepsNewest(cfg)

\* Of a loaded registry, however old, each instant has one ready entry.
LEMMA SnapshotOnePerInstant ==
    ASSUME Names, NEW reg \in SUBSET Entry, \A e \in reg : InRegistry(e)
    PROVE  OnePerInstant(Ready(reg))
<1> SUFFICES ASSUME NEW a \in Ready(reg), NEW b \in Ready(reg), a.created = b.created
             PROVE  a = b
  BY DEF OnePerInstant
<1>1. PICK x \in Contents(store) : SameBackup(x, a)
  BY DEF Ready, InRegistry, HasEntry
<1>2. PICK y \in Contents(store) : SameBackup(y, b)
  BY DEF Ready, InRegistry, HasEntry
<1>3. x = y
  BY <1>1, <1>2 DEF Names, OneEntryPerInstant, OnePerInstant, SameBackup
<1>4. /\ a.created = b.created /\ a.enc = b.enc /\ a.sha = b.sha /\ a.status = b.status
  BY <1>1, <1>2, <1>3 DEF SameBackup, Ready
<1>5. a \in Entry /\ b \in Entry
  BY DEF Ready
<1> QED
  BY <1>4, <1>5 DEF Entry

LEMMA OnePerInstantFinite ==
    ASSUME NEW S \in SUBSET Entry, OnePerInstant(S)
    PROVE  IsFiniteSet(S)
<1>1. IsFiniteSet(Times)
  BY FS_Interval, SystemAssumption
<1>2. [e \in S |-> e.created] \in Injection(S, Times)
  BY DEF OnePerInstant, Entry, Injection, IsInjective
<1> QED
  BY <1>1, <1>2, FS_Injection

\* A decision on a snapshot holds in the registry of now: what retention picks for
\* deletion has a newer entry that is ready.
LEMMA PlanSupersedes ==
    ASSUME PoliciesKeepNewest, Names, Sound, Locked, Known, KeptInv,
           NEW p \in Clients, pc[p] = "loading", outcome[p] = "ok",
           NEW V \in P!ToRemove(Ready(buf[p]), policy[p], clock), NEW v \in V
    PROVE  Superseded(v)
<1> DEFINE S == Ready(buf[p])
<1>1. /\ policy[p] \in Policies /\ \A e \in buf[p] : InRegistry(e)
  BY DEF Sound, Tasks, TaskOf, Known, Answered
<1>2. buf[p] \in SUBSET Entry /\ S \in SUBSET Entry /\ Times \subseteq Nat
  BY DomainAssumption DEF Sound, Typed, ServiceTypeOK, Ready
<1>3. OnePerInstant(S) /\ IsFiniteSet(S)
  BY <1>1, <1>2, SnapshotOnePerInstant, OnePerInstantFinite
<1>4. \A e \in S : e.created \in Nat
  BY <1>2 DEF Entry
<1>5. V \subseteq S
  BY VictimsAreGiven
<1>6. PICK k \in S \ V : k.created >= v.created
  <2>1. policy[p] \in P!Config /\ P!KeepsNewest(policy[p])
    BY <1>1, SystemAssumption DEF PoliciesKeepNewest
  <2>2. \A e \in S : e.created \in Int
    BY <1>4
  <2> QED
    BY <1>3, <2>1, <2>2, VictimsLeaveAsNew
<1>7. k.created > v.created
  BY <1>3, <1>4, <1>5, <1>6 DEF OnePerInstant
<1>8. PICK x \in Contents(store) : SameBackup(x, k)
  BY <1>1, <1>6 DEF Ready, InRegistry, HasEntry
<1>9. x.created = k.created /\ x \in Entry
  BY <1>8, ContentsAreEntries DEF SameBackup
<1>10. CASE x.status = "ready"
  BY <1>7, <1>8, <1>9, <1>10 DEF Superseded, ReadyEntries, Ready
<1>11. CASE x.status = "deleted"
  <2>1. PICK g \in ReadyEntries : g.created > x.created
    BY <1>8, <1>11 DEF KeptInv, Superseded
  <2>2. g.created \in Nat
    BY <1>2, <2>1, ContentsAreEntries DEF ReadyEntries, Ready, Entry
  <2>3. g.created > v.created
    BY <1>4, <1>5, <1>6, <1>7, <1>9, <2>1, <2>2
  <2> QED
    BY <2>1, <2>3 DEF Superseded
<1> QED
  BY <1>9, <1>10, <1>11 DEF Entry, Statuses

\* What retention has in hand was picked by a policy.
LEMMA RetentionPicks ==
    ASSUME PoliciesKeepNewest, Names, Sound, Locked, Known, KeptInv,
           NEW p \in Clients, ClientStep(p), NEW v \in victims'[p] \cup gone'[p]
    PROVE  Superseded(v)
<1> USE DEF Sound, TaskTyped, GoTo
<1>1. ~Exit(p)
  BY ExitTyped
<1>2. CASE PlanRetention(p)
  <2>1. PICK V \in P!ToRemove(Ready(buf[p]), policy[p], clock) :
            victims' = [victims EXCEPT ![p] = V]
    BY <1>1, <1>2 DEF PlanRetention
  <2>2. v \in V \/ v \in gone[p]
    BY <1>1, <1>2, <2>1 DEF PlanRetention
  <2>3. pc[p] = "loading" /\ outcome[p] = "ok"
    BY <1>1, <1>2 DEF PlanRetention
  <2>4. CASE v \in V
    BY <2>1, <2>3, <2>4, PlanSupersedes
  <2> QED
    BY <2>2, <2>4 DEF KeptInv
<1>3. ASSUME ~PlanRetention(p)
      PROVE  v \in victims[p] \cup gone[p]
  BY <1>1, <1>3
     DEF ClientStep, CommandStep, StartCommand, CancelCommand, NextCommand, CrashCommand,
         UploadBackup, UploadFails, RegisterBackup, BackupRegistered, LoadForRetention,
         DeleteBackup, DeleteFails, NextOf, DeletesDone, MarkNext, MarkReturned,
         RetentionDone, ListDone, SelectLatest, SelectByID, Fetch, StartBackup,
         StartRetention, StartList, StartRestore, RegistryStep, taskVars
<1> QED
  BY <1>2, <1>3 DEF KeptInv

\* The entries that the registry has next are kept.
LEMMA KeptEntriesStep ==
    ASSUME Sound, Locked, Known, Relisted, Names, KeptInv, [Next]_vars, Locked',
           NEW y \in Contents(store')
    PROVE  /\ Intact(y)' \/ \E g \in ReadyEntries' : g.created > y.created
           /\ y.status = "deleted" => \E g \in ReadyEntries' : g.created > y.created
<1>0. y \in Entry /\ y.created \in Nat
  <2>1. y \in Entry
    BY NextIsTyped
  <2> QED
    BY <2>1, DomainAssumption DEF Entry
<1>1. CASE y \in Contents(store)
  BY <1>0, <1>1, KeptStays, SupersededStays DEF KeptInv
<1>2. ASSUME y \notin Contents(store) PROVE objects' = objects
  BY <1>2, StoreStep
<1>3. ASSUME Intact(y), y \notin Contents(store) PROVE Intact(y)'
  BY <1>2, <1>3, SharedStays DEF Intact, Present
<1>4. ASSUME NEW p \in Clients, Appends(p), y \notin Contents(store)
      PROVE  Intact(y) /\ y.status = "ready"
  <2>1. y = entry[p] /\ ~NameTaken(y)
    BY <1>4 DEF Appends, CanAppend, NameTaken
  <2>2. y.status = "ready"
    BY <1>4, <2>1 DEF Appends, Sound, Tasks, TaskOf, Making, NewEntries
  <2> QED
    BY <1>4, <2>1, <2>2 DEF Appends, KeptInv
<1>5. ASSUME NEW p \in Clients, Marks(p), y \notin Contents(store)
      PROVE  \E g \in ReadyEntries' : g.created > y.created
  <2>1. y.created = arg[p].created
    BY <1>5, MarkedIsItsCopy DEF SameBackup
  <2>2. Superseded(y)
    BY <1>5, <2>1 DEF Marks, KeptInv, Superseded
  <2> QED
    BY <1>0, <2>2, SupersededStays
<1>6. ASSUME NEW p \in Clients, Rebuilds(p)
      PROVE  Intact(y) /\ y.status = "ready"
  BY <1>6 DEF Rebuilds, Relisted, IsRebuilt, Intact
<1> QED
  BY <1>1, <1>3, <1>4, <1>5, <1>6, StoreStep

LEMMA KeptStep ==
    ASSUME PoliciesKeepNewest, Sound, Locked, Known, Relisted, Names, KeptInv,
           [Next]_vars, Sound', Locked'
    PROVE  KeptInv'
<1>1. ASSUME NEW q \in Clients, pc'[q] \in {"register", "appending"}
      PROVE  (Intact(entry[q]) \/ NameTaken(entry[q]))'
  <2>1. pc'[q] # "upload" /\ pc'[q] \in Making
    BY <1>1 DEF Making
  <2>2. /\ pc[q] \in Making /\ entry'[q] = entry[q]
        /\ pc[q] = "upload" => UploadBackup(q)
    BY <2>1, MakingKept, StartUploads
  <2>3. entry[q] \in Entry /\ entry[q].sha \in Digests
    BY <2>2 DEF Sound, Tasks, TaskOf, NewEntries
  <2>4. CASE UploadBackup(q)
    <3>1. objects'[FileOf(entry[q])] = entry[q].sha /\ entry[q].sha # NoObject
      BY <2>3, <2>4, EntryFile, ServiceAssumption
         DEF UploadBackup, Sound, Typed, ServiceTypeOK
    <3> QED
      BY <2>2, <3>1 DEF Intact, Present
  <2>5. CASE pc[q] # "upload"
    <3>1. PICK e \in Entry : e = entry[q]
      BY <2>3
    <3>2. pc[q] \in {"register", "appending"}
      BY <2>2, <2>5 DEF Making
    <3>3. Intact(e)' \/ \E x \in Contents(store') : FileOf(x) = FileOf(e)
      BY <3>1, <3>2, MadeStays
    <3>4. entry'[q] = e
      BY <2>2, <3>1
    <3> QED
      BY <3>3, <3>4 DEF NameTaken, Intact, Present, Shared
  <2> QED
    BY <2>2, <2>4, <2>5
<1>2. ASSUME NEW q \in Clients, NEW v \in victims'[q] \cup gone'[q]
      PROVE  \E g \in ReadyEntries' : g.created > v.created
  <2>1. victims'[q] \cup gone'[q] \subseteq Ready(Entry)
    BY DEF Sound, TaskTyped
  <2>2. v.created \in Nat
    BY <2>1, DomainAssumption DEF Ready, Entry
  <2>3. Superseded(v)
    <3>1. ASSUME NEW p \in Clients \ {q}, ClientStep(p)
          PROVE  victims'[q] = victims[q] /\ gone'[q] = gone[q]
      BY <3>1, StepOfOne DEF OnlyOf
    <3> QED
      BY <1>2, <3>1, RetentionPicks DEF Next, ClientStep, Tick, vars, taskVars, KeptInv
  <2> QED
    BY <2>2, <2>3, SupersededStays
<1> QED
  BY <1>1, <1>2, KeptEntriesStep DEF KeptInv, Kept, Superseded

----------------------------------------------------------------------------
(***************************************************************************)
(* The theorems.                                                           *)
(***************************************************************************)
ArchivesInv == Sound /\ Locked /\ Known /\ Relisted /\ Names /\ DeletedInv

LEMMA ArchivesInvInit == Init => ArchivesInv
BY SoundInit, LockedInit, KnownInit, RelistedInit, NamesInit, DeletedInit DEF Init, ArchivesInv

LEMMA ArchivesInvStep == ArchivesInv /\ LockExclusive /\ [Next]_vars => ArchivesInv'
<1> SUFFICES ASSUME ArchivesInv, LockExclusive, [Next]_vars PROVE ArchivesInv'
  OBVIOUS
<1>1. Sound' /\ Locked' /\ Known' /\ Relisted'
  BY SoundStep, SystemLockedStep, KnownStep, RelistedStep DEF ArchivesInv
<1> QED
  BY <1>1, NamesStep, DeletedStep DEF ArchivesInv

LEMMA InvDeleted == ArchivesInv => DeletedIsGone
BY DEF ArchivesInv, DeletedInv, Gone, DeletedIsGone

\* On every backend, as long as two clients are not inside the registry's lock at once,
\* an entry is marked deleted only when its archive is gone, and no upload, rebuild or
\* mark of another command changes that, whatever the policies.  The archive that
\* another backup of the same second has put under the shared name is excepted.
THEOREM DeletedGoneWhileExclusive == Spec => ([]LockExclusive => []DeletedIsGone)
BY ArchivesInvInit, ArchivesInvStep, InvDeleted, PTL DEF Spec

\* With a file system or s3, then, what is marked deleted is gone and stays gone.
THEOREM DeletedStaysGone ==
    ASSUME Backend # "ftp"
    PROVE  Spec => []DeletedIsGone
BY DeletedGoneWhileExclusive, SystemLockIsExclusive, PTL

BackupsInv == ArchivesInv /\ KeptInv

LEMMA BackupsInvStep ==
    ASSUME PoliciesKeepNewest
    PROVE  BackupsInv /\ LockExclusive /\ [Next]_vars => BackupsInv'
<1> SUFFICES ASSUME BackupsInv, LockExclusive, [Next]_vars PROVE BackupsInv'
  OBVIOUS
<1>1. ArchivesInv'
  BY ArchivesInvStep DEF BackupsInv
<1> QED
  BY <1>1, KeptStep DEF BackupsInv, ArchivesInv

\* On every backend, for counting policies, the inductive invariant holds as long as
\* the lock excludes.
LEMMA BackupsInvWhileExclusive ==
    ASSUME PoliciesKeepNewest
    PROVE  Spec => ([]LockExclusive => []BackupsInv)
<1>1. Init => BackupsInv
  BY ArchivesInvInit, KeptInit DEF BackupsInv
<1> QED
  BY <1>1, BackupsInvStep, PTL DEF Spec

LEMMA InvNewest == BackupsInv => NewestIsRestorable
<1> SUFFICES ASSUME BackupsInv, NEW e \in NextOf(ReadyEntries) PROVE Intact(e)
  BY DEF NewestIsRestorable
<1> USE DEF BackupsInv, ArchivesInv
<1>1. e \in Contents(store) /\ e \in Entry
  BY ContentsAreEntries DEF NextOf, ReadyEntries, Ready
<1>2. \A g \in ReadyEntries : g.created \in Nat
  BY ContentsAreEntries, DomainAssumption DEF ReadyEntries, Ready, Entry
<1>3. ~Superseded(e)
  BY <1>2 DEF NextOf, Superseded
<1> QED
  BY <1>1, <1>3 DEF KeptInv, Kept

\* A backup that some entry stands for is kept, as that entry is.
LEMMA EntryKept ==
    ASSUME BackupsInv, NEW e, InRegistry(e)
    PROVE  Intact(e) \/ Superseded(e)
<1>1. PICK x \in Contents(store) : SameBackup(x, e)
  BY DEF InRegistry, HasEntry
<1>2. x.created = e.created /\ x.sha = e.sha /\ FileOf(x) = FileOf(e)
  BY <1>1, SameNames DEF SameBackup
<1> QED
  BY <1>1, <1>2 DEF BackupsInv, KeptInv, Kept, Intact, Present, Superseded

LEMMA InvAcknowledged == BackupsInv => AcknowledgedIsKept
<1> SUFFICES ASSUME BackupsInv, NEW e \in made
             PROVE  /\ \E f \in Contents(store) : SameBackup(f, e)
                    /\ Intact(e) \/ Superseded(e)
  BY DEF AcknowledgedIsKept
<1>1. InRegistry(e)
  BY DEF BackupsInv, ArchivesInv, Known
<1> QED
  BY <1>1, EntryKept DEF InRegistry, HasEntry

LEMMA InvSelected == BackupsInv => SelectedOrSuperseded
<1> SUFFICES ASSUME BackupsInv, NEW p \in Clients, pc[p] = "fetch"
             PROVE  Intact(entry[p]) \/ Superseded(entry[p])
  BY DEF SelectedOrSuperseded
<1>1. InRegistry(entry[p])
  BY DEF BackupsInv, ArchivesInv, Known
<1> QED
  BY <1>1, EntryKept

\* On every backend, for policies that count: as long as two clients are not inside the
\* registry's lock at once, a backup whose success was reported, the newest one that is
\* ready, and the one a restore has selected have an entry and, until a newer backup
\* is ready, the very archive their digest is of.  Not so where two backups started in
\* one second with one setting: of these it says only that an archive of the name is
\* there (the run same_second shows whose).
THEOREM BackupsKeptWhileExclusive ==
    ASSUME PoliciesKeepNewest
    PROVE  Spec => ([]LockExclusive => [](/\ NewestIsRestorable /\ AcknowledgedIsKept
                                         /\ SelectedOrSuperseded))
<1>1. BackupsInv => NewestIsRestorable /\ AcknowledgedIsKept /\ SelectedOrSuperseded
  BY InvNewest, InvAcknowledged, InvSelected
<1> QED
  BY <1>1, BackupsInvWhileExclusive, PTL

\* The newest backup that is ready can be restored: with a file system or s3 and
\* policies that count, whatever retention runs, on however stale a copy of the
\* registry, and wherever it fails or is killed.
THEOREM NewestStaysRestorable ==
    ASSUME PoliciesKeepNewest, Backend # "ftp"
    PROVE  Spec => []NewestIsRestorable
BY BackupsKeptWhileExclusive, SystemLockIsExclusive, PTL

\* A backup that was reported to have succeeded stays in the registry with its time and
\* digest, and the archive of that digest stays stored until a newer backup is ready;
\* only a backup of the same second and setting, given the same name, can replace it.
THEOREM AcknowledgedStaysKept ==
    ASSUME PoliciesKeepNewest, Backend # "ftp"
    PROVE  Spec => []AcknowledgedIsKept
BY BackupsKeptWhileExclusive, SystemLockIsExclusive, PTL

\* A restore that has selected a backup finds its archive unless a newer backup has
\* become ready since, or one of the same second has replaced it.
THEOREM SelectedStaysOrSuperseded ==
    ASSUME PoliciesKeepNewest, Backend # "ftp"
    PROVE  Spec => []SelectedOrSuperseded
BY BackupsKeptWhileExclusive, SystemLockIsExclusive, PTL

\* Retention, which decides on a snapshot and deletes without the lock, deletes only
\* archives that the registry knows and that a newer ready backup supersedes.
THEOREM OnlySupersededIsDeleted ==
    ASSUME PoliciesKeepNewest, Backend # "ftp"
    PROVE  Spec => OnlySupersededDeleted
<1>1. BackupsInv /\ [Next]_vars =>
         [\A f \in Files : objects[f] # NoObject /\ objects'[f] = NoObject =>
            \E e \in Contents(store) : FileOf(e) = f /\ Superseded(e)]_objects
  BY DeletesSuperseded DEF BackupsInv, ArchivesInv
<1> QED
  BY <1>1, BackupsInvWhileExclusive, SystemLockIsExclusive, PTL DEF Spec, OnlySupersededDeleted

----------------------------------------------------------------------------
(***************************************************************************)
(* A command runs down.  The backups it has left are counted, so what it   *)
(* has picked from a registry is to be finite, whatever set digests are.   *)
(***************************************************************************)
Finite ==
    /\ IsFiniteSet(store) /\ IsFiniteSet(temp)
    /\ \A p \in Clients :
          IsFiniteSet(buf[p]) /\ IsFiniteSet(victims[p]) /\ IsFiniteSet(gone[p])

LEMMA FilesAreFinite == IsFiniteSet(Files)
<1> DEFINE seconds == {SecondOf[t] : t \in Times}
<1>1. IsFiniteSet(seconds)
  <2>1. IsFiniteSet(Times)
    BY FS_Interval, SystemAssumption
  <2>2. seconds \in SUBSET Times
    BY DomainAssumption
  <2> QED
    BY <2>1, <2>2, FS_Subset
<1>2. IsFiniteSet({TRUE, FALSE})
  <2>1. {TRUE, FALSE} = {TRUE} \cup {FALSE}
    OBVIOUS
  <2>2. IsFiniteSet({TRUE})
    BY FS_Singleton, Zenon
  <2>3. IsFiniteSet({TRUE} \cup {FALSE})
    BY <2>2, FS_AddElement, Zenon
  <2> QED
    BY <2>1, <2>3, Zenon
<1>3. IsFiniteSet(EncModes)
  <2>1. EncModes \in SUBSET {TRUE, FALSE}
    BY DomainAssumption
  <2> QED
    BY <1>2, <2>1, FS_Subset
<1> QED
  BY <1>1, <1>3, FS_Product DEF Files

LEMMA SpecialsAreFinite ==
    IsFiniteSet({}) /\ IsFiniteSet(NoRegistry) /\ IsFiniteSet(Torn)
BY FS_EmptySet, FS_Singleton DEF NoRegistry, Torn

\* Marking makes no more entries than there were, and a rebuild one for each name.
LEMMA MarkedFinite ==
    ASSUME NEW reg, IsFiniteSet(reg), NEW e
    PROVE  IsFiniteSet(Marked(reg, e))
<1> DEFINE f == [x \in reg |-> IF IDOf(x) = IDOf(e) THEN [x EXCEPT !.status = "deleted"] ELSE x]
<1>1. f \in Surjection(reg, Marked(reg, e))
  BY DEF Marked, Surjection
<1> QED
  BY <1>1, FS_Surjection

LEMMA RebuiltFinite ==
    ASSUME NEW files \in SUBSET Files
    PROVE  IsFiniteSet(Rebuilt(files))
<1> DEFINE f == [x \in files |-> NewEntry(x[1], x[2], Unknown)]
<1>1. IsFiniteSet(files)
  BY FilesAreFinite, FS_Subset
<1>2. f \in Surjection(files, Rebuilt(files))
  BY DEF Rebuilt, Surjection
<1> QED
  BY <1>1, <1>2, FS_Surjection

LEMMA LoadedFinite ==
    ASSUME Typed, NEW p \in Clients, NEW reg, IsFiniteSet(reg), \A q \in Clients : IsFiniteSet(buf[q]),
           LoadDone(p, reg) \/ AppendTo(p, reg) \/ MarkIn(p, reg)
    PROVE  \A q \in Clients : IsFiniteSet(buf'[q])
<1>1. IsFiniteSet(reg \cup {arg[p]}) /\ IsFiniteSet(Marked(reg, arg[p]))
  BY FS_AddElement, MarkedFinite
<1>2. \/ buf' = buf
      \/ buf' = [buf EXCEPT ![p] = reg]
      \/ buf' = [buf EXCEPT ![p] = reg \cup {arg[p]}]
      \/ buf' = [buf EXCEPT ![p] = Marked(reg, arg[p])]
  BY DEF LoadDone, AppendTo, MarkIn
<1> QED
  BY <1>1, <1>2 DEF Typed, ServiceTypeOK

LEMMA CallStepFinite ==
    ASSUME Typed, Finite, NEW p \in Clients, CallStep(p)
    PROVE  /\ IsFiniteSet(store') /\ IsFiniteSet(temp')
           /\ \A q \in Clients : IsFiniteSet(buf'[q])
<1> USE SpecialsAreFinite DEF Finite
<1>1. CASE \/ AcquireLock(p) \/ StatLock(p) \/ RenameLock(p) \/ LockFails(p) \/ ParseFails(p)
           \/ CallFails(p) \/ ReleaseLock(p) \/ UnlockFails(p)
  BY <1>1 DEF AcquireLock, StatLock, RenameLock, LockFails, ParseFails, CallFails, ReleaseLock,
              UnlockFails, storage, tempFile
<1>2. CASE DownloadFound(p) \/ DownloadMissing(p) \/ ListObjects(p)
  <2>1. UNCHANGED <<store, temp>>
    BY <1>2 DEF DownloadFound, DownloadMissing, ListObjects, storage, tempFile
  <2>2. \/ \E reg \in {store, {}} : LoadDone(p, reg) \/ AppendTo(p, reg) \/ MarkIn(p, reg)
        \/ buf' = buf
        \/ buf' = [buf EXCEPT ![p] = Rebuilt(Stored)]
    BY <1>2 DEF DownloadFound, DownloadMissing, ListObjects
  <2>3. IsFiniteSet(Rebuilt(Stored))
    BY RebuiltFinite DEF Stored
  <2>4. CASE \E reg \in {store, {}} : LoadDone(p, reg) \/ AppendTo(p, reg) \/ MarkIn(p, reg)
    BY <2>1, <2>4, LoadedFinite
  <2> QED
    BY <2>1, <2>2, <2>3, <2>4 DEF Typed, ServiceTypeOK
<1>3. CASE UploadRegistry(p) \/ UploadAmbiguous(p)
  BY <1>3 DEF UploadRegistry, UploadAmbiguous, tempFile
<1>4. CASE StoreTemp(p) \/ TempStored(p) \/ RenameTemp(p) \/ ReplaceFails(p)
  <2>1. /\ UNCHANGED buf
        /\ store' \in {store, Torn, temp, buf[p]}
        /\ temp' \in {temp, Torn, buf[p], NoRegistry}
    BY <1>4 DEF StoreTemp, TempStored, Transferred, RenameTemp, ReplaceFails
  <2> QED
    BY <2>1
<1> QED
  BY <1>1, <1>2, <1>3, <1>4 DEF CallStep

LEMMA FiniteInit == Init => Finite
BY SpecialsAreFinite DEF Init, ServiceInit, Finite

\* What a command has left to delete and to mark comes from what it has loaded.
LEMMA TaskFinite ==
    ASSUME Sound, Finite, NEW p \in Clients, ClientStep(p)
    PROVE  IsFiniteSet(victims'[p]) /\ IsFiniteSet(gone'[p])
<1> DEFINE all == buf[p] \cup (victims[p] \cup gone[p])
<1>1. IsFiniteSet(all)
  BY FS_Union DEF Finite
<1>2. victims'[p] \in SUBSET all /\ gone'[p] \in SUBSET all
  BY PicksUp
<1> QED
  BY <1>1, <1>2, FS_Subset

LEMMA FiniteStep == Sound /\ Finite /\ [Next]_vars => Finite'
<1> SUFFICES ASSUME Sound, Finite, [Next]_vars PROVE Finite'
  OBVIOUS
<1>1. ASSUME UNCHANGED <<store, temp, buf, victims, gone>> PROVE Finite'
  BY <1>1 DEF Finite
<1>2. ASSUME NEW p \in Clients, ClientStep(p) PROVE Finite'
  <2>1. /\ IsFiniteSet(store') /\ IsFiniteSet(temp')
        /\ \A q \in Clients : IsFiniteSet(buf'[q])
    <3>1. CASE RegistryStep(p)
      BY <3>1, CallStepFinite DEF RegistryStep, Sound
    <3>2. CASE ~RegistryStep(p)
      <4>1. UNCHANGED <<store, temp>> /\ (UNCHANGED buf \/ Forget(p))
        BY <1>2, <3>2
           DEF ClientStep, CommandStep, StartCommand, CancelCommand, NextCommand, CrashCommand,
               UploadBackup, UploadFails, RegisterBackup, BackupRegistered, LoadForRetention,
               PlanRetention, DeleteBackup, DeleteFails, DeletesDone, MarkNext, MarkReturned,
               RetentionDone, ListDone, SelectLatest, SelectByID, Fetch, StartBackup,
               StartRetention, StartList, StartRestore, Cancel, Renew, Crash, Return, Invoke,
               serviceVars, storage, tempFile, call
      <4> QED
        BY <4>1, SpecialsAreFinite DEF Finite, Forget, Sound, Typed, ServiceTypeOK
    <3> QED
      BY <3>1, <3>2
  <2>2. ASSUME NEW q \in Clients \ {p} PROVE IsFiniteSet(victims'[q]) /\ IsFiniteSet(gone'[q])
    BY <1>2, StepOfOne DEF OnlyOf, Finite
  <2> QED
    BY <1>2, <2>1, <2>2, TaskFinite DEF Finite
<1> QED
  BY <1>1, <1>2 DEF Next, ClientStep, Tick, vars, serviceVars, storage, tempFile, call, taskVars

LEMMA LeftIsNatural ==
    ASSUME Sound, Finite, NEW p \in Clients
    PROVE  StagesLeft(p) \in Nat /\ BackupsLeft(p) \in Nat /\ CallLeft(p) \in Nat
<1>1. StagesLeft(p) \in Nat
  <2>1. pc[p] \in PCs
    BY DEF Sound, TaskTyped
  <2> QED
    BY <2>1 DEF StagesLeft, PCs
<1>2. BackupsLeft(p) \in Nat
  <2>1. Cardinality(victims[p]) \in Nat /\ Cardinality(gone[p]) \in Nat
    BY FS_CardinalityType DEF Finite
  <2> QED
    BY <2>1 DEF BackupsLeft
<1>3. CallLeft(p) \in Nat
  <2>1. phase[p] \in Phases
    BY DEF Sound, Typed, ServiceTypeOK
  <2> QED
    BY <2>1 DEF CallLeft, Ahead, Phases, Critical
<1> QED
  BY <1>1, <1>2, <1>3

\* A deletion is one of two things left to do for a backup, a mark the other.
LEMMA DeletingCounts ==
    ASSUME Sound, Finite, NEW p \in Clients, NEW v \in victims[p],
           victims'[p] = victims[p] \ {v}, gone'[p] \in {gone[p], gone[p] \cup {v}}
    PROVE  BackupsLeft(p)' < BackupsLeft(p)
<1>1. /\ Cardinality(victims[p]) \in Nat /\ Cardinality(gone[p]) \in Nat
      /\ Cardinality(victims'[p]) = Cardinality(victims[p]) - 1
  BY FS_CardinalityType, FS_RemoveElement DEF Finite
<1>2. Cardinality(gone'[p]) \in {Cardinality(gone[p]), Cardinality(gone[p]) + 1}
  BY FS_AddElement DEF Finite
<1> QED
  BY <1>1, <1>2 DEF BackupsLeft

LEMMA MarkingCounts ==
    ASSUME Sound, Finite, NEW p \in Clients, NEW v \in gone[p],
           victims'[p] = victims[p], gone'[p] = gone[p] \ {v}
    PROVE  BackupsLeft(p)' < BackupsLeft(p)
<1>1. /\ Cardinality(victims[p]) \in Nat /\ Cardinality(gone[p]) \in Nat
      /\ Cardinality(gone'[p]) = Cardinality(gone[p]) - 1
  BY FS_CardinalityType, FS_RemoveElement DEF Finite
<1> QED
  BY <1>1 DEF BackupsLeft

\* A command that ends has nothing left.
LEMMA ExitNearer ==
    ASSUME Sound, NEW p \in Clients, pc[p] # "idle", Exit(p)
    PROVE  Nearer(p)
<1>1. pc'[p] = "idle" /\ pc[p] \in PCs
  BY ExitTyped DEF Sound, TaskTyped
<1> QED
  BY <1>1 DEF Nearer, StagesLeft, PCs

\* Each step of a command leaves it less to do.
LEMMA CommandStepNearer ==
    ASSUME Sound, Finite, NEW p \in Clients, CommandStep(p)
    PROVE  Nearer(p)
<1> USE DEF Sound, TaskTyped, GoTo
<1> TaskOf(p)
  BY DEF Tasks
<1>1. CASE \/ UploadBackup(p) \/ RegisterBackup(p) \/ LoadForRetention(p) \/ DeletesDone(p)
  BY <1>1 DEF UploadBackup, RegisterBackup, LoadForRetention, DeletesDone, Nearer, StagesLeft
<1>2. CASE UploadFails(p) \/ RetentionDone(p) \/ ListDone(p) \/ Fetch(p)
  BY <1>2, ExitNearer DEF UploadFails, RetentionDone, ListDone, Fetch
<1>3. CASE BackupRegistered(p) \/ PlanRetention(p) \/ SelectLatest(p) \/ SelectByID(p)
  <2>1. pc[p] \in {"appending", "loading", "selecting"}
    BY <1>3 DEF BackupRegistered, PlanRetention, SelectLatest, SelectByID
  <2>2. CASE ~Exit(p)
    BY <1>3, <2>2 DEF BackupRegistered, PlanRetention, SelectLatest, SelectByID, Nearer, StagesLeft
  <2> QED
    BY <2>1, <2>2, ExitNearer
<1>4. CASE DeleteBackup(p) \/ DeleteFails(p)
  <2>1. CASE Exit(p)
    BY <1>4, <2>1, ExitNearer DEF DeleteBackup, DeleteFails
  <2>2. CASE ~Exit(p)
    <3>1. UNCHANGED pc
      BY <1>4, <2>2 DEF DeleteBackup, DeleteFails
    <3>2. PICK v \in victims[p] : /\ victims'[p] = victims[p] \ {v}
                                  /\ gone'[p] \in {gone[p], gone[p] \cup {v}}
      BY <1>4, <2>2 DEF DeleteBackup, DeleteFails, NextOf
    <3>3. BackupsLeft(p)' < BackupsLeft(p)
      BY <3>2, DeletingCounts
    <3> QED
      BY <3>1, <3>3 DEF Nearer, StagesLeft
  <2> QED
    BY <2>1, <2>2
<1>5. CASE MarkNext(p)
  <2>1. pc[p] = "mark" /\ pc'[p] = "marking" /\ phase'[p] = "lock" /\ UNCHANGED <<victims, gone>>
    BY <1>5 DEF MarkNext, Invoke, Typed, ServiceTypeOK
  <2>2. StagesLeft(p)' = StagesLeft(p) /\ BackupsLeft(p)' = BackupsLeft(p)
    BY <2>1 DEF StagesLeft, BackupsLeft
  <2>3. CallLeft(p)' < CallLeft(p)
    BY <2>1 DEF CallLeft, Ahead
  <2> QED
    BY <2>2, <2>3 DEF Nearer
<1>6. CASE MarkReturned(p)
  <2>1. pc[p] = "marking" /\ arg[p] \in gone[p]
    BY <1>6 DEF MarkReturned, TaskOf
  <2>2. CASE Exit(p)
    BY <2>1, <2>2, ExitNearer
  <2>3. CASE ~Exit(p)
    <3>1. pc'[p] = "mark" /\ victims'[p] = victims[p] /\ gone'[p] = gone[p] \ {arg[p]}
      BY <1>6, <2>3 DEF MarkReturned
    <3>2. BackupsLeft(p)' < BackupsLeft(p)
      BY <2>1, <3>1, MarkingCounts
    <3> QED
      BY <2>1, <3>1, <3>2 DEF Nearer, StagesLeft
  <2> QED
    BY <2>2, <2>3
<1>7. CASE RegistryStep(p)
  <2>1. UNCHANGED taskVars /\ Ahead(p)' < Ahead(p)
    BY <1>7, CallStepNearer DEF RegistryStep
  <2>2. pc[p] # "mark"
    BY <1>7, CallStepShape DEF RegistryStep, TaskOf, Calling
  <2> QED
    BY <2>1, <2>2 DEF Nearer, StagesLeft, BackupsLeft, CallLeft, taskVars
<1> QED
  BY <1>1, <1>2, <1>3, <1>4, <1>5, <1>6, <1>7 DEF CommandStep

LEMMA StepNearer ==
    ASSUME Sound, Finite, [Next]_vars, NEW p \in Clients, pc[p] # "idle"
    PROVE  UNCHANGED Place(p) \/ Nearer(p)
<1>1. CASE UNCHANGED <<phase, taskVars>>
  BY <1>1 DEF Place, taskVars
<1>2. ASSUME NEW q \in Clients, q # p, ClientStep(q) PROVE UNCHANGED Place(p)
  BY <1>2, StepOfOne DEF OnlyOf, Place
<1>3. CASE CommandStep(p)
  BY <1>3, CommandStepNearer
<1>4. CASE StartCommand(p) \/ NextCommand(p)
  BY <1>4 DEF StartCommand, NextCommand, StartBackup, StartRetention, StartList, StartRestore
<1>5. CASE CancelCommand(p)
  BY <1>5 DEF CancelCommand, Cancel, Place, call, taskVars
<1>6. CASE CrashCommand(p)
  BY <1>6, ExitNearer DEF CrashCommand
<1> QED
  BY <1>1, <1>2, <1>3, <1>4, <1>5, <1>6
     DEF Next, ClientStep, Tick, vars, serviceVars, call

\* However many backups there are and whatever the others do, nothing sets a command
\* back: it has the fewer backups, or the shorter way to the end of its call, before
\* it.  A forced retention does not try again, and a crash or an error only ends it.
THEOREM NothingSetsBack == Spec => CommandsRunDown
<1>1. Sound /\ Finite /\ [Next]_vars =>
         [\A p \in Clients : pc[p] = "idle" \/ UNCHANGED Place(p) \/ Nearer(p)]_vars
  BY StepNearer
<1> QED
  BY <1>1, SoundInit, SoundStep, FiniteInit, FiniteStep, PTL DEF Spec, CommandsRunDown

\* And each step of its own leaves a command less to do.  What is left is counted in
\* natural numbers, stage before backups before call, so no command runs for ever.
THEOREM CommandsAdvance ==
    Spec => /\ [](\A p \in Clients :
                     StagesLeft(p) \in Nat /\ BackupsLeft(p) \in Nat /\ CallLeft(p) \in Nat)
            /\ [][\A p \in Clients : CommandStep(p) => Nearer(p)]_vars
<1>1. Sound /\ Finite => \A p \in Clients :
         StagesLeft(p) \in Nat /\ BackupsLeft(p) \in Nat /\ CallLeft(p) \in Nat
  BY LeftIsNatural
<1>2. Sound /\ Finite /\ [Next]_vars => [\A p \in Clients : CommandStep(p) => Nearer(p)]_vars
  BY CommandStepNearer
<1> QED
  BY <1>1, <1>2, SoundInit, SoundStep, FiniteInit, FiniteStep, PTL DEF Spec
============================================================================
