----------------------- MODULE RegistryServiceProofs -----------------------
(***************************************************************************)
(* Theorems about RegistryService, for every set of clients, every set of  *)
(* backups and every number of faults and cancellations.                   *)
(*                                                                         *)
(* The inductive invariants:                                               *)
(*   Typed      the types, and appended or marked entries are entries      *)
(*   Mutex      (not on ftp) a client between Lock and Unlock has the lock *)
(*              file to itself                                             *)
(*   Locked     on every backend, as long as LockExclusive holds: what a   *)
(*              client is about to write is the change it was asked for,   *)
(*              made to what the storage holds now (Current), the ftp      *)
(*              temporary file is its own (TempOwned), and the registry    *)
(*              file can be loaded                                         *)
(*   Held       as long as nothing has failed (on s3: or been cancelled), a*)
(*              lock file is that of a client between Lock and Unlock      *)
(* On ftp the theorems about updates and atomicity hold as long as no two  *)
(* clients get into the lock at once, which the run ftp_lock_race shows    *)
(* possible; with a file system or s3 Mutex discharges that condition.     *)
(***************************************************************************)
EXTENDS RegistryService, TLAPS

----------------------------------------------------------------------------
(***************************************************************************)
(* Facts about the operators of RegistryDomain: what appending, marking    *)
(* and rebuilding do to the type and the validity of a registry.           *)
(***************************************************************************)

\* A set of entries is never the value that stands for "no registry file".
LEMMA EntriesAreARegistry ==
    ASSUME NEW reg \in SUBSET Entry
    PROVE  reg # NoRegistry /\ Contents(reg) = reg
BY NoEntryAssumption DEF NoRegistry, Contents

\* Contents is a set of entries, the file there or not.
LEMMA ContentsTyped ==
    ASSUME NEW s \in (SUBSET Entry) \cup {NoRegistry}
    PROVE  Contents(s) \in SUBSET Entry
BY DEF Contents

\* MarkDeleted changes no entry but in its status, and keeps every entry.
LEMMA MarkedTyped ==
    ASSUME NEW reg \in SUBSET Entry, NEW e
    PROVE  Marked(reg, e) \in SUBSET Entry
BY DEF Marked, Entry, Statuses

LEMMA MarkedKeeps ==
    ASSUME NEW reg \in SUBSET Entry, NEW e, NEW x \in reg
    PROVE  \E y \in Marked(reg, e) : /\ SameBackup(y, x)
                                     /\ y.status # x.status => y.status = "deleted"
<1> DEFINE y == IF IDOf(x) = IDOf(e) THEN [x EXCEPT !.status = "deleted"] ELSE x
<1>1. y \in Marked(reg, e)
  BY DEF Marked
<1>2. /\ SameBackup(y, x)
      /\ y.status # x.status => y.status = "deleted"
  BY DEF SameBackup, Entry
<1> QED
  BY <1>1, <1>2

LEMMA MarkedFrom ==
    ASSUME NEW reg \in SUBSET Entry, NEW e, NEW y \in Marked(reg, e)
    PROVE  \E x \in reg : /\ y = IF IDOf(x) = IDOf(e) THEN [x EXCEPT !.status = "deleted"] ELSE x
                          /\ SameBackup(y, x)
BY DEF Marked, SameBackup, Entry

\* The name and the identifier of a backup do not change with its status.
LEMMA SameNames ==
    ASSUME NEW a, NEW b, SameBackup(a, b)
    PROVE  IDOf(a) = IDOf(b) /\ FileOf(a) = FileOf(b)
BY DEF SameBackup, IDOf, FileOf

\* The names List returns give entries.
LEMMA RebuiltTyped ==
    ASSUME NEW F \in SUBSET Files
    PROVE  Rebuilt(F) \in SUBSET Entry
BY DomainAssumption DEF Rebuilt, NewEntry, Files, Entry, Statuses

\* An append whose check passes keeps the registry valid.
LEMMA AppendKeepsValid ==
    ASSUME NEW reg, Valid(reg), NEW e, CanAppend(reg, e)
    PROVE  Valid(reg \cup {e})
BY DEF Valid, CanAppend

\* So does marking.
LEMMA MarkKeepsValid ==
    ASSUME NEW reg \in SUBSET Entry, Valid(reg), NEW e
    PROVE  Valid(Marked(reg, e))
<1> SUFFICES ASSUME NEW a \in Marked(reg, e), NEW b \in Marked(reg, e), a # b
             PROVE  IDOf(a) # IDOf(b) /\ FileOf(a) # FileOf(b)
  BY DEF Valid
<1>1. PICK x \in reg : /\ a = IF IDOf(x) = IDOf(e) THEN [x EXCEPT !.status = "deleted"] ELSE x
                       /\ IDOf(a) = IDOf(x) /\ FileOf(a) = FileOf(x)
  BY MarkedFrom, SameNames
<1>2. PICK y \in reg : /\ b = IF IDOf(y) = IDOf(e) THEN [y EXCEPT !.status = "deleted"] ELSE y
                       /\ IDOf(b) = IDOf(y) /\ FileOf(b) = FileOf(y)
  BY MarkedFrom, SameNames
<1>3. x # y
  BY <1>1, <1>2
<1> QED
  BY <1>1, <1>2, <1>3 DEF Valid

\* The empty registry is valid.
LEMMA EmptyIsValid == Valid({})
BY DEF Valid

----------------------------------------------------------------------------

\* An append or a mark has an entry to append or mark.
ArgTyped == \A p \in Clients : op[p] \in {"append", "mark"} => arg[p] \in Entry

Typed == ServiceTypeOK /\ ArgTyped

LEMMA TypedInit == ServiceInit => Typed
<1> SUFFICES ASSUME ServiceInit PROVE Typed
  OBVIOUS
<1>1. lockFile \in BOOLEAN /\ cancelled \in [Clients -> BOOLEAN] /\ took \in [Clients -> BOOLEAN]
  BY DEF ServiceInit
<1>2. store \in FileContents /\ temp \in FileContents /\ writers \in SUBSET Clients
  BY DEF ServiceInit, FileContents
<1>3. ArgTyped
  BY DEF ServiceInit, ArgTyped
<1> QED
  BY <1>1, <1>2, <1>3 DEF ServiceInit, Typed, ServiceTypeOK, Phases, Ops, Critical

\* A call that is started, ended or forgotten keeps its variables well typed.
LEMMA InvokeTyped ==
    ASSUME Typed, NEW p \in Clients, NEW o \in Ops, NEW e \in Entry \cup {NoEntry},
           o \in {"append", "mark"} => e \in Entry, Invoke(p, o, e)
    PROVE  Typed'
BY DEF Typed, ServiceTypeOK, ArgTyped, Invoke, Phases, Ops, Critical, storage, tempFile, budget

LEMMA ForgetTyped ==
    ASSUME Typed, NEW p \in Clients, Forget(p)
    PROVE  /\ phase' \in [Clients -> Phases]
           /\ op' \in [Clients -> Ops]
           /\ arg' \in [Clients -> Entry \cup {NoEntry}]
           /\ buf' \in [Clients -> SUBSET Entry]
           /\ outcome' \in [Clients -> {"ok", "error"}]
           /\ took' \in [Clients -> BOOLEAN]
           /\ ArgTyped'
BY DEF Typed, ServiceTypeOK, ArgTyped, Forget, Phases, Ops, Critical

\* What the three operations make of a well typed registry.
LEMMA LoadedTyped ==
    ASSUME Typed, NEW p \in Clients, NEW reg \in SUBSET Entry,
           LoadDone(p, reg) \/ AppendTo(p, reg) \/ MarkIn(p, reg)
    PROVE  /\ phase' \in [Clients -> Phases]
           /\ buf' \in [Clients -> SUBSET Entry]
           /\ outcome' \in [Clients -> {"ok", "error"}]
           /\ took' \in [Clients -> BOOLEAN]
<1>1. CASE LoadDone(p, reg)
  BY <1>1 DEF Typed, ServiceTypeOK, LoadDone, Finish, Phases, Critical
<1>2. CASE AppendTo(p, reg)
  <2>1. reg \cup {arg[p]} \in SUBSET Entry
    BY <1>2 DEF Typed, ArgTyped, AppendTo
  <2> QED
    BY <1>2, <2>1 DEF Typed, ServiceTypeOK, AppendTo, Finish, Phases, Critical
<1>3. CASE MarkIn(p, reg)
  <2>1. Marked(reg, arg[p]) \in SUBSET Entry
    BY MarkedTyped
  <2> QED
    BY <1>3, <2>1 DEF Typed, ServiceTypeOK, MarkIn, Phases, Critical
<1> QED
  BY <1>1, <1>2, <1>3

\* Every step of a call keeps the types.
LEMMA CallStepTyped ==
    ASSUME Typed, NEW p \in Clients, CallStep(p)
    PROVE  Typed'
<1> USE DEF Typed
<1>1. CASE AcquireLock(p) \/ StatLock(p) \/ RenameLock(p) \/ LockFails(p)
  <2>1. lockFile' \in BOOLEAN
    BY <1>1 DEF ServiceTypeOK, AcquireLock, StatLock, RenameLock, LockFails, storage
  <2>2. cancelled' \in [Clients -> BOOLEAN] /\ took' \in [Clients -> BOOLEAN]
    BY <1>1 DEF ServiceTypeOK, AcquireLock, StatLock, RenameLock, LockFails
  <2> QED
    BY <1>1, <2>1, <2>2
     DEF ServiceTypeOK, ArgTyped, AcquireLock, StatLock, RenameLock, LockFails, Finish,
         Fault, NoFault, storage, tempFile, budget, Phases, Critical
<1>2. CASE DownloadFound(p)
  <2>1. store \in SUBSET Entry
    BY <1>2 DEF ServiceTypeOK, DownloadFound, FileContents
  <2> QED
    BY <1>2, <2>1, LoadedTyped
       DEF ServiceTypeOK, ArgTyped, DownloadFound, storage, tempFile, budget
<1>3. CASE DownloadMissing(p)
  <2>1. CASE LoadDone(p, {}) \/ AppendTo(p, {}) \/ MarkIn(p, {})
    <3>1. {} \in SUBSET Entry
      OBVIOUS
    <3> QED
      BY <1>3, <2>1, <3>1, LoadedTyped
         DEF ServiceTypeOK, ArgTyped, DownloadMissing, storage, tempFile, budget
  <2>2. CASE phase' = [phase EXCEPT ![p] = "list"] /\ UNCHANGED <<buf, outcome, took>>
    BY <1>3, <2>2
       DEF ServiceTypeOK, ArgTyped, DownloadMissing, storage, tempFile, budget, Phases, Critical
  <2> QED
    BY <1>3, <2>1, <2>2 DEF DownloadMissing
<1>4. CASE ListObjects(p)
  <2>1. UNCHANGED <<storage, op, arg, cancelled, budget>>
    BY <1>4 DEF ListObjects
  <2>2. CASE LoadDone(p, {})
    <3>1. {} \in SUBSET Entry
      OBVIOUS
    <3> QED
      BY <2>1, <2>2, <3>1, LoadedTyped
         DEF ServiceTypeOK, ArgTyped, storage, tempFile, budget
  <2>3. CASE /\ buf' = [buf EXCEPT ![p] = Rebuilt(Stored)]
             /\ phase' = [phase EXCEPT ![p] = "upload"]
             /\ UNCHANGED <<outcome, took>>
    <3>1. Rebuilt(Stored) \in SUBSET Entry
      BY RebuiltTyped DEF Stored
    <3> QED
      BY <2>1, <2>3, <3>1
         DEF ServiceTypeOK, ArgTyped, storage, tempFile, budget, Phases, Critical
  <2>4. CASE Finish(p, "error", "unlock") /\ UNCHANGED <<buf, took>>
    BY <2>1, <2>4
       DEF ServiceTypeOK, ArgTyped, Finish, storage, tempFile, budget, Phases, Critical
  <2> QED
    BY <1>4, <2>2, <2>3, <2>4 DEF ListObjects
<1>5. CASE UploadRegistry(p) \/ UploadAmbiguous(p) \/ CallFails(p) \/ ParseFails(p)
  <2>1. /\ lockFile' \in BOOLEAN
        /\ cancelled' \in [Clients -> BOOLEAN]
        /\ took' \in [Clients -> BOOLEAN]
    BY <1>5 DEF ServiceTypeOK, UploadRegistry, UploadAmbiguous, CallFails, ParseFails, storage
  <2>2. store' \in FileContents /\ temp' \in FileContents /\ writers' \in SUBSET Clients
    BY <1>5
       DEF ServiceTypeOK, UploadRegistry, UploadAmbiguous, CallFails, ParseFails, storage,
           tempFile, FileContents
  <2> QED
    BY <1>5, <2>1, <2>2
     DEF ServiceTypeOK, ArgTyped, UploadRegistry, UploadAmbiguous, CallFails, ParseFails,
         Finish, Fault, NoFault, storage, tempFile, budget, Phases, Critical
<1>7. CASE StoreTemp(p) \/ TempStored(p) \/ RenameTemp(p) \/ ReplaceFails(p)
  <2>1. /\ lockFile' \in BOOLEAN
        /\ cancelled' \in [Clients -> BOOLEAN]
        /\ took' \in [Clients -> BOOLEAN]
    BY <1>7 DEF ServiceTypeOK, StoreTemp, TempStored, RenameTemp, ReplaceFails
  <2>4. Transferred(p) \subseteq FileContents
    BY DEF ServiceTypeOK, Transferred, FileContents
  <2>2. store' \in FileContents /\ temp' \in FileContents /\ writers' \in SUBSET Clients
    BY <1>7, <2>4
       DEF ServiceTypeOK, StoreTemp, TempStored, RenameTemp, ReplaceFails, FileContents
  <2>3. phase' \in [Clients -> Phases] /\ outcome' \in [Clients -> {"ok", "error"}]
    BY <1>7
       DEF ServiceTypeOK, StoreTemp, TempStored, RenameTemp, ReplaceFails, Finish, Phases,
           Critical
  <2> QED
    BY <1>7, <2>1, <2>2, <2>3
     DEF ServiceTypeOK, ArgTyped, StoreTemp, TempStored, RenameTemp, ReplaceFails, Fault,
         NoFault, budget
<1>6. CASE ReleaseLock(p) \/ UnlockFails(p)
  <2>1. /\ lockFile' \in BOOLEAN
        /\ cancelled' \in [Clients -> BOOLEAN]
        /\ took' \in [Clients -> BOOLEAN]
    BY <1>6 DEF ServiceTypeOK, ReleaseLock, UnlockFails, storage
  <2> QED
    BY <1>6, <2>1
     DEF ServiceTypeOK, ArgTyped, ReleaseLock, UnlockFails, Fault, NoFault, storage, tempFile, budget,
         Phases, Critical
<1> QED
  BY <1>1, <1>2, <1>3, <1>4, <1>5, <1>6, <1>7 DEF CallStep

LEMMA TypedStep ==
    ASSUME Typed, [ServiceNext]_serviceVars
    PROVE  Typed'
<1>1. CASE UNCHANGED serviceVars
  BY <1>1 DEF Typed, ServiceTypeOK, ArgTyped, serviceVars, storage, tempFile, call, budget
<1>2. ASSUME NEW p \in Clients, NEW o \in {"load", "recover"}, Invoke(p, o, NoEntry)
      PROVE  Typed'
  BY <1>2, InvokeTyped DEF Ops
<1>3. ASSUME NEW p \in Clients, NEW e \in NewEntries, Invoke(p, "append", e)
      PROVE  Typed'
  <2>1. e \in Entry
    BY DEF NewEntries
  <2> QED
    BY <1>3, <2>1, InvokeTyped DEF Ops
<1>4. ASSUME NEW p \in Clients, NEW e \in Ready(Entry), Invoke(p, "mark", e)
      PROVE  Typed'
  <2>1. e \in Entry
    BY DEF Ready
  <2> QED
    BY <1>4, <2>1, InvokeTyped DEF Ops
<1>5. ASSUME NEW p \in Clients, CallStep(p)
      PROVE  Typed'
  BY <1>5, CallStepTyped
<1>6. ASSUME NEW p \in Clients, Return(p) \/ Crash(p)
      PROVE  Typed'
  <2>1. Forget(p)
    BY <1>6 DEF Return, Crash
  <2> QED
    BY <1>6, <2>1, ForgetTyped
       DEF Typed, ServiceTypeOK, ArgTyped, Return, Crash, Fault, storage, tempFile, budget
<1>7. ASSUME NEW p \in Clients, Cancel(p) \/ Renew(p)
      PROVE  Typed'
  <2>1. cancelled' \in [Clients -> BOOLEAN]
    BY <1>7 DEF Typed, ServiceTypeOK, Cancel, Renew
  <2> QED
    BY <1>7, <2>1 DEF Typed, ServiceTypeOK, ArgTyped, Cancel, Renew, storage, tempFile, call, budget
<1>8. CASE ObjectsChange
  BY <1>8 DEF Typed, ServiceTypeOK, ArgTyped, ObjectsChange, tempFile, call, budget
<1> QED
  BY <1>1, <1>2, <1>3, <1>4, <1>5, <1>6, <1>7, <1>8 DEF ServiceNext

\* The registry service is type correct: what it saves is always a set of
\* entries, whatever is interrupted.
THEOREM ServiceTypeCorrect == ServiceSpec => []ServiceTypeOK
<1>1. ServiceInit => Typed
  BY TypedInit
<1>2. Typed /\ [ServiceNext]_serviceVars => Typed'
  BY TypedStep
<1>3. Typed => ServiceTypeOK
  BY DEF Typed
<1> QED
  BY <1>1, <1>2, <1>3, PTL DEF ServiceSpec

\* Whichever way a call goes, on any backend, each of its steps brings it nearer to
\* its answer; a call of another client does not touch it.
LEMMA CallStepNearer ==
    ASSUME Typed, NEW p \in Clients, CallStep(p)
    PROVE  /\ Ahead(p)' < Ahead(p)
           /\ \A q \in Clients \ {p} : phase'[q] = phase[q]
<1> USE DEF Typed, ServiceTypeOK
<1>1. CASE AcquireLock(p) \/ StatLock(p) \/ RenameLock(p) \/ LockFails(p)
  BY <1>1 DEF AcquireLock, StatLock, RenameLock, LockFails, Finish, Ahead
<1>2. CASE DownloadFound(p) \/ DownloadMissing(p) \/ ListObjects(p)
  <2>1. \/ /\ phase[p] \in {"download", "list"}
           /\ \/ phase' = [phase EXCEPT ![p] = "upload"]
              \/ phase' = [phase EXCEPT ![p] = "unlock"]
        \/ phase[p] = "download" /\ phase' = [phase EXCEPT ![p] = "list"]
    BY <1>2 DEF DownloadFound, DownloadMissing, ListObjects, LoadDone, AppendTo, MarkIn, Finish
  <2> QED
    BY <2>1 DEF Ahead
<1>3. CASE ParseFails(p) \/ CallFails(p) \/ UploadRegistry(p) \/ UploadAmbiguous(p)
  BY <1>3 DEF ParseFails, CallFails, UploadRegistry, UploadAmbiguous, Finish, Ahead
<1>4. CASE StoreTemp(p) \/ TempStored(p) \/ RenameTemp(p) \/ ReplaceFails(p)
  BY <1>4 DEF StoreTemp, TempStored, RenameTemp, ReplaceFails, Finish, Ahead
<1>5. CASE ReleaseLock(p) \/ UnlockFails(p)
  BY <1>5 DEF ReleaseLock, UnlockFails, Ahead
<1> QED
  BY <1>1, <1>2, <1>3, <1>4, <1>5 DEF CallStep

\* No call of the registry service waits, retries or starts over: it is at its end
\* after at most eight steps of its own, whatever fails and whatever others do.
THEOREM CallsRunDown ==
    ServiceSpec =>
        [][\A p \in Clients : CallStep(p) =>
              /\ Ahead(p)' < Ahead(p)
              /\ \A q \in Clients \ {p} : Ahead(q)' = Ahead(q)]_serviceVars
<1>1. ASSUME Typed, NEW p \in Clients, CallStep(p)
      PROVE  /\ Ahead(p)' < Ahead(p)
             /\ \A q \in Clients \ {p} : Ahead(q)' = Ahead(q)
  BY <1>1, CallStepNearer DEF Ahead
<1>2. Typed /\ [ServiceNext]_serviceVars =>
         [\A p \in Clients : CallStep(p) =>
             /\ Ahead(p)' < Ahead(p)
             /\ \A q \in Clients \ {p} : Ahead(q)' = Ahead(q)]_serviceVars
  BY <1>1
<1> QED
  BY <1>2, TypedInit, TypedStep, PTL DEF ServiceSpec

----------------------------------------------------------------------------
\* A client between Lock and Unlock has the lock file to itself.
Mutex ==
    /\ \A p \in Clients : phase[p] \in Critical => lockFile
    /\ LockExclusive
    /\ \A p \in Clients : phase[p] # "rename"

\* A step that changes no lock file and lets nobody in keeps the mutual exclusion.
LEMMA MutexFrame ==
    ASSUME ServiceTypeOK, Mutex, NEW p \in Clients, NEW c,
           phase' = [phase EXCEPT ![p] = c],
           c \in Critical => phase[p] \in Critical,
           c # "rename",
           lockFile' = lockFile \/ lockFile'
    PROVE  Mutex'
BY DEF ServiceTypeOK, Mutex, LockExclusive, Critical

LEMMA MutexCallStep ==
    ASSUME Backend # "ftp", Typed, Mutex, NEW p \in Clients, CallStep(p)
    PROVE  Mutex'
<1> USE DEF Typed
<1>1. CASE AcquireLock(p)
  BY <1>1 DEF AcquireLock, ServiceTypeOK, Mutex, LockExclusive, Critical
<1>2. CASE StatLock(p) \/ RenameLock(p)
  BY <1>2 DEF StatLock, RenameLock, Mutex
<1>3. CASE LockFails(p)
  BY <1>3, MutexFrame DEF LockFails, Finish, Critical
<1>4. CASE DownloadFound(p)
  <2>1. PICK c \in {"upload", "unlock"} : phase' = [phase EXCEPT ![p] = c]
    BY <1>4 DEF DownloadFound, LoadDone, AppendTo, MarkIn, Finish
  <2> QED
    BY <1>4, <2>1, MutexFrame DEF DownloadFound, Critical, storage
<1>5. CASE DownloadMissing(p)
  <2>1. PICK c \in {"list", "upload", "unlock"} : phase' = [phase EXCEPT ![p] = c]
    BY <1>5 DEF DownloadMissing, LoadDone, AppendTo, MarkIn, Finish
  <2> QED
    BY <1>5, <2>1, MutexFrame DEF DownloadMissing, Critical, storage
<1>6. CASE ListObjects(p)
  <2>1. PICK c \in {"upload", "unlock"} : phase' = [phase EXCEPT ![p] = c]
    BY <1>6 DEF ListObjects, LoadDone, Finish
  <2> QED
    BY <1>6, <2>1, MutexFrame DEF ListObjects, Critical, storage
<1>7. CASE UploadRegistry(p) \/ UploadAmbiguous(p) \/ CallFails(p) \/ ParseFails(p)
  BY <1>7, MutexFrame
     DEF UploadRegistry, UploadAmbiguous, CallFails, ParseFails, Finish, Critical, storage
<1>10. CASE StoreTemp(p) \/ TempStored(p) \/ RenameTemp(p) \/ ReplaceFails(p)
  BY <1>10, MutexFrame
     DEF StoreTemp, TempStored, RenameTemp, ReplaceFails, Finish, Critical
<1>8. CASE ReleaseLock(p)
  BY <1>8 DEF ReleaseLock, ServiceTypeOK, Mutex, LockExclusive, Critical
<1>9. CASE UnlockFails(p)
  BY <1>9, MutexFrame DEF UnlockFails, Critical, storage
<1> QED
  BY <1>1, <1>2, <1>3, <1>4, <1>5, <1>6, <1>7, <1>8, <1>9, <1>10 DEF CallStep

LEMMA MutexStep ==
    ASSUME Backend # "ftp", Typed, Mutex, [ServiceNext]_serviceVars
    PROVE  Mutex'
<1>1. CASE UNCHANGED <<phase, lockFile>>
  BY <1>1 DEF Mutex, LockExclusive
<1>2. CASE UNCHANGED serviceVars \/ ObjectsChange
           \/ \E p \in Clients : Cancel(p) \/ Renew(p)
  BY <1>1, <1>2 DEF serviceVars, storage, call, ObjectsChange, Cancel, Renew
<1>3. ASSUME NEW p \in Clients, NEW o, NEW e, Invoke(p, o, e)
      PROVE  Mutex'
  BY <1>3, MutexFrame DEF Invoke, Critical, storage, Typed
<1>4. ASSUME NEW p \in Clients, CallStep(p)
      PROVE  Mutex'
  BY <1>4, MutexCallStep
<1>5. ASSUME NEW p \in Clients, Return(p) \/ Crash(p)
      PROVE  Mutex'
  BY <1>5, MutexFrame DEF Return, Crash, Forget, Critical, storage, Typed
<1> QED
  BY <1>2, <1>3, <1>4, <1>5 DEF ServiceNext

\* Lock excludes: with a file system or s3 no two clients are ever between Lock
\* and Unlock at once, whatever fails, is cancelled or crashes.
THEOREM LockIsExclusive ==
    ASSUME Backend # "ftp"
    PROVE  ServiceSpec => []LockExclusive
<1>1. ServiceInit => Typed /\ Mutex
  BY TypedInit DEF ServiceInit, Mutex, LockExclusive, Critical
<1>2. Typed /\ Mutex /\ [ServiceNext]_serviceVars => (Typed /\ Mutex)'
  BY TypedStep, MutexStep
<1>3. Mutex => LockExclusive
  BY DEF Mutex
<1> QED
  BY <1>1, <1>2, <1>3, PTL DEF ServiceSpec

----------------------------------------------------------------------------
\* What a client is about to write is the change it was asked for, made to what
\* the storage holds at this moment: its copy cannot have become stale.
Writing == {"upload", "store", "replace"}

CurrentFor(p) ==
    /\ phase[p] = "list" => op[p] = "recover" /\ store = NoRegistry
    /\ phase[p] \in Writing =>
          \/ /\ op[p] = "append" /\ CanAppend(Contents(store), arg[p])
             /\ buf[p] = Contents(store) \cup {arg[p]}
          \/ op[p] = "mark" /\ buf[p] = Marked(Contents(store), arg[p])
          \/ /\ op[p] = "recover" /\ store = NoRegistry
             /\ \E F \in SUBSET Files : F # {} /\ Valid(Rebuilt(F)) /\ buf[p] = Rebuilt(F)

Current == \A p \in Clients : CurrentFor(p)

\* The ftp temporary file is that of the client in its save: no other transfer
\* reaches it, and when the transfer has ended it holds that client's registry.
TempOwned ==
    \A p \in Clients : /\ phase[p] = "store" => temp = Torn /\ writers = {p}
                       /\ phase[p] = "replace" => temp = buf[p]

Locked == Typed /\ Current /\ TempOwned /\ StoredRegistryLoads

\* Torn, absent and well formed files differ.
LEMMA TornIsTold ==
    /\ Torn # NoRegistry
    /\ \A reg \in SUBSET Entry : reg # Torn /\ reg # NoRegistry
BY ServiceAssumption, NoEntryAssumption DEF Torn, NoRegistry

\* As long as the lock excludes, p is alone in it.
LEMMA Alone ==
    ASSUME Typed, LockExclusive, NEW p \in Clients, phase[p] \in Critical, NEW c,
           phase' = [phase EXCEPT ![p] = c]
    PROVE  /\ phase'[p] = c
           /\ \A q \in Clients \ {p} : phase[q] \notin Critical /\ phase'[q] \notin Critical
BY DEF Typed, ServiceTypeOK, LockExclusive

\* A step of p that writes nothing: only p's own copy needs to be looked at.
LEMMA CurrentFrame ==
    ASSUME Typed, Current, NEW p \in Clients, NEW c,
           phase' = [phase EXCEPT ![p] = c], store' = store,
           \A q \in Clients \ {p} : op'[q] = op[q] /\ arg'[q] = arg[q] /\ buf'[q] = buf[q],
           c \in {"list"} \cup Writing => CurrentFor(p)'
    PROVE  Current'
<1> SUFFICES ASSUME NEW q \in Clients PROVE CurrentFor(q)'
  BY DEF Current
<1>1. CASE q # p
  <2>1. phase'[q] = phase[q] /\ op'[q] = op[q] /\ arg'[q] = arg[q] /\ buf'[q] = buf[q]
    BY <1>1 DEF Typed, ServiceTypeOK
  <2> QED
    BY <2>1 DEF Current, CurrentFor
<1>2. CASE q = p /\ c \notin {"list"} \cup Writing
  BY <1>2 DEF Typed, ServiceTypeOK, CurrentFor
<1> QED
  BY <1>1, <1>2

\* The operation on what has just been loaded.
LEMMA CurrentLoaded ==
    ASSUME Typed, Current, NEW p \in Clients, UNCHANGED <<store, op, arg>>,
           LoadDone(p, Contents(store)) \/ AppendTo(p, Contents(store))
              \/ MarkIn(p, Contents(store))
    PROVE  Current'
<1> USE DEF Typed
<1>1. CASE LoadDone(p, Contents(store))
  BY <1>1, CurrentFrame DEF LoadDone, Finish, ServiceTypeOK, Writing
<1>2. CASE AppendTo(p, Contents(store)) /\ ~CanAppend(Contents(store), arg[p])
  BY <1>2, CurrentFrame DEF AppendTo, Finish, ServiceTypeOK, Writing
<1>3. CASE AppendTo(p, Contents(store)) /\ CanAppend(Contents(store), arg[p])
  <2>1. /\ phase' = [phase EXCEPT ![p] = "upload"]
        /\ \A q \in Clients \ {p} : op'[q] = op[q] /\ arg'[q] = arg[q] /\ buf'[q] = buf[q]
    BY <1>3 DEF AppendTo, ServiceTypeOK
  <2>2. CurrentFor(p)'
    BY <1>3 DEF AppendTo, ServiceTypeOK, CurrentFor, Writing
  <2> QED
    BY <2>1, <2>2, CurrentFrame
<1>4. CASE MarkIn(p, Contents(store))
  <2>1. /\ phase' = [phase EXCEPT ![p] = "upload"]
        /\ \A q \in Clients \ {p} : op'[q] = op[q] /\ arg'[q] = arg[q] /\ buf'[q] = buf[q]
    BY <1>4 DEF MarkIn, ServiceTypeOK
  <2>2. CurrentFor(p)'
    BY <1>4 DEF MarkIn, ServiceTypeOK, CurrentFor, Writing
  <2> QED
    BY <2>1, <2>2, CurrentFrame
<1> QED
  BY <1>1, <1>2, <1>3, <1>4

LEMMA CurrentCallStep ==
    ASSUME Locked, LockExclusive, NEW p \in Clients, CallStep(p)
    PROVE  Current'
<1> USE DEF Typed, Locked
<1>1. CASE AcquireLock(p) \/ StatLock(p) \/ RenameLock(p) \/ LockFails(p)
           \/ CallFails(p) \/ ParseFails(p) \/ ReleaseLock(p) \/ UnlockFails(p)
  BY <1>1, CurrentFrame
     DEF AcquireLock, StatLock, RenameLock, LockFails, CallFails, ParseFails, ReleaseLock,
         UnlockFails, Finish, storage, Writing
<1>2. CASE DownloadFound(p)
  <2>1. Contents(store) = store /\ UNCHANGED <<store, op, arg>>
    BY <1>2 DEF DownloadFound, Contents, storage
  <2> QED
    BY <1>2, <2>1, CurrentLoaded DEF DownloadFound
<1>3. CASE DownloadMissing(p)
  <2>1. /\ Contents(store) = {} /\ store = NoRegistry /\ UNCHANGED <<store, op, arg>>
    BY <1>3 DEF DownloadMissing, Contents, storage
  <2>2. CASE LoadDone(p, {}) \/ AppendTo(p, {}) \/ MarkIn(p, {})
    BY <2>1, <2>2, CurrentLoaded
  <2>3. CASE /\ op[p] = "recover" /\ phase' = [phase EXCEPT ![p] = "list"]
             /\ UNCHANGED buf
    <3>1. CurrentFor(p)'
      BY <2>1, <2>3 DEF CurrentFor, ServiceTypeOK, Writing
    <3> QED
      BY <2>1, <2>3, <3>1, CurrentFrame
  <2> QED
    BY <1>3, <2>2, <2>3 DEF DownloadMissing
<1>4. CASE ListObjects(p)
  <2>1. /\ op[p] = "recover" /\ store = NoRegistry /\ UNCHANGED <<store, op, arg>>
    BY <1>4 DEF ListObjects, Current, CurrentFor, storage
  <2>2. CASE LoadDone(p, {})
    BY <2>1, <2>2, CurrentFrame DEF LoadDone, Finish, ServiceTypeOK, Writing
  <2>3. CASE /\ Stored # {} /\ Valid(Rebuilt(Stored))
             /\ buf' = [buf EXCEPT ![p] = Rebuilt(Stored)]
             /\ phase' = [phase EXCEPT ![p] = "upload"]
    <3>1. CurrentFor(p)'
      <4>1. Stored \in SUBSET Files
        BY DEF Stored
      <4>2. buf'[p] = Rebuilt(Stored) /\ phase'[p] = "upload"
        BY <2>3 DEF ServiceTypeOK
      <4> QED
        BY <2>1, <2>3, <4>1, <4>2 DEF CurrentFor, Writing
    <3> QED
      BY <2>1, <2>3, <3>1, CurrentFrame DEF ServiceTypeOK
  <2>4. CASE Finish(p, "error", "unlock") /\ UNCHANGED buf
    BY <2>1, <2>4, CurrentFrame DEF Finish, Writing
  <2> QED
    BY <1>4, <2>2, <2>3, <2>4 DEF ListObjects
<1>5. CASE UploadRegistry(p) \/ UploadAmbiguous(p) \/ RenameTemp(p) \/ ReplaceFails(p)
  <2>1. phase[p] \in Critical /\ phase' = [phase EXCEPT ![p] = "unlock"]
    BY <1>5 DEF UploadRegistry, UploadAmbiguous, RenameTemp, ReplaceFails, Finish, Critical
  <2>2. \A q \in Clients : phase'[q] \notin {"list"} \cup Writing
    BY <2>1, Alone DEF Critical, Writing
  <2> QED
    BY <2>2 DEF Current, CurrentFor
<1>6. CASE StoreTemp(p) \/ TempStored(p)
  <2>1. PICK c \in {"store", "replace"} : phase' = [phase EXCEPT ![p] = c]
    BY <1>6 DEF StoreTemp, TempStored
  <2>2. phase[p] \in Writing /\ UNCHANGED <<op, arg, buf>>
    BY <1>6 DEF StoreTemp, TempStored, Writing
  <2>3. store' = store
    BY <1>6, TornIsTold DEF StoreTemp, TempStored, TempOwned
  <2>4. CurrentFor(p)'
    BY <2>1, <2>2, <2>3 DEF Current, CurrentFor, Writing, ServiceTypeOK
  <2> QED
    BY <2>1, <2>2, <2>3, <2>4, CurrentFrame
<1> QED
  BY <1>1, <1>2, <1>3, <1>4, <1>5, <1>6 DEF CallStep

LEMMA CurrentStep ==
    ASSUME Locked, LockExclusive, [ServiceNext]_serviceVars
    PROVE  Current'
<1>1. CASE UNCHANGED <<phase, op, arg, buf, store>>
  BY <1>1 DEF Locked, Current, CurrentFor
<1>2. CASE UNCHANGED serviceVars \/ ObjectsChange
           \/ \E p \in Clients : Cancel(p) \/ Renew(p)
  BY <1>1, <1>2 DEF serviceVars, storage, call, ObjectsChange, Cancel, Renew
<1>3. ASSUME NEW p \in Clients, NEW o, NEW e, Invoke(p, o, e)
      PROVE  Current'
  BY <1>3, CurrentFrame DEF Invoke, storage, Locked, Typed, ServiceTypeOK, Writing
<1>4. ASSUME NEW p \in Clients, CallStep(p)
      PROVE  Current'
  BY <1>4, CurrentCallStep
<1>5. ASSUME NEW p \in Clients, Return(p) \/ Crash(p)
      PROVE  Current'
  BY <1>5, CurrentFrame
     DEF Return, Crash, Forget, storage, Locked, Typed, ServiceTypeOK, Writing
<1> QED
  BY <1>2, <1>3, <1>4, <1>5 DEF ServiceNext

\* A step that leaves the temporary file alone and is not part of a transfer.
LEMMA TempFrame ==
    ASSUME Typed, TempOwned, NEW p \in Clients, NEW c, c \notin {"store", "replace"},
           phase' = [phase EXCEPT ![p] = c], UNCHANGED <<temp, writers>>,
           \A q \in Clients \ {p} : buf'[q] = buf[q]
    PROVE  TempOwned'
BY DEF Typed, ServiceTypeOK, TempOwned

LEMMA TempCallStep ==
    ASSUME Locked, LockExclusive, NEW p \in Clients, CallStep(p)
    PROVE  TempOwned'
<1> USE DEF Locked
<1>1. CASE AcquireLock(p) \/ StatLock(p) \/ RenameLock(p) \/ LockFails(p)
           \/ CallFails(p) \/ ParseFails(p) \/ ReleaseLock(p) \/ UnlockFails(p)
           \/ UploadRegistry(p) \/ UploadAmbiguous(p)
  BY <1>1, TempFrame
     DEF AcquireLock, StatLock, RenameLock, LockFails, CallFails, ParseFails, ReleaseLock,
         UnlockFails, UploadRegistry, UploadAmbiguous, Finish, storage, tempFile
<1>2. CASE DownloadFound(p) \/ DownloadMissing(p) \/ ListObjects(p)
  <2>1. UNCHANGED <<temp, writers>>
    BY <1>2 DEF DownloadFound, DownloadMissing, ListObjects, storage, tempFile
  <2>2. PICK c \in {"list", "upload", "unlock"} : phase' = [phase EXCEPT ![p] = c]
    BY <1>2
       DEF DownloadFound, DownloadMissing, ListObjects, LoadDone, AppendTo, MarkIn, Finish
  <2>3. \A q \in Clients \ {p} : buf'[q] = buf[q]
    BY <1>2
       DEF DownloadFound, DownloadMissing, ListObjects, LoadDone, AppendTo, MarkIn, Typed,
           ServiceTypeOK
  <2> QED
    BY <2>1, <2>2, <2>3, TempFrame
<1>3. CASE RenameTemp(p) \/ ReplaceFails(p)
  <2>1. phase[p] \in Critical /\ phase' = [phase EXCEPT ![p] = "unlock"]
    BY <1>3 DEF RenameTemp, ReplaceFails, Finish, Critical
  <2>2. \A q \in Clients : phase'[q] \notin {"store", "replace"}
    BY <2>1, Alone DEF Critical
  <2> QED
    BY <2>2 DEF TempOwned
<1>4. CASE StoreTemp(p)
  <2>1. phase[p] \in Critical /\ phase' = [phase EXCEPT ![p] = "store"]
    BY <1>4 DEF StoreTemp, Critical
  <2>2. /\ phase'[p] = "store"
        /\ \A q \in Clients \ {p} : phase[q] \notin Critical /\ phase'[q] \notin Critical
    BY <2>1, Alone
  <2>3. {q \in Clients : phase[q] = "store"} \subseteq {p}
    BY <2>2 DEF Critical
  <2>4. temp' = Torn /\ writers' = {p}
    BY <1>4, <2>3 DEF StoreTemp
  <2> QED
    BY <2>2, <2>4 DEF TempOwned, Critical
<1>5. CASE TempStored(p)
  <2>1. phase[p] \in Critical /\ phase' = [phase EXCEPT ![p] = "replace"]
    BY <1>5 DEF TempStored, Critical
  <2>2. temp' = buf[p] /\ buf' = buf
    BY <1>5, TornIsTold DEF TempStored, Transferred, TempOwned
  <2> QED
    BY <2>1, <2>2, Alone DEF TempOwned, Critical
<1> QED
  BY <1>1, <1>2, <1>3, <1>4, <1>5 DEF CallStep

LEMMA TempStep ==
    ASSUME Locked, LockExclusive, [ServiceNext]_serviceVars
    PROVE  TempOwned'
<1>1. CASE UNCHANGED <<phase, buf, temp, writers>>
  BY <1>1 DEF Locked, TempOwned
<1>2. CASE UNCHANGED serviceVars \/ ObjectsChange
           \/ \E p \in Clients : Cancel(p) \/ Renew(p)
  BY <1>1, <1>2 DEF serviceVars, storage, tempFile, call, ObjectsChange, Cancel, Renew
<1>3. ASSUME NEW p \in Clients, NEW o, NEW e, Invoke(p, o, e)
      PROVE  TempOwned'
  BY <1>3, TempFrame DEF Invoke, storage, tempFile, Locked
<1>4. ASSUME NEW p \in Clients, CallStep(p)
      PROVE  TempOwned'
  BY <1>4, TempCallStep
<1>5. ASSUME NEW p \in Clients, Return(p) \/ Crash(p)
      PROVE  TempOwned'
  BY <1>5, TempFrame
     DEF Return, Crash, Forget, storage, tempFile, Locked, Typed, ServiceTypeOK
<1> QED
  BY <1>2, <1>3, <1>4, <1>5 DEF ServiceNext

----------------------------------------------------------------------------
\* The registry file is written by a client in its save, and by nothing else.
LEMMA OnlySavesWrite ==
    ASSUME Locked, [ServiceNext]_serviceVars, store' # store
    PROVE  \E p \in Clients : phase[p] \in Writing /\ store' = buf[p]
<1>1. CASE UNCHANGED serviceVars \/ ObjectsChange
           \/ \E p \in Clients : Cancel(p) \/ Renew(p) \/ Return(p) \/ Crash(p)
  BY <1>1 DEF serviceVars, storage, ObjectsChange, Cancel, Renew, Return, Crash
<1>2. ASSUME NEW p \in Clients, NEW o, NEW e, Invoke(p, o, e)
      PROVE  FALSE
  BY <1>2 DEF Invoke, storage
<1>3. ASSUME NEW p \in Clients, CallStep(p)
      PROVE  phase[p] \in Writing /\ store' = buf[p]
  <2>1. CASE UploadRegistry(p) \/ UploadAmbiguous(p)
    BY <2>1 DEF UploadRegistry, UploadAmbiguous, Writing
  <2>2. CASE RenameTemp(p) \/ ReplaceFails(p)
    BY <2>2 DEF RenameTemp, ReplaceFails, Writing, Locked, TempOwned
  <2>3. CASE TempStored(p)
    BY <2>3, TornIsTold DEF TempStored, Locked, TempOwned
  <2> QED
    BY <1>3, <2>1, <2>2, <2>3
       DEF CallStep, AcquireLock, StatLock, RenameLock, LockFails, DownloadFound, ParseFails,
           DownloadMissing, ListObjects, StoreTemp, CallFails, ReleaseLock, UnlockFails, storage
<1> QED
  BY <1>1, <1>2, <1>3 DEF ServiceNext

\* What a client is about to write passes Validate.
LEMMA WrittenIsValid ==
    ASSUME Locked, NEW p \in Clients, phase[p] \in Writing
    PROVE  Valid(buf[p])
<1>1. CASE CanAppend(Contents(store), arg[p]) /\ buf[p] = Contents(store) \cup {arg[p]}
  BY <1>1, AppendKeepsValid DEF Locked, StoredRegistryLoads
<1>2. CASE buf[p] = Marked(Contents(store), arg[p])
  <2>1. Contents(store) \in SUBSET Entry
    BY ContentsTyped DEF Locked, StoredRegistryLoads, Typed, ServiceTypeOK, FileContents
  <2> QED
    BY <1>2, <2>1, MarkKeepsValid DEF Locked, StoredRegistryLoads
<1> QED
  BY <1>1, <1>2 DEF Locked, Current, CurrentFor

LEMMA LoadsStep ==
    ASSUME Locked, [ServiceNext]_serviceVars
    PROVE  StoredRegistryLoads'
<1>1. CASE store' = store
  BY <1>1 DEF Locked, StoredRegistryLoads
<1>2. CASE store' # store
  <2>1. PICK p \in Clients : phase[p] \in Writing /\ store' = buf[p]
    BY <1>2, OnlySavesWrite
  <2>2. buf[p] \in SUBSET Entry /\ Valid(buf[p])
    BY <2>1, WrittenIsValid DEF Locked, Typed, ServiceTypeOK
  <2> QED
    BY <2>1, <2>2, TornIsTold, EntriesAreARegistry DEF StoredRegistryLoads
<1> QED
  BY <1>1, <1>2

LEMMA LockedInit == ServiceInit => Locked
<1> SUFFICES ASSUME ServiceInit PROVE Locked
  OBVIOUS
<1>1. Contents(store) = {} /\ store # Torn
  BY TornIsTold DEF ServiceInit, Contents
<1>2. Current /\ TempOwned
  BY DEF ServiceInit, Current, CurrentFor, TempOwned, Writing
<1> QED
  BY <1>1, <1>2, TypedInit, EmptyIsValid DEF Locked, StoredRegistryLoads

LEMMA LockedStep == Locked /\ LockExclusive /\ [ServiceNext]_serviceVars => Locked'
BY TypedStep, CurrentStep, TempStep, LoadsStep DEF Locked

\* Everything below relies on the lock alone: on each backend Locked holds as long
\* as the lock excludes.
LEMMA LockedWhileExclusive == ServiceSpec => ([]LockExclusive => []Locked)
BY LockedInit, LockedStep, PTL DEF ServiceSpec

\* Nothing but two clients inside the lock at once can spoil the registry file, on
\* every backend: no failed transfer or rename, lost reply, cancellation or crash.
THEOREM OnlyTheLockIsNeeded == ServiceSpec => LoadsWhileExclusive
<1>1. Locked => StoredRegistryLoads
  BY DEF Locked
<1> QED
  BY <1>1, LockedWhileExclusive, PTL DEF LoadsWhileExclusive

\* With a file system or s3, where Lock excludes, the registry file always decodes
\* and passes Validate.
THEOREM RegistryAlwaysLoads ==
    ASSUME Backend # "ftp"
    PROVE  ServiceSpec => []StoredRegistryLoads
<1>1. ServiceSpec => []LockExclusive
  BY LockIsExclusive
<1>2. ServiceSpec => LoadsWhileExclusive
  BY OnlyTheLockIsNeeded
<1> QED
  BY <1>1, <1>2, PTL DEF LoadsWhileExclusive

----------------------------------------------------------------------------
LEMMA EntriesKeptStep ==
    ASSUME Locked, [ServiceNext]_serviceVars
    PROVE  [EntriesKept]_store
<1> SUFFICES ASSUME store' # store, NEW e \in Contents(store)
             PROVE  \E f \in Contents(store') :
                        /\ SameBackup(f, e)
                        /\ f.status # e.status => f.status = "deleted"
  BY DEF EntriesKept
<1>1. PICK p \in Clients : phase[p] \in Writing /\ store' = buf[p]
  BY OnlySavesWrite
<1>2. Contents(store') = buf[p]
  BY <1>1, EntriesAreARegistry DEF Locked, Typed, ServiceTypeOK
<1>3. Contents(store) \in SUBSET Entry
  BY ContentsTyped DEF Locked, StoredRegistryLoads, Typed, ServiceTypeOK, FileContents
<1>4. CASE buf[p] = Contents(store) \cup {arg[p]}
  BY <1>2, <1>4 DEF SameBackup
<1>5. CASE buf[p] = Marked(Contents(store), arg[p])
  BY <1>2, <1>3, <1>5, MarkedKeeps
<1>6. CASE store = NoRegistry
  BY <1>6 DEF Contents
<1> QED
  BY <1>1, <1>4, <1>5, <1>6 DEF Locked, Current, CurrentFor

\* No update is lost while the lock excludes, on every backend: no write of the
\* registry file, by any interleaving of appends, marks and rebuilds and whatever
\* fails, drops or revives an entry.
THEOREM UpdatesKeptWhileExclusive == ServiceSpec => ([]LockExclusive => NoLostUpdate)
<1>1. Locked /\ [ServiceNext]_serviceVars => [EntriesKept]_store
  BY EntriesKeptStep
<1> QED
  BY <1>1, LockedWhileExclusive, PTL DEF ServiceSpec, NoLostUpdate

\* So with a file system or s3 no update is ever lost.
THEOREM UpdatesAreKept ==
    ASSUME Backend # "ftp"
    PROVE  ServiceSpec => NoLostUpdate
<1>1. ServiceSpec => []LockExclusive
  BY LockIsExclusive
<1> QED
  BY <1>1, UpdatesKeptWhileExclusive, PTL
----------------------------------------------------------------------------
(***************************************************************************)
(* A lock file that is there is held.  On s3 Unlock is cancelled with its   *)
(* caller, and leaves it; elsewhere only an I/O error or a crash does.     *)
(***************************************************************************)
Held ==
    /\ cancels = 0 => \A p \in Clients : ~cancelled[p]
    /\ lockFile /\ faults = 0 /\ (Backend = "s3" => cancels = 0) =>
          \E p \in Clients : phase[p] \in Critical

\* A step that creates no lock file and leaves no client's lock behind.
LEMMA HeldFrame ==
    ASSUME ServiceTypeOK, Held, NEW p \in Clients, NEW c,
           phase' = [phase EXCEPT ![p] = c],
           phase[p] \in Critical => c \in Critical,
           lockFile' = lockFile, faults' = faults \/ faults' = faults + 1,
           UNCHANGED <<cancels, cancelled>>
    PROVE  Held'
BY DEF ServiceTypeOK, Held

\* A step that costs a fault.
LEMMA HeldFault ==
    ASSUME ServiceTypeOK, Held, Fault, UNCHANGED cancelled
    PROVE  Held'
BY DEF ServiceTypeOK, Held, Fault

LEMMA HeldCallStep ==
    ASSUME Typed, Held, NEW p \in Clients, CallStep(p)
    PROVE  Held'
<1> USE DEF Typed
<1>1. CASE AcquireLock(p) \/ RenameLock(p)
  BY <1>1 DEF AcquireLock, RenameLock, ServiceTypeOK, Held, Critical, budget
<1>2. CASE StatLock(p)
  BY <1>2, HeldFrame DEF StatLock, Critical, storage, NoFault, Fault, budget
<1>3. CASE LockFails(p)
  <2>1. CASE Fault
    BY <1>3, <2>1, HeldFault DEF LockFails
  <2>2. CASE UNCHANGED lockFile /\ NoFault /\ phase[p] = "lock"
    BY <1>3, <2>2, HeldFrame DEF LockFails, Finish, Critical, NoFault, budget
  <2> QED
    BY <1>3, <2>1, <2>2 DEF LockFails
<1>4. CASE DownloadFound(p)
  <2>1. PICK c \in {"upload", "unlock"} : phase' = [phase EXCEPT ![p] = c]
    BY <1>4 DEF DownloadFound, LoadDone, AppendTo, MarkIn, Finish
  <2> QED
    BY <1>4, <2>1, HeldFrame DEF DownloadFound, Critical, storage, budget
<1>5. CASE DownloadMissing(p)
  <2>1. PICK c \in {"list", "upload", "unlock"} : phase' = [phase EXCEPT ![p] = c]
    BY <1>5 DEF DownloadMissing, LoadDone, AppendTo, MarkIn, Finish
  <2> QED
    BY <1>5, <2>1, HeldFrame DEF DownloadMissing, Critical, storage, budget
<1>6. CASE ListObjects(p)
  <2>1. PICK c \in {"upload", "unlock"} : phase' = [phase EXCEPT ![p] = c]
    BY <1>6 DEF ListObjects, LoadDone, Finish
  <2> QED
    BY <1>6, <2>1, HeldFrame DEF ListObjects, Critical, storage, budget
<1>7. CASE UploadRegistry(p) \/ ParseFails(p)
  BY <1>7, HeldFrame DEF UploadRegistry, ParseFails, Finish, Critical, storage, budget
<1>8. CASE UploadAmbiguous(p)
  BY <1>8, HeldFault DEF UploadAmbiguous
<1>9. CASE CallFails(p)
  BY <1>9, HeldFrame DEF CallFails, Finish, Critical, storage, NoFault, Fault, budget
<1>10. CASE StoreTemp(p) \/ TempStored(p) \/ RenameTemp(p)
  BY <1>10, HeldFrame DEF StoreTemp, TempStored, RenameTemp, Finish, Critical, budget
<1>11. CASE ReplaceFails(p)
  <2>1. faults' = faults \/ faults' = faults + 1
    BY <1>11 DEF ReplaceFails, NoFault, Fault, budget
  <2>2. UNCHANGED <<cancels, cancelled, lockFile>>
    BY <1>11 DEF ReplaceFails, NoFault, Fault, budget
  <2>3. phase' = [phase EXCEPT ![p] = "unlock"] /\ "unlock" \in Critical
    BY <1>11 DEF ReplaceFails, Finish, Critical
  <2> QED
    BY <2>1, <2>2, <2>3, HeldFrame
<1>12. CASE ReleaseLock(p)
  BY <1>12 DEF ReleaseLock, Held, budget
<1>13. CASE UnlockFails(p)
  <2>1. CASE Fault
    BY <1>13, <2>1, HeldFault DEF UnlockFails
  <2>2. CASE Backend = "s3" /\ cancelled[p] /\ NoFault
    BY <1>13, <2>2 DEF UnlockFails, Held, NoFault, budget
  <2> QED
    BY <1>13, <2>1, <2>2 DEF UnlockFails
<1> QED
  BY <1>1, <1>2, <1>3, <1>4, <1>5, <1>6, <1>7, <1>8, <1>9, <1>10, <1>11, <1>12, <1>13 DEF CallStep

LEMMA HeldStep ==
    ASSUME Typed, Held, [ServiceNext]_serviceVars
    PROVE  Held'
<1> USE DEF Typed
<1>1. CASE UNCHANGED <<phase, lockFile, cancelled, budget>>
  BY <1>1 DEF Held, budget
<1>2. CASE UNCHANGED serviceVars \/ ObjectsChange
  BY <1>1, <1>2 DEF serviceVars, storage, call, ObjectsChange
<1>3. ASSUME NEW p \in Clients, NEW o, NEW e, Invoke(p, o, e)
      PROVE  Held'
  BY <1>3, HeldFrame DEF Invoke, Critical, storage, budget
<1>4. ASSUME NEW p \in Clients, CallStep(p)
      PROVE  Held'
  BY <1>4, HeldCallStep
<1>5. ASSUME NEW p \in Clients, Return(p)
      PROVE  Held'
  BY <1>5, HeldFrame DEF Return, Forget, Critical, storage, budget
<1>6. ASSUME NEW p \in Clients, Crash(p)
      PROVE  Held'
  BY <1>6, HeldFault DEF Crash
<1>7. ASSUME NEW p \in Clients, Cancel(p) \/ Renew(p)
      PROVE  Held'
  BY <1>7 DEF Cancel, Renew, ServiceTypeOK, Held, storage, call, budget
<1> QED
  BY <1>2, <1>3, <1>4, <1>5, <1>6, <1>7 DEF ServiceNext

LEMMA HeldHolds == ServiceSpec => []Held
<1>1. ServiceInit => Typed /\ Held
  BY TypedInit DEF ServiceInit, Held
<1>2. Typed /\ Held /\ [ServiceNext]_serviceVars => (Typed /\ Held)'
  BY TypedStep, HeldStep
<1> QED
  BY <1>1, <1>2, PTL DEF ServiceSpec

\* A cancelled command leaves no lock file behind on a file system or ftp, whose
\* Unlock does not look at the context: while no I/O error and no crash has struck,
\* a lock file is that of a client inside the lock.
THEOREM LockIsNotLeftBehind ==
    ASSUME Backend # "s3"
    PROVE  ServiceSpec => []NoStaleLock
<1>1. Held => NoStaleLock
  BY DEF Held, NoStaleLock
<1> QED
  BY <1>1, HeldHolds, PTL

\* On every backend, s3 included, it takes a fault or a cancelled context.
THEOREM OnlyFaultsLeaveLocks ==
    ServiceSpec => [](lockFile /\ faults = 0 /\ cancels = 0 => \E p \in Clients : phase[p] \in Critical)
<1>1. Held => (lockFile /\ faults = 0 /\ cancels = 0 => \E p \in Clients : phase[p] \in Critical)
  BY DEF Held
<1> QED
  BY <1>1, HeldHolds, PTL
============================================================================
