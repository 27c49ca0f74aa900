-------------------------- MODULE RegistryService --------------------------
(***************************************************************************)
(* internal/registry/service.go over a storage backend: the registry file   *)
(* is read, changed and written back under a lock file, one backend call    *)
(* per step, by processes that share nothing but the storage.               *)
(*                                                                         *)
(* The backend decides how the lock is taken and released:                  *)
(*   filesystem  O_CREATE|O_EXCL; neither Lock nor Unlock looks at the      *)
(*               context                                                    *)
(*   s3          PutObject If-None-Match "*" and DeleteObject, both with    *)
(*               the caller's context                                       *)
(*   ftp         Stat, and when the lock file is not there a Rename of a    *)
(*               private file onto it: two calls                            *)
(* and how a file is replaced: at once (filesystem by a Rename of a private *)
(* temporary file, s3), or on ftp by a transfer to <name>.tmp, one name for  *)
(* all clients, and a Rename.                                              *)
(* No backend waits for the lock, and a lock file has no owner or age.      *)
(***************************************************************************)
EXTENDS RegistryDomain

CONSTANTS
    Clients,      \* the processes (or scheduler jobs) that use the registry
    Backend,      \* "filesystem", "s3" or "ftp"
    NoObject,     \* no backup object has that name
    Garbage,      \* what a torn file holds
    MaxFaults,    \* bound: I/O errors and crashes
    MaxCancels    \* bound: cancelled contexts (timeouts, SIGTERM)

ASSUME ServiceAssumption ==
    /\ Backend \in {"filesystem", "s3", "ftp"}
    /\ NoObject \notin Digests
    /\ Garbage \notin Entry \cup {NoEntry}
    /\ MaxFaults \in Nat
    /\ MaxCancels \in Nat

VARIABLES
    \* shared storage
    lockFile,     \* does ".backup-registry.json.lock" exist
    store,        \* the contents of ".backup-registry.json"
    objects,      \* the backup objects: each name's digest, or NoObject
    temp,         \* ftp: the contents of ".backup-registry.json.tmp"
    writers,      \* ftp: the clients whose transfers may have reached that file
    \* one call per client
    phase,        \* where the client is in its call
    op,           \* "load", "recover" (Load WithRecovery), "append" or "mark"
    arg,          \* the entry to append, or the one to mark deleted
    buf,          \* the registry the call has loaded or is about to save
    outcome,      \* what the call returns: "ok" or "error"
    cancelled,    \* the call's context is done
    took,         \* history: the call has taken effect
    \* bounds
    faults, cancels

tempFile == <<temp, writers>>
storage == <<lockFile, store, objects, tempFile>>
call == <<phase, op, arg, buf, outcome, took>>
budget == <<faults, cancels>>
serviceVars == <<storage, call, cancelled, budget>>

Ops == {"load", "recover", "append", "mark"}
Critical == {"download", "list", "upload", "store", "replace", "unlock"}
Phases == {"idle", "lock", "rename", "done"} \cup Critical

\* A file of which some bytes are missing, or of which two clients wrote some.
Torn == {Garbage}

FileContents == (SUBSET Entry) \cup {NoRegistry, Torn}

ServiceTypeOK ==
    /\ lockFile \in BOOLEAN
    /\ store \in FileContents
    /\ temp \in FileContents
    /\ writers \in SUBSET Clients
    /\ objects \in [Files -> Digests \cup {NoObject}]
    /\ phase \in [Clients -> Phases]
    /\ op \in [Clients -> Ops]
    /\ arg \in [Clients -> Entry \cup {NoEntry}]
    /\ buf \in [Clients -> SUBSET Entry]
    /\ outcome \in [Clients -> {"ok", "error"}]
    /\ cancelled \in [Clients -> BOOLEAN]
    /\ took \in [Clients -> BOOLEAN]
    /\ faults \in Nat
    /\ cancels \in Nat

\* There is no registry yet, or it has been lost; archives may already be there.
ServiceInit ==
    /\ lockFile = FALSE
    /\ store = NoRegistry
    /\ objects \in [Files -> Digests \cup {NoObject}]
    /\ temp = NoRegistry
    /\ writers = {}
    /\ phase = [p \in Clients |-> "idle"]
    /\ op = [p \in Clients |-> "load"]
    /\ arg = [p \in Clients |-> NoEntry]
    /\ buf = [p \in Clients |-> {}]
    /\ outcome = [p \in Clients |-> "error"]
    /\ cancelled = [p \in Clients |-> FALSE]
    /\ took = [p \in Clients |-> FALSE]
    /\ faults = 0
    /\ cancels = 0

\* The names List returns.
Stored == {f \in Files : objects[f] # NoObject}

----------------------------------------------------------------------------
\* A call ends with outcome r: return at once, or release the lock first.
Finish(p, r, next) ==
    /\ outcome' = [outcome EXCEPT ![p] = r]
    /\ phase' = [phase EXCEPT ![p] = next]

\* The client keeps nothing of its call.
Forget(p) ==
    /\ phase' = [phase EXCEPT ![p] = "idle"]
    /\ op' = [op EXCEPT ![p] = "load"]
    /\ arg' = [arg EXCEPT ![p] = NoEntry]
    /\ buf' = [buf EXCEPT ![p] = {}]
    /\ outcome' = [outcome EXCEPT ![p] = "error"]
    /\ took' = [took EXCEPT ![p] = FALSE]

Fault == faults < MaxFaults /\ faults' = faults + 1 /\ UNCHANGED cancels
NoFault == UNCHANGED budget

\* The client calls Load, Append or MarkDeleted.
Invoke(p, o, e) ==
    /\ phase[p] = "idle"
    /\ phase' = [phase EXCEPT ![p] = "lock"]
    /\ op' = [op EXCEPT ![p] = o]
    /\ arg' = [arg EXCEPT ![p] = e]
    /\ UNCHANGED <<storage, buf, outcome, took, cancelled, budget>>

\* A wrong Lock: the file is created whether it exists or not (no O_EXCL).
AcquireLockUnchecked(p) ==
    /\ phase[p] = "lock"
    /\ Backend # "ftp"
    /\ Backend = "s3" => ~cancelled[p]
    /\ lockFile' = TRUE
    /\ phase' = [phase EXCEPT ![p] = "download"]
    /\ UNCHANGED <<store, objects, tempFile, op, arg, buf, outcome, took, cancelled, budget>>

\* Backend.Lock succeeds: created in one atomic call (filesystem, s3).
AcquireLock(p) ==
    /\ phase[p] = "lock"
    /\ Backend # "ftp"
    /\ Backend = "s3" => ~cancelled[p]
    /\ ~lockFile
    /\ lockFile' = TRUE
    /\ phase' = [phase EXCEPT ![p] = "download"]
    /\ UNCHANGED <<store, objects, tempFile, op, arg, buf, outcome, took, cancelled, budget>>

\* ftp: the private file is stored and Stat does not find the lock file, or
\* fails for any other reason, which the code does not tell apart.
StatLock(p) ==
    /\ phase[p] = "lock"
    /\ Backend = "ftp"
    /\ ~cancelled[p]
    /\ \/ ~lockFile /\ NoFault
       \/ Fault
    /\ phase' = [phase EXCEPT ![p] = "rename"]
    /\ UNCHANGED <<storage, op, arg, buf, outcome, took, cancelled>>

\* ftp: the private file is renamed onto the lock file, there or not.
RenameLock(p) ==
    /\ phase[p] = "rename"
    /\ lockFile' = TRUE
    /\ phase' = [phase EXCEPT ![p] = "download"]
    /\ UNCHANGED <<store, objects, tempFile, op, arg, buf, outcome, took, cancelled, budget>>

\* A wrong Lock that waits for the holder to release the lock.
LockFailsNotWhenHeld(p) ==
    /\ phase[p] = "lock"
    /\ cancelled[p] /\ Backend # "filesystem"
    /\ Finish(p, "error", "done")
    /\ UNCHANGED <<storage, op, arg, buf, took, cancelled, budget>>

\* Backend.Lock fails: held, or the context is done (s3 and ftp), or an I/O
\* error.  When the reply of the call that creates the lock file is lost (s3's
\* PutObject, ftp's Rename) a lock file may stay that nobody holds.
LockFails(p) ==
    /\ \/ /\ phase[p] = "lock"
          /\ lockFile \/ (cancelled[p] /\ Backend # "filesystem")
          /\ NoFault
          /\ UNCHANGED lockFile
       \/ /\ phase[p] \in {"lock", "rename"}
          /\ Fault
          /\ \/ UNCHANGED lockFile
             \/ (Backend = "s3" \/ phase[p] = "rename") /\ lockFile' = TRUE
    /\ Finish(p, "error", "done")
    /\ UNCHANGED <<store, objects, tempFile, op, arg, buf, took, cancelled>>

(***************************************************************************)
(* What each operation does with the registry it has loaded.               *)
(***************************************************************************)
LoadDone(p, reg) ==
    /\ op[p] \in {"load", "recover"}
    /\ buf' = [buf EXCEPT ![p] = reg]
    /\ took' = [took EXCEPT ![p] = TRUE]
    /\ Finish(p, "ok", "unlock")

AppendTo(p, reg) ==
    /\ op[p] = "append"
    /\ IF CanAppend(reg, arg[p])
       THEN /\ buf' = [buf EXCEPT ![p] = reg \cup {arg[p]}]
            /\ phase' = [phase EXCEPT ![p] = "upload"]
            /\ UNCHANGED outcome
       ELSE Finish(p, "error", "unlock") /\ UNCHANGED buf
    /\ UNCHANGED took

MarkIn(p, reg) ==
    /\ op[p] = "mark"
    /\ buf' = [buf EXCEPT ![p] = Marked(reg, arg[p])]
    /\ phase' = [phase EXCEPT ![p] = "upload"]
    /\ UNCHANGED <<outcome, took>>

\* load finds the registry file.
DownloadFound(p) ==
    /\ phase[p] = "download"
    /\ store \notin {NoRegistry, Torn}
    /\ ~cancelled[p]
    /\ LoadDone(p, store) \/ AppendTo(p, store) \/ MarkIn(p, store)
    /\ UNCHANGED <<storage, op, arg, cancelled, budget>>

\* load finds a file that does not decode: an error, and no rebuild.
ParseFails(p) ==
    /\ phase[p] = "download"
    /\ store = Torn
    /\ ~cancelled[p]
    /\ Finish(p, "error", "unlock")
    /\ UNCHANGED <<storage, op, arg, buf, took, cancelled, budget>>

\* A wrong rebuild: a nil registry and no error.
DownloadMissingNil(p) ==
    /\ phase[p] = "download"
    /\ store = NoRegistry
    /\ ~cancelled[p]
    /\ LoadDone(p, NoRegistry)
    /\ UNCHANGED <<storage, op, arg, cancelled, budget>>

\* load gets ErrNotFound (on a file system even when the context is done) and
\* rebuild, without recovery, answers with an empty registry.
DownloadMissing(p) ==
    /\ phase[p] = "download"
    /\ store = NoRegistry
    /\ Backend # "filesystem" => ~cancelled[p]
    /\ \/ /\ op[p] = "recover"
          /\ phase' = [phase EXCEPT ![p] = "list"]
          /\ UNCHANGED <<buf, outcome, took>>
       \/ op[p] # "recover" /\ (LoadDone(p, {}) \/ AppendTo(p, {}) \/ MarkIn(p, {}))
    /\ UNCHANGED <<storage, op, arg, cancelled, budget>>

\* rebuild with recovery: one entry per backup object.  No object gives an empty
\* registry that is not saved; two objects of one second give one identifier
\* twice, which save refuses.
ListObjects(p) ==
    /\ phase[p] = "list"
    /\ ~cancelled[p]
    /\ \/ Stored = {} /\ LoadDone(p, {})
       \/ /\ Stored # {} /\ Valid(Rebuilt(Stored))
          /\ buf' = [buf EXCEPT ![p] = Rebuilt(Stored)]
          /\ phase' = [phase EXCEPT ![p] = "upload"]
          /\ UNCHANGED <<outcome, took>>
       \/ /\ ~Valid(Rebuilt(Stored))
          /\ Finish(p, "error", "unlock")
          /\ UNCHANGED <<buf, took>>
    /\ UNCHANGED <<storage, op, arg, cancelled, budget>>

\* save: the upload replaces the registry file (filesystem, s3).
UploadRegistry(p) ==
    /\ phase[p] = "upload"
    /\ Backend # "ftp"
    /\ ~cancelled[p]
    /\ store' = buf[p]
    /\ took' = [took EXCEPT ![p] = TRUE]
    /\ Finish(p, "ok", "unlock")
    /\ UNCHANGED <<lockFile, objects, tempFile, op, arg, buf, cancelled, budget>>

\* save reports an error although the file was replaced: a lost reply, or on a
\* file system an error of Close after the Rename.
UploadAmbiguous(p) ==
    /\ phase[p] = "upload"
    /\ Backend # "ftp"
    /\ ~cancelled[p]
    /\ Fault
    /\ store' = buf[p]
    /\ took' = [took EXCEPT ![p] = TRUE]
    /\ Finish(p, "error", "unlock")
    /\ UNCHANGED <<lockFile, objects, tempFile, op, arg, buf, cancelled>>

\* A wrong ftp upload: the transfer goes to the registry file itself.
StoreTempDirect(p) ==
    /\ phase[p] = "upload"
    /\ Backend = "ftp"
    /\ ~cancelled[p]
    /\ store' = Torn
    /\ temp' = Torn
    /\ writers' = {q \in Clients : phase[q] = "store"} \cup {p}
    /\ phase' = [phase EXCEPT ![p] = "store"]
    /\ UNCHANGED <<lockFile, objects, op, arg, buf, outcome, took, cancelled, budget>>

\* ftp: the transfer begins; the server creates or truncates the temporary file.
\* The context is looked at here and never again in this upload.
StoreTemp(p) ==
    /\ phase[p] = "upload"
    /\ Backend = "ftp"
    /\ ~cancelled[p]
    /\ temp' = Torn
    /\ writers' = {q \in Clients : phase[q] = "store"} \cup {p}
    /\ phase' = [phase EXCEPT ![p] = "store"]
    /\ UNCHANGED <<lockFile, store, objects, op, arg, buf, outcome, took, cancelled, budget>>

\* What the file holds when p's transfer has ended: it is whole unless another
\* transfer reached it.
Transferred(p) == IF writers = {p} THEN {buf[p]} ELSE {buf[p], Torn}

\* ftp: the transfer ends.  When another client has renamed the file meanwhile,
\* the bytes went where it is now, or wherever that has been replaced since.
TempStored(p) ==
    /\ phase[p] = "store"
    /\ \/ temp # NoRegistry /\ temp' \in Transferred(p) /\ UNCHANGED store
       \/ temp = NoRegistry /\ store' \in {store} \cup Transferred(p) /\ UNCHANGED temp
    /\ phase' = [phase EXCEPT ![p] = "replace"]
    /\ UNCHANGED <<lockFile, objects, writers, op, arg, buf, outcome, took, cancelled, budget>>

\* ftp: the temporary file, whoever wrote it, is renamed onto the registry file.
RenameTemp(p) ==
    /\ phase[p] = "replace"
    /\ temp # NoRegistry
    /\ store' = temp
    /\ temp' = NoRegistry
    /\ took' = [took EXCEPT ![p] = TRUE]
    /\ Finish(p, "ok", "unlock")
    /\ UNCHANGED <<lockFile, objects, writers, op, arg, buf, cancelled, budget>>

\* ftp: the transfer breaks off, and what has arrived of it stays; or the Rename
\* fails, for the file is gone or by an I/O error, and the file is deleted unless
\* that fails too; or the Rename succeeds and its reply is lost.
ReplaceFails(p) ==
    /\ \/ /\ phase[p] = "store"
          /\ Fault
          /\ UNCHANGED <<store, temp, took>>
       \/ /\ phase[p] = "replace"
          /\ \/ temp = NoRegistry /\ NoFault
             \/ Fault
          /\ temp' \in {temp, NoRegistry}
          /\ UNCHANGED <<store, took>>
       \/ /\ phase[p] = "replace"
          /\ Fault
          /\ temp # NoRegistry
          /\ store' = temp
          /\ temp' = NoRegistry
          /\ took' = [took EXCEPT ![p] = TRUE]
    /\ Finish(p, "error", "unlock")
    /\ UNCHANGED <<lockFile, objects, writers, op, arg, buf, cancelled>>

\* A backend call under the lock fails: the context is done, or an I/O error.
CallFails(p) ==
    /\ phase[p] \in {"download", "list", "upload"}
    /\ \/ cancelled[p] /\ NoFault
       \/ Fault
    /\ Finish(p, "error", "unlock")
    /\ UNCHANGED <<storage, op, arg, buf, took, cancelled>>

\* The deferred Unlock removes the lock file, whoever created it.
ReleaseLock(p) ==
    /\ phase[p] = "unlock"
    /\ Backend = "s3" => ~cancelled[p]
    /\ lockFile' = FALSE
    /\ phase' = [phase EXCEPT ![p] = "done"]
    /\ UNCHANGED <<store, objects, tempFile, op, arg, buf, outcome, took, cancelled, budget>>

\* A wrong Unlock: every backend looks at the context of the call.
UnlockFailsOnCancel(p) ==
    /\ phase[p] = "unlock"
    /\ \/ cancelled[p] /\ NoFault
       \/ Fault
    /\ phase' = [phase EXCEPT ![p] = "done"]
    /\ UNCHANGED <<storage, op, arg, buf, outcome, took, cancelled>>

\* The deferred Unlock fails and its error is dropped: on s3 because the context
\* is done, anywhere because of an I/O error.  The lock file stays.
UnlockFails(p) ==
    /\ phase[p] = "unlock"
    /\ \/ Backend = "s3" /\ cancelled[p] /\ NoFault
       \/ Fault
    /\ phase' = [phase EXCEPT ![p] = "done"]
    /\ UNCHANGED <<storage, op, arg, buf, outcome, took, cancelled>>

\* One step of a call in progress.
CallStep(p) ==
    \/ AcquireLock(p) \/ StatLock(p) \/ RenameLock(p) \/ LockFails(p)
    \/ DownloadFound(p) \/ ParseFails(p) \/ DownloadMissing(p) \/ ListObjects(p)
    \/ UploadRegistry(p) \/ UploadAmbiguous(p)
    \/ StoreTemp(p) \/ TempStored(p) \/ RenameTemp(p) \/ ReplaceFails(p)
    \/ CallFails(p)
    \/ ReleaseLock(p) \/ UnlockFails(p)

\* The caller takes the result of the call.
Return(p) ==
    /\ phase[p] = "done"
    /\ Forget(p)
    /\ UNCHANGED <<storage, cancelled, budget>>

----------------------------------------------------------------------------
\* A timeout or a signal cancels the context of a client's command.
Cancel(p) ==
    /\ ~cancelled[p]
    /\ cancels < MaxCancels
    /\ cancels' = cancels + 1
    /\ cancelled' = [cancelled EXCEPT ![p] = TRUE]
    /\ UNCHANGED <<storage, call, faults>>

\* A new command starts with a fresh context.
Renew(p) ==
    /\ phase[p] = "idle"
    /\ cancelled' = [cancelled EXCEPT ![p] = FALSE]
    /\ UNCHANGED <<storage, call, budget>>

\* The process is killed: whatever it was doing is forgotten, the storage stays.
Crash(p) ==
    /\ phase[p] # "idle"
    /\ Fault
    /\ Forget(p)
    /\ UNCHANGED <<storage, cancelled>>

\* Backup objects come and go without the registry's lock.
ObjectsChange ==
    /\ \E f \in Files, d \in Digests \cup {NoObject} : objects' = [objects EXCEPT ![f] = d]
    /\ UNCHANGED <<lockFile, store, tempFile, call, cancelled, budget>>

\* Callers append new entries and mark entries they have seen ready.
NewEntries == {e \in Entry : e.sha \in Digests /\ e.status = "ready"}

ServiceNext ==
    \/ \E p \in Clients :
          \/ \E o \in {"load", "recover"} : Invoke(p, o, NoEntry)
          \/ \E e \in NewEntries : Invoke(p, "append", e)
          \/ \E e \in Ready(Entry) : Invoke(p, "mark", e)
          \/ CallStep(p)
          \/ Return(p)
          \/ Cancel(p) \/ Renew(p) \/ Crash(p)
    \/ ObjectsChange

ServiceSpec == ServiceInit /\ [][ServiceNext]_serviceVars

\* Backend calls return: every call in progress eventually takes a step.
ServiceFairness == \A p \in Clients : WF_serviceVars(CallStep(p))

----------------------------------------------------------------------------
\* How far a call is from its answer: no step of it goes back.
Ahead(p) ==
    CASE phase[p] = "idle" -> 0
      [] phase[p] = "done" -> 1
      [] phase[p] = "unlock" -> 2
      [] phase[p] = "replace" -> 3
      [] phase[p] = "store" -> 4
      [] phase[p] = "upload" -> 5
      [] phase[p] = "list" -> 6
      [] phase[p] = "download" -> 7
      [] phase[p] = "rename" -> 8
      [] phase[p] = "lock" -> 9

\* storage.go: "Lock locks a file in the storage backend, preventing concurrent
\* writes."  No two clients are between Lock and Unlock at once.
LockExclusive ==
    \A p, q \in Clients : phase[p] \in Critical /\ phase[q] \in Critical => p = q

\* A write of the registry never loses what another process wrote: every entry
\* stays, with its time, name and digest, and its status only goes from ready to
\* deleted (Append and MarkDeleted are read-modify-write on a whole file).
EntriesKept ==
    \A e \in Contents(store) :
        \E f \in Contents(store') : /\ SameBackup(f, e)
                                    /\ f.status # e.status => f.status = "deleted"

NoLostUpdate == [][EntriesKept]_store

\* What the storage holds can always be loaded: load decodes and validates it, so
\* one torn write or one duplicate, saved by any path, makes every later call fail.
StoredRegistryLoads == store # Torn /\ Valid(Contents(store))

\* On every backend, only two clients inside the lock at once can spoil the
\* registry file: no failed transfer, failed rename, cancellation or crash does.
LoadsWhileExclusive == []LockExclusive => []StoredRegistryLoads

\* Unless an I/O error or a crash strikes, a lock file exists only while some
\* client is between Lock and Unlock: cancelling a call leaves none behind, which
\* would refuse every later call, for ever.
NoStaleLock == lockFile /\ faults = 0 => \E p \in Clients : phase[p] \in Critical

\* Nothing waits: a call ends, with an answer, whatever the other clients do.
CallsReturn == \A p \in Clients : phase[p] # "idle" ~> phase[p] \in {"idle", "done"}

\* Seen from its callers the locked read-modify-write on a file is one atomic
\* step: the service implements AtomicRegistry.
Atomic == INSTANCE AtomicRegistry WITH
    state   <- [p \in Clients |-> IF phase[p] \in {"idle", "done"} THEN phase[p] ELSE "pending"],
    result  <- [p \in Clients |-> IF took[p] THEN buf[p] ELSE {}],
    outcome <- [p \in Clients |-> IF phase[p] = "done" THEN outcome[p] ELSE "error"]

CallsAreAtomic == Atomic!Spec
============================================================================
