---------------------------- MODULE BackupSystem ----------------------------
(***************************************************************************)
(* The commands of the program over one storage: backup (with or without    *)
(* retention), retention, restore --latest / --backup-id and registry list, *)
(* run by processes and scheduler jobs that share only the storage.         *)
(*                                                                         *)
(* Every registry call goes through RegistryService, step by step; backup   *)
(* objects are uploaded, deleted and downloaded without the lock.  What      *)
(* produces an archive (database tools, compression, encryption) is one     *)
(* step here: it ends in the upload of an object with some digest, or in an *)
(* error that leaves no object.                                            *)
(***************************************************************************)
EXTENDS RegistryService

CONSTANTS
    PeriodOf,        \* see RetentionPolicy
    Policies,        \* the retention configurations in use
    MaxTime          \* bound: the clock stops here

P == INSTANCE RetentionPolicy

ASSUME SystemAssumption ==
    /\ MaxTime \in Nat
    /\ Times = 0..MaxTime
    /\ Policies \subseteq P!Config
    /\ \A cfg \in Policies : ~P!IsEmpty(cfg)

VARIABLES
    clock,     \* the current instant
    started,   \* history: when, and with which setting, backups have started
    made,      \* history: the backups that were reported to have succeeded
    pc,        \* what each client's command is doing
    entry,     \* the backup being made, or the one being restored
    policy,    \* the retention configuration of the command, or NoPolicy
    victims,   \* what retention still has to delete
    gone       \* what retention has deleted and still has to mark

taskVars == <<pc, entry, policy, victims, gone>>
worldVars == <<clock, started, made>>
vars == <<serviceVars, taskVars, worldVars>>

NoPolicy == [maxCount |-> 0, maxAge |-> 0, keepDaily |-> 0, keepWeekly |-> 0,
             keepMonthly |-> 0, dryRun |-> FALSE, force |-> FALSE]

PCs == {"idle", "upload", "register", "appending",
        "plan", "loading", "delete", "mark", "marking",
        "listing", "selecting", "fetch"}

\* What the clock reads: time.Now has nanoseconds, so never quite a whole second.
Readings == {t \in Times : t # SecondOf[t]}

\* The name of a backup that started with s: an instant and an encryption setting.
NameOf(s) == <<SecondOf[s[1]], s[2]>>

TypeOK ==
    /\ ServiceTypeOK
    /\ clock \in Readings
    /\ started \in SUBSET (Times \X EncModes)
    /\ made \in SUBSET Entry
    /\ pc \in [Clients -> PCs]
    /\ entry \in [Clients -> Entry \cup {NoEntry}]
    /\ policy \in [Clients -> Policies \cup {NoPolicy}]
    /\ victims \in [Clients -> SUBSET Entry]
    /\ gone \in [Clients -> SUBSET Entry]

\* Archives that are already there were made before; their names are all that is
\* left of when that was.
Init ==
    /\ ServiceInit
    /\ clock \in Readings
    /\ \A f \in Stored : f[1] < clock
    /\ started = Stored
    /\ made = {}
    /\ pc = [p \in Clients |-> "idle"]
    /\ entry = [p \in Clients |-> NoEntry]
    /\ policy = [p \in Clients |-> NoPolicy]
    /\ victims = [p \in Clients |-> {}]
    /\ gone = [p \in Clients |-> {}]

----------------------------------------------------------------------------
\* The command of p goes on at c.
GoTo(p, c) == pc' = [pc EXCEPT ![p] = c]

\* The command of p ends, whatever its exit status.
Exit(p) ==
    /\ GoTo(p, "idle")
    /\ entry' = [entry EXCEPT ![p] = NoEntry]
    /\ policy' = [policy EXCEPT ![p] = NoPolicy]
    /\ victims' = [victims EXCEPT ![p] = {}]
    /\ gone' = [gone EXCEPT ![p] = {}]

Tick ==
    /\ \E t \in Readings : t > clock /\ clock' = t
    /\ UNCHANGED <<serviceVars, taskVars, started, made>>

(***************************************************************************)
(* backup: the name is the start second; the digest is known at the end.   *)
(* No two commands read the same instant.                                  *)
(***************************************************************************)
StartBackup(p) ==
    /\ pc[p] = "idle" /\ ~cancelled[p]
    /\ \A s \in started : s[1] # clock
    /\ \E enc \in EncModes, d \in Digests :
          /\ entry' = [entry EXCEPT ![p] = NewEntry(clock, enc, d)]
          /\ started' = started \cup {<<clock, enc>>}
    /\ \E cfg \in {c \in Policies : ~c.force /\ ~c.dryRun} \cup {NoPolicy} :
          policy' = [policy EXCEPT ![p] = cfg]
    /\ GoTo(p, "upload")
    /\ UNCHANGED <<serviceVars, victims, gone, clock, made>>

\* A wrong order of stages: the digest is taken before the encryption.
UploadBackupOther(p) ==
    /\ pc[p] = "upload"
    /\ ~cancelled[p]
    /\ \E d \in Digests : objects' = [objects EXCEPT ![FileOf(entry[p])] = d]
    /\ GoTo(p, "register")
    /\ UNCHANGED <<lockFile, store, tempFile, call, cancelled, budget>>
    /\ UNCHANGED <<entry, policy, victims, gone, worldVars>>

\* The pipeline's last stage has stored the archive under the target name.
UploadBackup(p) ==
    /\ pc[p] = "upload"
    /\ ~cancelled[p]
    /\ objects' = [objects EXCEPT ![FileOf(entry[p])] = entry[p].sha]
    /\ GoTo(p, "register")
    /\ UNCHANGED <<lockFile, store, tempFile, call, cancelled, budget>>
    /\ UNCHANGED <<entry, policy, victims, gone, worldVars>>

\* A wrong upload: its error is dropped and the entry is appended all the same.
UploadFailsUnnoticed(p) ==
    /\ pc[p] = "upload"
    /\ (cancelled[p] /\ NoFault) \/ Fault
    /\ GoTo(p, "register")
    /\ UNCHANGED <<storage, call, cancelled, entry, policy, victims, gone, worldVars>>

\* A stage fails: no object, or an object the command does not know it stored.
UploadFails(p) ==
    /\ pc[p] = "upload"
    /\ \/ cancelled[p] /\ NoFault /\ UNCHANGED objects
       \/ /\ Fault
          /\ objects' \in {objects, [objects EXCEPT ![FileOf(entry[p])] = entry[p].sha]}
    /\ Exit(p)
    /\ UNCHANGED <<lockFile, store, tempFile, call, cancelled, worldVars>>

\* The same stage appends the registry entry.
RegisterBackup(p) ==
    /\ pc[p] = "register"
    /\ Invoke(p, "append", entry[p])
    /\ GoTo(p, "appending")
    /\ UNCHANGED <<entry, policy, victims, gone, worldVars>>

\* A wrong end of the pipeline: an entry that cannot be appended is only a warning.
BackupRegisteredAnyway(p) ==
    /\ pc[p] = "appending"
    /\ Return(p)
    /\ made' = made \cup {entry[p]}
    /\ Exit(p)
    /\ UNCHANGED <<clock, started>>

\* Registered: the backup has succeeded, and retention follows if the command has
\* a policy.  Otherwise the command fails and its object stays, unregistered.
BackupRegistered(p) ==
    /\ pc[p] = "appending"
    /\ Return(p)
    /\ made' = IF outcome[p] = "ok" THEN made \cup {entry[p]} ELSE made
    /\ IF outcome[p] = "ok" /\ policy[p] # NoPolicy
       THEN /\ GoTo(p, "plan")
            /\ entry' = [entry EXCEPT ![p] = NoEntry]
            /\ UNCHANGED <<policy, victims, gone>>
       ELSE Exit(p)
    /\ UNCHANGED <<clock, started>>

(***************************************************************************)
(* retention                                                               *)
(***************************************************************************)
StartRetention(p) ==
    /\ pc[p] = "idle" /\ ~cancelled[p]
    /\ \E cfg \in Policies : policy' = [policy EXCEPT ![p] = cfg]
    /\ GoTo(p, "plan")
    /\ UNCHANGED <<serviceVars, entry, victims, gone, worldVars>>

LoadForRetention(p) ==
    /\ pc[p] = "plan"
    /\ Invoke(p, "load", NoEntry)
    /\ GoTo(p, "loading")
    /\ UNCHANGED <<entry, policy, victims, gone, worldVars>>

\* A wrong dry run: it skips the deletions, and marks what it has not deleted.
PlanRetentionMarksDry(p) ==
    /\ pc[p] = "loading"
    /\ Return(p)
    /\ \/ /\ outcome[p] = "ok"
          /\ \E V \in P!ToRemove(Ready(buf[p]), policy[p], clock) :
                IF policy[p].dryRun
                THEN gone' = [gone EXCEPT ![p] = V] /\ GoTo(p, "mark") /\ UNCHANGED victims
                ELSE victims' = [victims EXCEPT ![p] = V] /\ GoTo(p, "delete") /\ UNCHANGED gone
          /\ UNCHANGED <<entry, policy>>
       \/ outcome[p] = "error" /\ Exit(p)
    /\ UNCHANGED worldVars

\* Stages 2 and 3 on the loaded copy; the lock has been released before.
\* A dry run deletes nothing and has nothing to mark.
PlanRetention(p) ==
    /\ pc[p] = "loading"
    /\ Return(p)
    /\ \/ /\ outcome[p] = "ok" /\ ~policy[p].dryRun
          /\ \E V \in P!ToRemove(Ready(buf[p]), policy[p], clock) :
                victims' = [victims EXCEPT ![p] = V]
          /\ GoTo(p, "delete")
          /\ UNCHANGED <<entry, policy, gone>>
       \/ (outcome[p] = "error" \/ policy[p].dryRun) /\ Exit(p)
    /\ UNCHANGED worldVars

\* Backups are deleted and marked in the order of the registry, newest first.
NextOf(S) == {e \in S : \A f \in S : f.created <= e.created}

\* A wrong Delete: a missing archive is skipped, and so is never marked.
DeleteBackupSkips(p) ==
    /\ pc[p] = "delete"
    /\ ~cancelled[p]
    /\ \E v \in NextOf(victims[p]) :
          /\ objects[FileOf(v)] # NoObject \/ Backend = "s3"
          /\ objects' = [objects EXCEPT ![FileOf(v)] = NoObject]
          /\ victims' = [victims EXCEPT ![p] = @ \ {v}]
          /\ gone' = [gone EXCEPT ![p] = IF objects[FileOf(v)] # NoObject THEN @ \cup {v} ELSE @]
    /\ UNCHANGED <<lockFile, store, tempFile, call, cancelled, budget>>
    /\ UNCHANGED <<pc, entry, policy, worldVars>>

\* Backend.Delete succeeds; s3 also "deletes" what is not there.
DeleteBackup(p) ==
    /\ pc[p] = "delete"
    /\ ~cancelled[p]
    /\ \E v \in NextOf(victims[p]) :
          /\ objects[FileOf(v)] # NoObject \/ Backend = "s3"
          /\ objects' = [objects EXCEPT ![FileOf(v)] = NoObject]
          /\ victims' = [victims EXCEPT ![p] = @ \ {v}]
          /\ gone' = [gone EXCEPT ![p] = @ \cup {v}]
    /\ UNCHANGED <<lockFile, store, tempFile, call, cancelled, budget>>
    /\ UNCHANGED <<pc, entry, policy, worldVars>>

\* Backend.Delete fails: the context is done, the object is not there, or an I/O
\* error (then it may be gone all the same).  Without force the run ends here and
\* forgets what it has deleted; with force the backup is skipped.
DeleteFails(p) ==
    /\ pc[p] = "delete"
    /\ \E v \in NextOf(victims[p]) :
          /\ \/ /\ cancelled[p] \/ (objects[FileOf(v)] = NoObject /\ Backend # "s3")
                /\ NoFault
                /\ UNCHANGED objects
             \/ /\ Fault
                /\ objects' \in {objects, [objects EXCEPT ![FileOf(v)] = NoObject]}
          /\ IF policy[p].force
             THEN /\ victims' = [victims EXCEPT ![p] = @ \ {v}]
                  /\ UNCHANGED <<pc, entry, policy, gone>>
             ELSE Exit(p)
    /\ UNCHANGED <<lockFile, store, tempFile, call, cancelled, worldVars>>

\* Everything is deleted: stage 5 marks what has been deleted.
DeletesDone(p) ==
    /\ pc[p] = "delete"
    /\ victims[p] = {}
    /\ GoTo(p, "mark")
    /\ UNCHANGED <<serviceVars, entry, policy, victims, gone, worldVars>>

MarkNext(p) ==
    /\ pc[p] = "mark"
    /\ \E v \in NextOf(gone[p]) : Invoke(p, "mark", v)
    /\ GoTo(p, "marking")
    /\ UNCHANGED <<entry, policy, victims, gone, worldVars>>

\* A wrong force: what cannot be marked is tried again.
MarkReturnedRetries(p) ==
    /\ pc[p] = "marking"
    /\ Return(p)
    /\ IF outcome[p] = "ok" \/ policy[p].force
       THEN /\ gone' = IF outcome[p] = "ok" THEN [gone EXCEPT ![p] = @ \ {arg[p]}] ELSE gone
            /\ GoTo(p, "mark")
            /\ UNCHANGED <<entry, policy, victims>>
       ELSE Exit(p)
    /\ UNCHANGED worldVars

\* A failed MarkDeleted ends the run, unless it is forced.
MarkReturned(p) ==
    /\ pc[p] = "marking"
    /\ Return(p)
    /\ IF outcome[p] = "ok" \/ policy[p].force
       THEN /\ gone' = [gone EXCEPT ![p] = @ \ {arg[p]}]
            /\ GoTo(p, "mark")
            /\ UNCHANGED <<entry, policy, victims>>
       ELSE Exit(p)
    /\ UNCHANGED worldVars

RetentionDone(p) ==
    /\ pc[p] = "mark"
    /\ gone[p] = {}
    /\ Exit(p)
    /\ UNCHANGED <<serviceVars, worldVars>>

(***************************************************************************)
(* registry list [--rebuild] and restore [--latest | --backup-id]          *)
(***************************************************************************)
StartList(p) ==
    /\ pc[p] = "idle" /\ ~cancelled[p]
    /\ \E o \in {"load", "recover"} : Invoke(p, o, NoEntry)
    /\ GoTo(p, "listing")
    /\ UNCHANGED <<entry, policy, victims, gone, worldVars>>

ListDone(p) ==
    /\ pc[p] = "listing"
    /\ Return(p)
    /\ Exit(p)
    /\ UNCHANGED worldVars

StartRestore(p) ==
    /\ pc[p] = "idle" /\ ~cancelled[p]
    /\ Invoke(p, "recover", NoEntry)
    /\ GoTo(p, "selecting")
    /\ UNCHANGED <<entry, policy, victims, gone, worldVars>>

\* resolveBackupSelection: --latest takes the newest ready entry.
SelectLatest(p) ==
    /\ pc[p] = "selecting"
    /\ Return(p)
    /\ \/ /\ outcome[p] = "ok"
          /\ \E e \in NextOf(Ready(buf[p])) : entry' = [entry EXCEPT ![p] = e]
          /\ GoTo(p, "fetch")
          /\ UNCHANGED <<policy, victims, gone>>
       \/ (outcome[p] = "error" \/ Ready(buf[p]) = {}) /\ Exit(p)
    /\ UNCHANGED worldVars

\* resolveBackupSelection: --backup-id takes the ready entry with that identifier.
SelectByID(p) ==
    /\ pc[p] = "selecting"
    /\ outcome[p] = "ok"
    /\ Return(p)
    /\ \E e \in Ready(buf[p]) : entry' = [entry EXCEPT ![p] = e]
    /\ GoTo(p, "fetch")
    /\ UNCHANGED <<policy, victims, gone, worldVars>>

\* The first stage of the restore pipeline downloads the object; it succeeds or
\* fails, and nothing else of the restore touches the storage.
Fetch(p) ==
    /\ pc[p] = "fetch"
    /\ Exit(p)
    /\ UNCHANGED <<serviceVars, worldVars>>

----------------------------------------------------------------------------
\* The registry call of p's command takes a step.
RegistryStep(p) ==
    /\ CallStep(p)
    /\ UNCHANGED <<taskVars, worldVars>>

CancelCommand(p) ==
    /\ pc[p] # "idle"
    /\ Cancel(p)
    /\ UNCHANGED <<taskVars, worldVars>>

\* The next command of p runs in a new process or job, with a new context.
NextCommand(p) ==
    /\ pc[p] = "idle" /\ cancelled[p]
    /\ Renew(p)
    /\ UNCHANGED <<taskVars, worldVars>>

\* The process dies at any point of its command.
CrashCommand(p) ==
    /\ pc[p] # "idle"
    /\ \/ Crash(p)
       \/ phase[p] = "idle" /\ Fault /\ UNCHANGED <<storage, call, cancelled>>
    /\ Exit(p)
    /\ UNCHANGED worldVars

\* What a command does once it has started.
CommandStep(p) ==
    \/ UploadBackup(p) \/ UploadFails(p) \/ RegisterBackup(p) \/ BackupRegistered(p)
    \/ LoadForRetention(p) \/ PlanRetention(p)
    \/ DeleteBackup(p) \/ DeleteFails(p) \/ DeletesDone(p)
    \/ MarkNext(p) \/ MarkReturned(p) \/ RetentionDone(p)
    \/ ListDone(p) \/ SelectLatest(p) \/ SelectByID(p) \/ Fetch(p)
    \/ RegistryStep(p)

StartCommand(p) ==
    StartBackup(p) \/ StartRetention(p) \/ StartList(p) \/ StartRestore(p)

Next ==
    \/ \E p \in Clients : \/ CommandStep(p) \/ StartCommand(p)
                          \/ CancelCommand(p) \/ NextCommand(p) \/ CrashCommand(p)
    \/ Tick

Spec == Init /\ [][Next]_vars

\* A command that has started goes on: every call of it returns.
Fairness == \A p \in Clients : WF_vars(CommandStep(p))

FairSpec == Spec /\ Fairness

\* Retention is scheduled, and not as a dry run only: a client that is free again and
\* again runs it.
StartPruning(p) == StartRetention(p) /\ ~policy'[p].dryRun

ScheduledSpec == FairSpec /\ \A p \in Clients : /\ SF_vars(StartPruning(p))
                                               /\ WF_vars(NextCommand(p))

----------------------------------------------------------------------------
\* What the registry says is ready.
ReadyEntries == Ready(Contents(store))

Present(e) == objects[FileOf(e)] # NoObject

\* Two backups that start in one second with the same setting get the same name, and
\* the later upload replaces the archive (the run same_second shows what this breaks).
Shared(f) == \E s, t \in started : s # t /\ NameOf(s) = f /\ NameOf(t) = f

\* The archive of e is in the storage: not merely an object of that name, but the
\* one whose digest e has, unless another backup was given the same name.
Intact(e) ==
    /\ Present(e)
    /\ objects[FileOf(e)] = e.sha \/ e.sha = Unknown \/ Shared(FileOf(e))

\* A newer backup than e is ready.
Superseded(e) == \E g \in ReadyEntries : g.created > e.created

\* Whatever retention runs interleave, on snapshots however stale, and wherever
\* they fail, the archive of the newest backup the registry calls ready is in the
\* storage: a "restore --latest" started now finds it.
NewestIsRestorable == \A e \in NextOf(ReadyEntries) : Intact(e)

\* A backup that was reported to have succeeded stays in the registry, with its time
\* and digest, and the archive with that digest stays stored until a newer backup is
\* ready: no interleaving of appends, uploads, retention and rebuilds loses it, nor
\* any failure.  Only a backup of the same second can replace it.
AcknowledgedIsKept ==
    \A e \in made :
        /\ \E f \in Contents(store) : SameBackup(f, e)
        /\ Intact(e) \/ Superseded(e)

\* No step removes the archive of a backup unless the registry has that backup
\* and a newer one that is ready: retention acts on a snapshot, without the lock.
OnlySupersededDeleted ==
    [][\A f \in Files : objects[f] # NoObject /\ objects'[f] = NoObject =>
          \E e \in Contents(store) : FileOf(e) = f /\ Superseded(e)]_objects

\* A restore that has selected a backup finds its archive, unless a newer backup
\* has become ready since: trying again helps.
SelectedOrSuperseded ==
    \A p \in Clients : pc[p] = "fetch" => Intact(entry[p]) \/ Superseded(entry[p])

\* README.md: "sha256: SHA256 hash of the backup file".  The archive stored under
\* the name of a ready entry is the one the entry describes.  The code gives every
\* backup of one second the same name, and an upload replaces what has that name.
DigestDescribesArchive ==
    \A e \in ReadyEntries : Present(e) /\ e.sha # Unknown => objects[FileOf(e)] = e.sha

\* An entry is marked deleted only when its archive is gone, and no later upload
\* brings it back: marked entries hide no archive from restore and retention, save
\* that of another backup of the same second.
DeletedIsGone ==
    \A e \in Contents(store) :
        e.status = "deleted" => ~Present(e) \/ Shared(FileOf(e))

\* A command that has started ends: nothing waits for a lock or for another client.
CommandsEnd == \A p \in Clients : pc[p] # "idle" ~> pc[p] = "idle"

\* What the command of p has still to do: its stages, the backups to delete (each of
\* which is to be marked, too) and to mark, and the rest of its registry call.
StagesLeft(p) ==
    CASE pc[p] = "idle" -> 0
      [] pc[p] \in {"fetch", "listing"} -> 1
      [] pc[p] \in {"mark", "marking", "selecting"} -> 2
      [] pc[p] = "delete" -> 3
      [] pc[p] = "loading" -> 4
      [] pc[p] = "plan" -> 5
      [] pc[p] = "appending" -> 6
      [] pc[p] = "register" -> 7
      [] pc[p] = "upload" -> 8

BackupsLeft(p) == 2 * Cardinality(victims[p]) + Cardinality(gone[p])

CallLeft(p) == IF pc[p] = "mark" THEN 10 ELSE Ahead(p)

\* Does this step leave p less to do?
Nearer(p) ==
    \/ StagesLeft(p)' < StagesLeft(p)
    \/ /\ StagesLeft(p)' = StagesLeft(p)
       /\ \/ BackupsLeft(p)' < BackupsLeft(p)
          \/ BackupsLeft(p)' = BackupsLeft(p) /\ CallLeft(p)' < CallLeft(p)

\* Where the command of p is, with all that a step may change only to be nearer.
Place(p) == <<pc[p], victims[p], gone[p], phase[p]>>

\* Nothing that the command itself, another one, a failure or a crash does sets a
\* command back: no loop over backups, no retry and no call starts over.
CommandsRunDown ==
    [][\A p \in Clients : pc[p] = "idle" \/ UNCHANGED Place(p) \/ Nearer(p)]_vars

\* A lock file that no client holds.
StaleLock == lockFile /\ \A p \in Clients : phase[p] \notin Critical

\* When Delete of a missing object succeeds, retention that is run again repairs
\* what an interrupted run left behind (deleted archives still marked ready),
\* unless a crash or a lost reply has left a lock file that refuses every call.
InterruptedRetentionHeals ==
    (\E e \in ReadyEntries : ~Present(e)) ~>
        ((\A e \in ReadyEntries : Present(e)) \/ StaleLock)
=============================================================================
