----------------------------- MODULE Scheduler -----------------------------
(***************************************************************************)
(* The scheduler daemon (internal/scheduler): cron starts jobs, each run is  *)
(* executed, recorded in the history, the history saved and a webhook        *)
(* called; a signal stops the daemon; "run --once" runs the jobs one after   *)
(* the other; "status" loads, and saves, the same state file.                *)
(*                                                                         *)
(* What a job does to its storage is BackupSystem's subject; here it ends   *)
(* well, with an error or in a panic.  cron (a library) starts a job only   *)
(* when its previous run is over (SkipIfStillRunning).                      *)
(***************************************************************************)
EXTENDS Integers, FiniteSets

CONSTANTS
    Jobs,        \* the enabled jobs
    Torn,        \* the contents of a file that does not parse
    Absent,      \* there is no such file
    HookTimeout, \* TRUE: webhook.timeout is configured, or there is no webhook
    MaxRuns,     \* bound: runs of each job that are recorded
    MaxFaults,   \* bound: I/O errors of a save, and crashes
    MaxStatus    \* bound: "scheduler status" commands

Daemon == "daemon"
Status == "status"

ASSUME SchedulerAssumption ==
    /\ Jobs \cap {Daemon, Status, "free"} = {}
    /\ MaxRuns \in Nat
    /\ MaxFaults \in Nat
    /\ MaxStatus \in Nat
    /\ HookTimeout \in BOOLEAN
    /\ Torn # Absent

\* Whoever calls State.Save: a job's goroutine, or the main goroutine of the
\* daemon or of the status command (State.Close).
Savers == Jobs \cup {Daemon, Status}

\* A process has one State, with one mutex.
ProcessOf(s) == IF s = Status THEN Status ELSE Daemon
Processes == {Daemon, Status}

\* The history: RunCount of each job, which stands for the rest of its JobState.
History == [Jobs -> 0..MaxRuns]
NoHistory == [j \in Jobs |-> 0]

ASSUME FileAssumption == Torn \notin History /\ Absent \notin History

VARIABLES
    main,      \* per process: what its main goroutine is doing
    todo,      \* the jobs that "run --once" has still to run
    cancelled, \* the context of "run --once" is done
    job,       \* per job: what its goroutine is doing
    result,    \* per job: how its run ended
    mem,       \* per process: the history in memory
    mutex,     \* per process: who holds State.mu, or "free"
    save,      \* per saver: where it is in Save
    data,      \* per saver: the history it has marshalled
    fd,        \* per saver: the file it has open is now the "tmp" file, the
               \* state file ("file"), neither ("lost"), or it has none
    file, tmp, \* the contents of the state file and of its ".tmp"
    unsaved,   \* history: a save of the daemon has failed since it started
    late,      \* history: the jobs whose run began after wg.Wait had returned
    faults, statuses

vars == <<main, todo, cancelled, job, result, mem, mutex, save, data, fd, file, tmp,
          unsaved, late, faults, statuses>>

fileVars == <<mutex, save, data, fd, file, tmp, unsaved>>

MainPhases == {"down", "up", "once", "stopping", "closing", "closed"}
JobPhases == {"idle", "fired", "backup", "after", "retention", "ended", "saving", "notify"}
Working == {"backup", "after", "retention"}
\* Between wg.Add and wg.Done.
Counted == Working \cup {"ended", "saving", "notify"}

TypeOK ==
    /\ main \in [Processes -> MainPhases]
    /\ todo \in SUBSET Jobs
    /\ cancelled \in BOOLEAN
    /\ job \in [Jobs -> JobPhases]
    /\ result \in [Jobs -> {"none", "ok", "error", "panic"}]
    /\ mem \in [Processes -> History]
    /\ mutex \in [Processes -> Savers \cup {"free"}]
    /\ save \in [Savers -> {"no", "lock", "open", "write", "rename"}]
    /\ data \in [Savers -> History]
    /\ fd \in [Savers -> {"none", "tmp", "file", "lost"}]
    /\ file \in History \cup {Torn, Absent}
    /\ tmp \in History \cup {Torn, Absent}
    /\ unsaved \in BOOLEAN
    /\ late \in SUBSET Jobs
    /\ faults \in 0..MaxFaults
    /\ statuses \in 0..MaxStatus

Init ==
    /\ main = [p \in Processes |-> "down"]
    /\ todo = {}
    /\ cancelled = FALSE
    /\ job = [j \in Jobs |-> "idle"]
    /\ result = [j \in Jobs |-> "none"]
    /\ mem = [p \in Processes |-> NoHistory]
    /\ mutex = [p \in Processes |-> "free"]
    /\ save = [s \in Savers |-> "no"]
    /\ data = [s \in Savers |-> NoHistory]
    /\ fd = [s \in Savers |-> "none"]
    /\ file = Absent
    /\ tmp = Absent
    /\ unsaved = FALSE
    /\ late = {}
    /\ faults = 0
    /\ statuses = 0

Fault == faults < MaxFaults /\ faults' = faults + 1

----------------------------------------------------------------------------
(***************************************************************************)
(* State.Save, under State.mu: open and truncate the temporary file, write  *)
(* it, rename it onto the state file.                                       *)
(***************************************************************************)
BeginSave(s) == save' = [save EXCEPT ![s] = "lock"]

\* A wrong Save that does not lock the mutex.
LockStateUnlocked(s) ==
    /\ save[s] = "lock"
    /\ save' = [save EXCEPT ![s] = "open"]
    /\ data' = [data EXCEPT ![s] = mem[ProcessOf(s)]]
    /\ UNCHANGED <<main, todo, cancelled, job, result, mem, mutex, fd, file, tmp,
                   unsaved, late, faults, statuses>>

\* The mutex is got and the history marshalled.
LockState(s) ==
    /\ save[s] = "lock"
    /\ mutex[ProcessOf(s)] = "free"
    /\ mutex' = [mutex EXCEPT ![ProcessOf(s)] = s]
    /\ save' = [save EXCEPT ![s] = "open"]
    /\ data' = [data EXCEPT ![s] = mem[ProcessOf(s)]]
    /\ UNCHANGED <<main, todo, cancelled, job, result, mem, fd, file, tmp, unsaved, late,
                   faults, statuses>>

\* os.WriteFile opens the temporary file and truncates it, whoever wrote it.
OpenTemp(s) ==
    /\ save[s] = "open"
    /\ tmp' = Torn
    /\ fd' = [fd EXCEPT ![s] = "tmp"]
    /\ save' = [save EXCEPT ![s] = "write"]
    /\ UNCHANGED <<main, todo, cancelled, job, result, mem, mutex, data, file, unsaved, late,
                   faults, statuses>>

\* What is in a file after s has written it: over the longer text of another
\* process its own does not parse.
After(s, old) == IF old = Torn THEN {data[s]} ELSE {data[s], Torn}

\* os.WriteFile writes to the file it has opened, whatever its name is by now.
WriteTemp(s) ==
    /\ save[s] = "write"
    /\ IF fd[s] = "tmp" THEN tmp' \in After(s, tmp) ELSE UNCHANGED tmp
    /\ IF fd[s] = "file" THEN file' \in After(s, file) ELSE UNCHANGED file
    /\ fd' = [fd EXCEPT ![s] = "none"]
    /\ save' = [save EXCEPT ![s] = "rename"]
    /\ UNCHANGED <<main, todo, cancelled, job, result, mem, mutex, data, unsaved, late, faults, statuses>>

Unlock(s) ==
    /\ save' = [save EXCEPT ![s] = "no"]
    /\ mutex' = [mutex EXCEPT ![ProcessOf(s)] = "free"]
    /\ data' = [data EXCEPT ![s] = NoHistory]

\* os.Rename replaces the state file; files that are open follow their names.
RenameTemp(s) ==
    /\ save[s] = "rename"
    /\ tmp # Absent
    /\ file' = tmp
    /\ tmp' = Absent
    /\ fd' = [x \in Savers |-> IF fd[x] = "file" THEN "lost"
                               ELSE IF fd[x] = "tmp" THEN "file" ELSE fd[x]]
    /\ Unlock(s)
    /\ UNCHANGED <<main, todo, cancelled, job, result, mem, unsaved, late, faults, statuses>>

\* A wrong Save that returns its error without unlocking.
SaveFailsLocked(s) ==
    /\ save[s] \in {"open", "write", "rename"}
    /\ Fault
    /\ save' = [save EXCEPT ![s] = "no"]
    /\ fd' = [fd EXCEPT ![s] = "none"]
    /\ unsaved' = TRUE
    /\ UNCHANGED <<main, todo, cancelled, job, result, mem, mutex, data, file, tmp, late, statuses>>

\* An I/O error, or the temporary file has been renamed by another process.  The
\* caller logs the error.
SaveFails(s) ==
    /\ save[s] \in {"open", "write", "rename"}
    /\ \/ Fault
       \/ save[s] = "rename" /\ tmp = Absent /\ UNCHANGED faults
    /\ fd' = [fd EXCEPT ![s] = "none"]
    /\ Unlock(s)
    /\ unsaved' = (unsaved \/ s # Status)
    /\ UNCHANGED <<main, todo, cancelled, job, result, mem, file, tmp, late, statuses>>

SaveStep(s) == LockState(s) \/ OpenTemp(s) \/ WriteTemp(s) \/ RenameTemp(s) \/ SaveFails(s)

----------------------------------------------------------------------------
(***************************************************************************)
(* A run of a job: runJob, executeJob, executeBackup, executeRetention.     *)
(***************************************************************************)
\* cron starts the job's goroutine; its runJob has not been entered yet.
Fire(j) ==
    /\ main[Daemon] = "up"
    /\ job[j] = "idle"
    /\ mem[Daemon][j] < MaxRuns
    /\ job' = [job EXCEPT ![j] = "fired"]
    /\ UNCHANGED <<main, todo, cancelled, result, mem, fileVars, late, faults, statuses>>

\* RunOnce calls runJob for the next job, unless its context is done.
OnceNext(j) ==
    /\ main[Daemon] = "once"
    /\ j \in todo
    /\ \A k \in Jobs : job[k] = "idle"
    /\ ~cancelled
    /\ mem[Daemon][j] < MaxRuns
    /\ todo' = todo \ {j}
    /\ job' = [job EXCEPT ![j] = "fired"]
    /\ UNCHANGED <<main, cancelled, result, mem, fileVars, late, faults, statuses>>

\* runJob enters its wait group and starts the job's command.
EnterRun(j) ==
    /\ job[j] = "fired"
    /\ \E command \in {"backup", "retention"} : job' = [job EXCEPT ![j] = command]
    /\ late' = IF main[Daemon] \in {"closing", "closed"} THEN late \cup {j} ELSE late
    /\ UNCHANGED <<main, todo, cancelled, result, mem, fileVars, faults, statuses>>

EndRun(j, r) ==
    /\ job' = [job EXCEPT ![j] = "ended"]
    /\ result' = [result EXCEPT ![j] = r]
    /\ UNCHANGED <<main, todo, cancelled, mem, fileVars, late, faults, statuses>>

\* The backup is made; retention may follow.
BackupMade(j) ==
    /\ job[j] = "backup"
    /\ \/ /\ job' = [job EXCEPT ![j] = "after"]
          /\ UNCHANGED <<main, todo, cancelled, result, mem, fileVars, late, faults, statuses>>
       \/ EndRun(j, "ok")

\* The command fails: an error of the storage or the tools, or the timeout.
RunFails(j) == job[j] \in {"backup", "retention"} /\ EndRun(j, "error")

\* Retention after a backup only warns when it fails.
RetentionEnds(j) == job[j] \in {"after", "retention"} /\ EndRun(j, "ok")

\* The command panics, for instance a retention job without a retention section.
RunPanics(j) == job[j] \in Working /\ EndRun(j, "panic")

\* A wrong recovery: a panic is recorded but the history is not saved.
RecordRunUnsavedPanic(j) ==
    /\ job[j] = "ended"
    /\ mutex[Daemon] = "free"
    /\ mem' = [mem EXCEPT ![Daemon][j] = @ + 1]
    /\ IF result[j] = "panic"
       THEN job' = [job EXCEPT ![j] = "notify"] /\ UNCHANGED save
       ELSE job' = [job EXCEPT ![j] = "saving"] /\ BeginSave(j)
    /\ UNCHANGED <<main, todo, cancelled, result, mutex, data, fd, file, tmp, unsaved, late,
                   faults, statuses>>

\* State.RecordRun, of a run that returned or of one whose panic was recovered.
RecordRun(j) ==
    /\ job[j] = "ended"
    /\ mutex[Daemon] = "free"
    /\ mem' = [mem EXCEPT ![Daemon][j] = @ + 1]
    /\ job' = [job EXCEPT ![j] = "saving"]
    /\ BeginSave(j)
    /\ UNCHANGED <<main, todo, cancelled, result, mutex, data, fd, file, tmp, unsaved, late,
                   faults, statuses>>

\* Save has returned; the webhook is called next.
RunSaved(j) ==
    /\ job[j] = "saving"
    /\ save[j] = "no"
    /\ job' = [job EXCEPT ![j] = "notify"]
    /\ UNCHANGED <<main, todo, cancelled, result, mem, fileVars, late, faults, statuses>>

\* The webhook has been delivered or not; runJob returns.  A run that ended in an
\* error ends RunOnce; a panic returns nil.
RunOver(j) ==
    /\ job[j] = "notify"
    /\ job' = [job EXCEPT ![j] = "idle"]
    /\ result' = [result EXCEPT ![j] = "none"]
    /\ todo' = IF main[Daemon] = "once" /\ result[j] = "error" THEN {} ELSE todo
    /\ UNCHANGED <<main, cancelled, mem, fileVars, late, faults, statuses>>

JobStep(j) ==
    \/ EnterRun(j) \/ BackupMade(j) \/ RunFails(j) \/ RetentionEnds(j) \/ RunPanics(j)
    \/ RecordRun(j) \/ RunSaved(j) \/ SaveStep(j)

----------------------------------------------------------------------------
(***************************************************************************)
(* The main goroutines: scheduler run, run --once, status.                  *)
(***************************************************************************)
\* A wrong loadState that keeps a nil map when there is no history.
LoadNil(p, phase) ==
    /\ main[p] = "down"
    /\ file # Torn
    /\ mem' = [mem EXCEPT ![p] = file]
    /\ main' = [main EXCEPT ![p] = phase]

\* New: loadState reads the state file; one that does not parse is an error.
Load(p, phase) ==
    /\ main[p] = "down"
    /\ file # Torn
    /\ mem' = [mem EXCEPT ![p] = IF file = Absent THEN NoHistory ELSE file]
    /\ main' = [main EXCEPT ![p] = phase]

Start ==
    /\ \/ Load(Daemon, "up") /\ todo' = {}
       \/ Load(Daemon, "once") /\ todo' = Jobs
    /\ cancelled' = FALSE
    /\ unsaved' = FALSE
    /\ UNCHANGED <<job, result, mutex, save, data, fd, file, tmp, late, faults, statuses>>

\* A signal.  Run: cron starts no more jobs; running ones have another context.
Signal ==
    /\ \/ /\ main[Daemon] = "up"
          /\ main' = [main EXCEPT ![Daemon] = "stopping"]
          /\ UNCHANGED cancelled
       \/ /\ main[Daemon] = "once" /\ ~cancelled
          /\ cancelled' = TRUE
          /\ UNCHANGED main
    /\ UNCHANGED <<todo, job, result, mem, fileVars, late, faults, statuses>>

\* A wrong Close: after a run was recorded and saved there is nothing to save.
CloseStateOnce(p) ==
    /\ main' = [main EXCEPT ![p] = "closing"]
    /\ IF mem[p] = NoHistory THEN BeginSave(p) ELSE UNCHANGED save

\* State.Close saves: nothing resets its dirty flag, not even a save.
CloseState(p) == main' = [main EXCEPT ![p] = "closing"] /\ BeginSave(p)

\* A wrong stop that does not wait: its select finds the context done.
StopWaitsNot ==
    /\ main[Daemon] = "stopping"
    /\ CloseState(Daemon)
    /\ UNCHANGED <<todo, cancelled, job, result, mem, mutex, data, fd, file, tmp, unsaved, late,
                   faults, statuses>>

\* stop: wg.Wait returns; the select that follows finds the context done and waits
\* no more; State.Close saves, for the registration of the jobs made it dirty.
StopWaits ==
    /\ main[Daemon] = "stopping"
    /\ \A j \in Jobs : job[j] \notin Counted
    /\ CloseState(Daemon)
    /\ UNCHANGED <<todo, cancelled, job, result, mem, mutex, data, fd, file, tmp, unsaved, late,
                   faults, statuses>>

\* RunOnce returns: no job is left, one has failed, or the context is done.
OnceDone ==
    /\ main[Daemon] = "once"
    /\ \A j \in Jobs : job[j] = "idle"
    /\ todo = {} \/ cancelled \/ (\E j \in todo : mem[Daemon][j] = MaxRuns)
    /\ CloseState(Daemon)
    /\ UNCHANGED <<todo, cancelled, job, result, mem, mutex, data, fd, file, tmp, unsaved, late,
                   faults, statuses>>

\* "scheduler status" creates a Scheduler as well, prints, and closes it.
RunStatus ==
    /\ statuses < MaxStatus
    /\ statuses' = statuses + 1
    /\ Load(Status, "closing")
    /\ BeginSave(Status)
    /\ UNCHANGED <<todo, cancelled, job, result, mutex, data, fd, file, tmp, unsaved, late,
                   faults>>

Closed(p) ==
    /\ main[p] = "closing"
    /\ save[p] = "no"
    /\ main' = [main EXCEPT ![p] = "closed"]
    /\ UNCHANGED <<todo, cancelled, job, result, mem, fileVars, late, faults, statuses>>

\* The process ends; what its goroutines were doing is over, wherever they were.
Die(p) ==
    LET mine == {s \in Savers : ProcessOf(s) = p}
    IN  /\ main' = [main EXCEPT ![p] = "down"]
        /\ mem' = [mem EXCEPT ![p] = NoHistory]
        /\ mutex' = [mutex EXCEPT ![p] = "free"]
        /\ save' = [s \in Savers |-> IF s \in mine THEN "no" ELSE save[s]]
        /\ data' = [s \in Savers |-> IF s \in mine THEN NoHistory ELSE data[s]]
        /\ fd' = [s \in Savers |-> IF s \in mine THEN "none" ELSE fd[s]]
        /\ IF p = Daemon
           THEN /\ job' = [j \in Jobs |-> "idle"]
                /\ result' = [j \in Jobs |-> "none"]
                /\ todo' = {} /\ cancelled' = FALSE /\ unsaved' = FALSE /\ late' = {}
           ELSE UNCHANGED <<job, result, todo, cancelled, unsaved, late>>
        /\ UNCHANGED <<file, tmp, statuses>>

Exit(p) == main[p] = "closed" /\ Die(p) /\ UNCHANGED faults

Crash(p) == main[p] # "down" /\ Fault /\ Die(p)

MainStep(p) ==
    \/ SaveStep(p) \/ Closed(p) \/ Exit(p)
    \/ p = Daemon /\ (StopWaits \/ OnceDone)

Next ==
    \/ Start \/ Signal \/ RunStatus
    \/ \E j \in Jobs : Fire(j) \/ OnceNext(j) \/ JobStep(j) \/ RunOver(j)
    \/ \E p \in Processes : MainStep(p) \/ Crash(p)

Spec == Init /\ [][Next]_vars

\* Goroutines go on: commands end (they have a timeout) and calls of the operating
\* system return.  The webhook is called with no context, and so its call need not
\* return without a timeout of its own.
Fairness ==
    /\ \A j \in Jobs : WF_vars(JobStep(j) \/ OnceNext(j))
    /\ \A j \in Jobs : HookTimeout => WF_vars(RunOver(j))
    /\ \A p \in Processes : WF_vars(MainStep(p))

FairSpec == Spec /\ Fairness

----------------------------------------------------------------------------
\* examples/scheduler/README.md: the state file allows "the scheduler to recover
\* from crashes": when all is over, the state file is one that New can load.
DaemonCanStart == (\A p \in Processes : main[p] = "down") => file # Torn

RunsOnDisk(f, j) == IF f \in {Absent, Torn} THEN 0 ELSE f[j]

\* The daemon alone never undoes the history on disk: jobs that save at the same
\* time, saves that fail and crashes put no older or torn history in its place.
HistoryNeverShrinks ==
    [][statuses = 0 => /\ file' # Torn
                       /\ \A j \in Jobs : RunsOnDisk(file', j) >= RunsOnDisk(file, j)]_file

\* A run that is over is on disk: as long as no save has failed, only runs between
\* RecordRun and the end of their own Save are missing from the state file.
RunsAreOnDisk ==
    statuses = 0 /\ main[Daemon] # "down" /\ ~unsaved =>
        \A j \in Jobs : job[j] # "saving" => RunsOnDisk(file, j) = mem[Daemon][j]

\* stop waits: once the daemon closes its state, no run is under way that had begun
\* before (one that cron had launched but that had not begun may still begin).
StopInterruptsNoRun ==
    main[Daemon] \in {"closing", "closed"} =>
        \A j \in Jobs : job[j] \in Counted => j \in late

\* A signal stops the daemon, and "run --once" ends, whatever the jobs are doing and
\* whichever saves fail, as long as the webhook cannot hang.
StopEnds == main[Daemon] \in {"stopping", "once"} ~> main[Daemon] = "down"
============================================================================
