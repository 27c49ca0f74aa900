-------------------------- MODULE SchedulerProofs --------------------------
(***************************************************************************)
(* The history of the scheduler is safe and stopping interrupts no run, for *)
(* any set of jobs and any number of runs, faults and crashes.              *)
(*                                                                         *)
(* The inductive invariant says, as long as no status command has run: who  *)
(* is inside Save has the mutex and the newest history (Held) and the       *)
(* temporary file to itself (Temp); the state file is never ahead of the    *)
(* memory (NotAhead), and only behind it for jobs that are still to save,   *)
(* unless a save has failed (OnDisk).  Two more hold beside status          *)
(* commands: one that is over saves no more (Quiet), and once the daemon    *)
(* closes its state with none about, its own goroutines write the files,    *)
(* one at a time, and the last one all that is remembered (Settled).        *)
(***************************************************************************)
EXTENDS SchedulerStop, TLAPS

InSave == {"open", "write", "rename"}

\* A run that is not yet recorded still counts against the bound of its job.
Room == \A j \in Jobs :
            job[j] \in {"fired", "ended"} \cup Working => mem[Daemon][j] < MaxRuns

Held == \A s \in Savers \ {Status} :
            save[s] \in InSave => mutex[Daemon] = s /\ data[s] = mem[Daemon]

StatusQuiet == statuses = 0 => main[Status] = "down" /\ save[Status] = "no"

Temp == statuses = 0 =>
            \A s \in Savers : /\ fd[s] = IF save[s] = "write" THEN "tmp" ELSE "none"
                              /\ save[s] = "write" => tmp = Torn
                              /\ save[s] = "rename" => tmp = data[s]

\* No goroutine outlives its process, and a job saves in one phase only.
NoGhosts ==
    /\ \A j \in Jobs : save[j] # "no" => job[j] = "saving"
    /\ save[Daemon] # "no" => main[Daemon] = "closing"
    /\ main[Daemon] = "down" => \A j \in Jobs : job[j] = "idle"

NotAhead == statuses = 0 =>
    /\ file # Torn
    /\ main[Daemon] # "down" => \A j \in Jobs : RunsOnDisk(file, j) <= mem[Daemon][j]

OnDisk == statuses = 0 /\ main[Daemon] # "down" /\ ~unsaved =>
    \A j \in Jobs : save[j] = "no" => RunsOnDisk(file, j) = mem[Daemon][j]

IInv == /\ TypeOK /\ Room /\ Held /\ StatusQuiet /\ Temp /\ NoGhosts
        /\ NotAhead /\ OnDisk /\ StopInterruptsNoRun

LEMMA Names ==
    /\ Status \in Savers /\ Daemon \in Savers /\ Daemon # Status /\ "free" \notin Savers
    /\ Status \in Processes /\ Daemon \in Processes
    /\ \A j \in Jobs : j \in Savers /\ j # Status /\ j # Daemon /\ ProcessOf(j) = Daemon
    /\ \A s \in Savers : s \in Jobs \/ s = Daemon \/ s = Status
    /\ ProcessOf(Daemon) = Daemon /\ ProcessOf(Status) = Status
    /\ \A s \in Savers : ProcessOf(s) \in Processes
    /\ \A s \in Savers \ {Status} : ProcessOf(s) = Daemon
BY SchedulerAssumption DEF Savers, Processes, ProcessOf, Daemon, Status

LEMMA HistoryFacts ==
    /\ NoHistory \in History
    /\ Torn # Absent
    /\ \A h \in History : h # Torn /\ h # Absent
    /\ \A h \in History, j \in Jobs : h[j] \in 0..MaxRuns /\ RunsOnDisk(h, j) = h[j]
    /\ \A j \in Jobs : RunsOnDisk(Absent, j) = 0 /\ NoHistory[j] = 0
    /\ MaxRuns \in Nat
BY SchedulerAssumption, FileAssumption DEF NoHistory, History, RunsOnDisk

LEMMA InitIInv == Init => IInv
<1> SUFFICES ASSUME Init PROVE IInv
    OBVIOUS
<1> USE Names, HistoryFacts DEF Init
<1>1. TypeOK
  <2>1. cancelled \in BOOLEAN /\ unsaved \in BOOLEAN
    OBVIOUS
  <2>2. faults \in 0..MaxFaults /\ statuses \in 0..MaxStatus
    BY SchedulerAssumption
  <2>3. /\ main \in [Processes -> MainPhases] /\ mutex \in [Processes -> Savers \cup {"free"}]
        /\ mem \in [Processes -> History]
    BY DEF MainPhases
  <2>4. /\ job \in [Jobs -> JobPhases] /\ result \in [Jobs -> {"none", "ok", "error", "panic"}]
        /\ todo \in SUBSET Jobs /\ late \in SUBSET Jobs
    BY DEF JobPhases
  <2>5. /\ save \in [Savers -> {"no", "lock", "open", "write", "rename"}]
        /\ data \in [Savers -> History] /\ fd \in [Savers -> {"none", "tmp", "file", "lost"}]
        /\ file \in History \cup {Torn, Absent} /\ tmp \in History \cup {Torn, Absent}
    OBVIOUS
  <2> QED
    BY <2>1, <2>2, <2>3, <2>4, <2>5 DEF TypeOK
<1>2. Room /\ Held /\ StatusQuiet /\ Temp /\ NoGhosts
  BY DEF Room, Held, StatusQuiet, Temp, NoGhosts, InSave, Working
<1>3. NotAhead /\ OnDisk /\ StopInterruptsNoRun
  BY DEF NotAhead, OnDisk, StopInterruptsNoRun
<1> QED
  BY <1>1, <1>2, <1>3 DEF IInv

----------------------------------------------------------------------------
\* A job moves to another phase, and neither the history nor a save is touched.
LEMMA JobMoves ==
    ASSUME IInv, NEW j \in Jobs, NEW x \in JobPhases,
           job' = [job EXCEPT ![j] = x],
           UNCHANGED <<main, mem, fileVars, faults, statuses>>,
           todo' \in SUBSET Jobs, late' \in SUBSET Jobs, cancelled' = cancelled,
           result' \in [Jobs -> {"none", "ok", "error", "panic"}],
           main[Daemon] # "down", save[j] = "no",
           x \in {"fired", "ended"} \cup Working => mem[Daemon][j] < MaxRuns,
           late \subseteq late',
           x \in Counted /\ main[Daemon] \in {"closing", "closed"} => j \in late'
    PROVE  IInv'
<1> USE DEF IInv
<1>1. TypeOK'
  BY DEF TypeOK, fileVars
<1>2. Room' /\ NoGhosts'
  BY DEF TypeOK, Room, NoGhosts, fileVars
<1>3. Held' /\ StatusQuiet' /\ Temp'
  BY DEF Held, StatusQuiet, Temp, fileVars
<1>4. NotAhead' /\ OnDisk'
  BY DEF NotAhead, OnDisk, RunsOnDisk, fileVars
<1>5. StopInterruptsNoRun'
  BY DEF TypeOK, StopInterruptsNoRun
<1> QED
  BY <1>1, <1>2, <1>3, <1>4, <1>5

\* The steps of a run before it is recorded and after it is saved.
LEMMA RunSteps ==
    ASSUME IInv, NEW j \in Jobs,
           \/ Fire(j) \/ OnceNext(j) \/ EnterRun(j) \/ BackupMade(j) \/ RunFails(j)
           \/ RetentionEnds(j) \/ RunPanics(j) \/ RunSaved(j) \/ RunOver(j)
    PROVE  IInv'
<1> USE DEF IInv
<1>1. main[Daemon] # "down"
  BY DEF NoGhosts, Fire, OnceNext, EnterRun, BackupMade, RunFails, RetentionEnds, RunPanics,
         RunSaved, RunOver, Working
<1>2. job[j] # "saving" => save[j] = "no"
  BY DEF NoGhosts
<1> USE <1>1, <1>2, JobMoves
<1>3. CASE Fire(j)
  BY <1>3 DEF Fire, TypeOK, JobPhases, Counted, Working
<1>4. CASE OnceNext(j)
  BY <1>4 DEF OnceNext, TypeOK, JobPhases, Counted, Working
<1>5. CASE EnterRun(j)
  <2>1. PICK c \in {"backup", "retention"} : job' = [job EXCEPT ![j] = c]
    BY <1>5 DEF EnterRun
  <2>2. mem[Daemon][j] < MaxRuns
    BY <1>5 DEF EnterRun, Room
  <2> QED
    BY <1>5, <2>1, <2>2 DEF EnterRun, TypeOK, JobPhases
<1>6. CASE job[j] \in Working /\ \E r \in {"ok", "error", "panic"} : EndRun(j, r)
  <2>1. mem[Daemon][j] < MaxRuns
    BY <1>6 DEF Room
  <2>2. main[Daemon] \in {"closing", "closed"} => j \in late
    BY <1>6 DEF StopInterruptsNoRun, Counted
  <2>3. PICK r \in {"ok", "error", "panic"} : EndRun(j, r)
    BY <1>6
  <2>4. result' \in [Jobs -> {"none", "ok", "error", "panic"}]
    BY <2>3 DEF EndRun, TypeOK
  <2>5. "ended" \in JobPhases /\ job[j] # "saving"
    BY <1>6 DEF JobPhases, Working
  <2>6. todo' \in SUBSET Jobs /\ late' \in SUBSET Jobs
    BY <2>3 DEF EndRun, TypeOK
  <2> QED
    BY <2>1, <2>2, <2>3, <2>4, <2>5, <2>6 DEF EndRun
<1>7. CASE RunFails(j) \/ RetentionEnds(j) \/ RunPanics(j)
  BY <1>6, <1>7 DEF RunFails, RetentionEnds, RunPanics, Working
<1>8. CASE BackupMade(j)
  <2>1. mem[Daemon][j] < MaxRuns
    BY <1>8 DEF BackupMade, Room, Working
  <2>2. main[Daemon] \in {"closing", "closed"} => j \in late
    BY <1>8 DEF BackupMade, StopInterruptsNoRun, Counted, Working
  <2>3. CASE EndRun(j, "ok")
    BY <1>6, <1>8, <2>3 DEF BackupMade, Working
  <2>4. CASE ~EndRun(j, "ok")
    BY <1>8, <2>1, <2>2, <2>4 DEF BackupMade, TypeOK, JobPhases, Working
  <2> QED
    BY <2>3, <2>4
<1>9. CASE RunSaved(j)
  BY <1>9 DEF RunSaved, TypeOK, JobPhases, Working, StopInterruptsNoRun, Counted
<1>10. CASE RunOver(j)
  BY <1>10 DEF RunOver, TypeOK, JobPhases, Working, Counted
<1> QED
  BY <1>3, <1>4, <1>5, <1>7, <1>8, <1>9, <1>10

----------------------------------------------------------------------------
\* What every step of a save leaves alone.
LEMMA SaveFrame ==
    ASSUME IInv, NEW s \in Savers, SaveStep(s)
    PROVE  /\ UNCHANGED <<main, todo, cancelled, job, result, mem, late, statuses>>
           /\ save[s] # "no"
           /\ s = Status => statuses # 0
           /\ Room' /\ StatusQuiet' /\ StopInterruptsNoRun'
<1>1. /\ UNCHANGED <<main, todo, cancelled, job, result, mem, late, statuses>>
      /\ save[s] # "no"
  BY DEF SaveStep, LockState, OpenTemp, WriteTemp, RenameTemp, SaveFails, Unlock
<1>2. s = Status => statuses # 0
  BY <1>1 DEF IInv, StatusQuiet
<1>3. s # Status => save'[Status] = save[Status]
  BY Names DEF IInv, TypeOK, SaveStep, LockState, OpenTemp, WriteTemp, RenameTemp, SaveFails, Unlock
<1>4. Room' /\ StatusQuiet' /\ StopInterruptsNoRun'
  BY <1>1, <1>2, <1>3 DEF IInv, Room, StatusQuiet, StopInterruptsNoRun
<1> QED
  BY <1>1, <1>2, <1>4

LEMMA SaveTyped ==
    ASSUME IInv, NEW s \in Savers, SaveStep(s)
    PROVE  TypeOK'
<1> USE Names, HistoryFacts, SaveFrame DEF IInv, TypeOK
<1>1. /\ save' \in [Savers -> {"no", "lock", "open", "write", "rename"}]
      /\ mutex' \in [Processes -> Savers \cup {"free"}]
      /\ data' \in [Savers -> History]
  <2>1. CASE LockState(s)
    BY <2>1 DEF LockState
  <2>2. CASE OpenTemp(s) \/ WriteTemp(s)
    BY <2>2 DEF OpenTemp, WriteTemp
  <2>3. CASE Unlock(s)
    <3>1. save' \in [Savers -> {"no", "lock", "open", "write", "rename"}]
      BY <2>3 DEF Unlock
    <3>2. mutex' \in [Processes -> Savers \cup {"free"}]
      BY <2>3 DEF Unlock
    <3>3. data' \in [Savers -> History]
      BY <2>3 DEF Unlock
    <3> QED
      BY <3>1, <3>2, <3>3
  <2> QED
    BY <2>1, <2>2, <2>3 DEF SaveStep, RenameTemp, SaveFails
<1>2. fd' \in [Savers -> {"none", "tmp", "file", "lost"}]
  BY DEF SaveStep, LockState, OpenTemp, WriteTemp, RenameTemp, SaveFails
<1>3. /\ file' \in History \cup {Torn, Absent}
      /\ tmp' \in History \cup {Torn, Absent}
  BY DEF SaveStep, LockState, OpenTemp, WriteTemp, RenameTemp, SaveFails, After
<1>4. faults' \in 0..MaxFaults
  BY SchedulerAssumption DEF SaveStep, LockState, OpenTemp, WriteTemp, RenameTemp, SaveFails, Fault
<1>5. unsaved' \in BOOLEAN
  BY DEF SaveStep, LockState, OpenTemp, WriteTemp, RenameTemp, SaveFails
<1>6. /\ main' \in [Processes -> MainPhases] /\ todo' \in SUBSET Jobs
      /\ job' \in [Jobs -> JobPhases] /\ result' \in [Jobs -> {"none", "ok", "error", "panic"}]
      /\ mem' \in [Processes -> History] /\ late' \in SUBSET Jobs /\ statuses' \in 0..MaxStatus
  OBVIOUS
<1>7. cancelled' \in BOOLEAN
  OBVIOUS
<1> QED
  BY <1>1, <1>2, <1>3, <1>4, <1>5, <1>6, <1>7

\* Each step of a save keeps the invariant: who is inside has the mutex.
LEMMA SaveSteps ==
    ASSUME IInv, NEW s \in Savers, SaveStep(s)
    PROVE  IInv'
<1> USE Names, HistoryFacts DEF IInv, InSave
<1>1. TypeOK' /\ Room' /\ StatusQuiet' /\ StopInterruptsNoRun'
  BY SaveTyped, SaveFrame
<1>2. UNCHANGED <<main, job, mem, statuses>> /\ (s = Status => statuses # 0)
  BY SaveFrame
<1>3. NoGhosts'
  <2>1. \A x \in Savers : save'[x] # "no" => save[x] # "no"
    BY SaveFrame DEF TypeOK, SaveStep, LockState, OpenTemp, WriteTemp, RenameTemp, SaveFails, Unlock
  <2> QED
    BY <1>2, <2>1 DEF NoGhosts
<1>4. CASE LockState(s)
  <2>1. Held'
    BY <1>2, <1>4 DEF LockState, TypeOK, Held
  <2>2. Temp'
    BY <1>2, <1>4 DEF LockState, TypeOK, Temp
  <2>3. NotAhead' /\ OnDisk'
    BY <1>2, <1>4 DEF LockState, TypeOK, NotAhead, OnDisk, RunsOnDisk
  <2> QED
    BY <1>1, <1>3, <2>1, <2>2, <2>3
<1>5. CASE OpenTemp(s)
  <2>1. Held'
    BY <1>2, <1>5 DEF OpenTemp, TypeOK, Held
  <2>2. Temp'
    BY <1>2, <1>5 DEF OpenTemp, TypeOK, Temp, Held, StatusQuiet
  <2>3. NotAhead' /\ OnDisk'
    BY <1>2, <1>5 DEF OpenTemp, TypeOK, NotAhead, OnDisk, RunsOnDisk
  <2> QED
    BY <1>1, <1>3, <2>1, <2>2, <2>3
<1>6. CASE WriteTemp(s)
  <2>1. Held'
    BY <1>2, <1>6 DEF WriteTemp, TypeOK, Held
  <2>2. Temp'
    BY <1>2, <1>6 DEF WriteTemp, TypeOK, Temp, Held, StatusQuiet, After
  <2>3. statuses = 0 => file' = file
    BY <1>6 DEF WriteTemp, Temp
  <2>4. NotAhead' /\ OnDisk'
    BY <1>2, <1>6, <2>3 DEF WriteTemp, TypeOK, NotAhead, OnDisk, RunsOnDisk
  <2> QED
    BY <1>1, <1>3, <2>1, <2>2, <2>4
<1>7. CASE RenameTemp(s)
  <2>1. Held'
    BY <1>2, <1>7 DEF RenameTemp, Unlock, TypeOK, Held
  <2>2. Temp'
    BY <1>2, <1>7 DEF RenameTemp, Unlock, TypeOK, Temp, Held, StatusQuiet
  <2>3. statuses = 0 => file' = mem[Daemon]
    BY <1>2, <1>7 DEF RenameTemp, Temp, Held
  <2>4. mem[Daemon] \in History
    BY DEF TypeOK
  <2>5. NotAhead' /\ OnDisk'
    BY <1>2, <2>3, <2>4 DEF NotAhead, OnDisk, History
  <2> QED
    BY <1>1, <1>3, <2>1, <2>2, <2>5
<1>8. CASE SaveFails(s)
  <2>1. Held'
    BY <1>2, <1>8 DEF SaveFails, Unlock, TypeOK, Held
  <2>2. Temp'
    BY <1>2, <1>8 DEF SaveFails, Unlock, TypeOK, Temp
  <2>3. NotAhead' /\ OnDisk'
    BY <1>2, <1>8 DEF SaveFails, TypeOK, NotAhead, OnDisk, RunsOnDisk
  <2> QED
    BY <1>1, <1>3, <2>1, <2>2, <2>3
<1> QED
  BY <1>4, <1>5, <1>6, <1>7, <1>8 DEF SaveStep

----------------------------------------------------------------------------
\* A run is recorded: the mutex is free, and so nobody has marshalled a history.
LEMMA RecordSteps ==
    ASSUME IInv, NEW j \in Jobs, RecordRun(j)
    PROVE  IInv'
<1> USE Names, HistoryFacts DEF IInv, InSave
<1>1. save[j] = "no" /\ main[Daemon] # "down" /\ mem[Daemon][j] \in 0..(MaxRuns - 1)
  BY DEF RecordRun, NoGhosts, Room, TypeOK
<1>2. \A s \in Savers \ {Status} : save[s] \notin {"open", "write", "rename"}
  BY DEF RecordRun, Held
<1>3. mem' \in [Processes -> History]
  BY <1>1 DEF RecordRun, TypeOK, History
<1>4. /\ mem'[Daemon][j] = mem[Daemon][j] + 1
      /\ \A k \in Jobs \ {j} : mem'[Daemon][k] = mem[Daemon][k]
  BY DEF RecordRun, TypeOK, History
<1>5. save' = [save EXCEPT ![j] = "lock"] /\ job' = [job EXCEPT ![j] = "saving"]
  BY DEF RecordRun, BeginSave
<1>6. TypeOK'
  BY <1>3, <1>5 DEF RecordRun, TypeOK, JobPhases
<1>7. Room' /\ NoGhosts'
  BY <1>1, <1>4, <1>5 DEF RecordRun, TypeOK, Room, NoGhosts, Working
<1>8. Held' /\ StatusQuiet' /\ Temp'
  BY <1>1, <1>2, <1>5 DEF RecordRun, TypeOK, Held, StatusQuiet, Temp
<1>9. NotAhead'
  <2>1. \A k \in Jobs : mem'[Daemon][k] >= mem[Daemon][k] /\ RunsOnDisk(file, k) \in Int
    BY <1>4 DEF TypeOK, RunsOnDisk
  <2>2. \A k \in Jobs : mem'[Daemon][k] \in Int /\ mem[Daemon][k] \in Int
    BY <1>3 DEF TypeOK
  <2> QED
    BY <1>1, <2>1, <2>2 DEF RecordRun, NotAhead, RunsOnDisk
<1>10. OnDisk'
  BY <1>1, <1>4, <1>5 DEF RecordRun, TypeOK, OnDisk, RunsOnDisk
<1>11. StopInterruptsNoRun'
  BY <1>5 DEF RecordRun, TypeOK, StopInterruptsNoRun, Counted
<1> QED
  BY <1>6, <1>7, <1>8, <1>9, <1>10, <1>11

\* The daemon begins to close its state when no run is under way.
LEMMA CloseSteps ==
    ASSUME IInv, StopWaits \/ OnceDone
    PROVE  IInv'
<1> USE Names DEF IInv, InSave
<1>1. /\ main' = [main EXCEPT ![Daemon] = "closing"]
      /\ save' = [save EXCEPT ![Daemon] = "lock"]
      /\ UNCHANGED <<todo, cancelled, job, result, mem, mutex, data, fd, file, tmp, unsaved,
                     late, faults, statuses>>
  BY DEF StopWaits, OnceDone, CloseState, BeginSave
<1>2. main[Daemon] \in {"stopping", "once"} /\ save[Daemon] = "no"
  BY DEF StopWaits, OnceDone, NoGhosts
<1>3. \A j \in Jobs : job[j] \notin Counted
  BY DEF StopWaits, OnceDone, Counted, Working
<1>4. TypeOK'
  BY <1>1 DEF TypeOK, MainPhases
<1>5. Room' /\ NoGhosts'
  BY <1>1, <1>2 DEF TypeOK, Room, NoGhosts
<1>6. Held' /\ StatusQuiet' /\ Temp'
  BY <1>1, <1>2 DEF TypeOK, Held, StatusQuiet, Temp
<1>7. NotAhead' /\ OnDisk'
  BY <1>1, <1>2 DEF TypeOK, NotAhead, OnDisk, RunsOnDisk
<1>8. StopInterruptsNoRun'
  BY <1>1, <1>3 DEF StopInterruptsNoRun
<1> QED
  BY <1>4, <1>5, <1>6, <1>7, <1>8

\* A daemon that starts has the history of the state file.
LEMMA StartSteps ==
    ASSUME IInv, Start
    PROVE  IInv'
<1> USE Names, HistoryFacts DEF IInv, InSave
<1>1. PICK up \in {"up", "once"} : Load(Daemon, up)
  BY DEF Start
<1>2. /\ main[Daemon] = "down" /\ main' = [main EXCEPT ![Daemon] = up]
      /\ mem' = [mem EXCEPT ![Daemon] = IF file = Absent THEN NoHistory ELSE file]
      /\ file # Torn
  BY <1>1 DEF Load
<1>3. \A s \in Savers \ {Status} : save[s] = "no"
  BY <1>2 DEF NoGhosts
<1>4. mem'[Daemon] \in History /\ \A j \in Jobs : RunsOnDisk(file, j) = mem'[Daemon][j]
  BY <1>2 DEF TypeOK, RunsOnDisk
<1>5. TypeOK'
  <2>1. main' \in [Processes -> MainPhases] /\ mem' \in [Processes -> History]
    BY <1>2 DEF TypeOK, MainPhases
  <2>2. cancelled' \in BOOLEAN /\ unsaved' \in BOOLEAN
    BY DEF Start
  <2>3. todo' \in SUBSET Jobs
    BY DEF Start
  <2> QED
    BY <2>1, <2>2, <2>3 DEF Start, TypeOK
<1>6. Room' /\ NoGhosts'
  BY <1>2, <1>3 DEF Start, TypeOK, Room, NoGhosts, Working
<1>7. Held' /\ StatusQuiet' /\ Temp'
  BY <1>2, <1>3 DEF Start, TypeOK, Held, StatusQuiet, Temp
<1>8. NotAhead' /\ OnDisk'
  <2>1. \A j \in Jobs : mem'[Daemon][j] \in Int
    BY <1>4
  <2> QED
    BY <1>2, <1>4, <2>1 DEF Start, NotAhead, OnDisk, RunsOnDisk
<1>9. StopInterruptsNoRun'
  BY <1>2 DEF TypeOK, StopInterruptsNoRun
<1> QED
  BY <1>5, <1>6, <1>7, <1>8, <1>9

\* A signal, and a process that has saved its state.
LEMMA SignalSteps ==
    ASSUME IInv, Signal \/ \E p \in Processes : Closed(p)
    PROVE  IInv'
<1> USE Names DEF IInv
<1>1. /\ UNCHANGED <<todo, job, result, mem, fileVars, late, faults, statuses>>
      /\ cancelled' \in BOOLEAN
  BY DEF Signal, Closed, TypeOK
<1>2. /\ main' \in [Processes -> MainPhases]
      /\ main[Daemon] # "down" => main'[Daemon] # "down"
      /\ main[Daemon] = "down" => main'[Daemon] = "down"
      /\ main[Status] = "down" => main'[Status] = "down"
      /\ save[Daemon] # "no" => main'[Daemon] = main[Daemon]
      /\ main'[Daemon] \in {"closing", "closed"} => main[Daemon] \in {"closing", "closed"}
  BY DEF Signal, Closed, TypeOK, MainPhases, NoGhosts
<1>3. TypeOK'
  BY <1>1, <1>2 DEF TypeOK, fileVars
<1>4. Room' /\ NoGhosts'
  BY <1>1, <1>2 DEF Room, NoGhosts, fileVars
<1>5. Held' /\ StatusQuiet' /\ Temp'
  BY <1>1, <1>2 DEF Held, StatusQuiet, Temp, fileVars
<1>6. NotAhead' /\ OnDisk'
  BY <1>1, <1>2 DEF NotAhead, OnDisk, RunsOnDisk, fileVars
<1>7. StopInterruptsNoRun'
  BY <1>1, <1>2 DEF StopInterruptsNoRun
<1> QED
  BY <1>3, <1>4, <1>5, <1>6, <1>7

\* A status command: from here on the state file has two writers.
LEMMA StatusSteps ==
    ASSUME IInv, RunStatus
    PROVE  IInv'
<1> USE Names, HistoryFacts DEF IInv, InSave
<1>1. /\ statuses' \in 0..MaxStatus /\ statuses' # 0
  BY SchedulerAssumption DEF RunStatus, TypeOK
<1>2. /\ main' = [main EXCEPT ![Status] = "closing"]
      /\ save' = [save EXCEPT ![Status] = "lock"]
      /\ mem' = [mem EXCEPT ![Status] = IF file = Absent THEN NoHistory ELSE file]
      /\ file # Torn
      /\ UNCHANGED <<todo, cancelled, job, result, mutex, data, fd, file, tmp, unsaved, late, faults>>
  BY DEF RunStatus, Load, BeginSave
<1>3. TypeOK'
  <2>1. main' \in [Processes -> MainPhases] /\ mem' \in [Processes -> History]
    BY <1>2 DEF TypeOK, MainPhases
  <2>2. save' \in [Savers -> {"no", "lock", "open", "write", "rename"}]
    BY <1>2 DEF TypeOK
  <2> QED
    BY <1>1, <1>2, <2>1, <2>2 DEF TypeOK
<1>4. Room' /\ NoGhosts'
  BY <1>2 DEF TypeOK, Room, NoGhosts
<1>5. Held'
  BY <1>2 DEF TypeOK, Held
<1>6. StatusQuiet' /\ Temp' /\ NotAhead' /\ OnDisk'
  BY <1>1 DEF StatusQuiet, Temp, NotAhead, OnDisk
<1>7. StopInterruptsNoRun'
  BY <1>2 DEF TypeOK, StopInterruptsNoRun
<1> QED
  BY <1>3, <1>4, <1>5, <1>6, <1>7

\* A process ends: its goroutines, its memory and its mutex are gone, the files stay.
LEMMA DieSteps ==
    ASSUME IInv, NEW p \in Processes, main[p] # "down", Die(p), faults' \in 0..MaxFaults
    PROVE  IInv'
<1> USE Names, HistoryFacts DEF IInv, InSave
<1> DEFINE mine == {s \in Savers : ProcessOf(s) = p}
<1>1. /\ main' = [main EXCEPT ![p] = "down"] /\ mem' = [mem EXCEPT ![p] = NoHistory]
      /\ mutex' = [mutex EXCEPT ![p] = "free"]
      /\ save' = [s \in Savers |-> IF s \in mine THEN "no" ELSE save[s]]
      /\ data' = [s \in Savers |-> IF s \in mine THEN NoHistory ELSE data[s]]
      /\ fd' = [s \in Savers |-> IF s \in mine THEN "none" ELSE fd[s]]
      /\ UNCHANGED <<file, tmp, statuses>>
  BY DEF Die
<1>2. CASE p = Daemon
  <2>1. /\ job' = [j \in Jobs |-> "idle"] /\ result' = [j \in Jobs |-> "none"]
        /\ todo' = {} /\ late' = {} /\ cancelled' = FALSE /\ unsaved' = FALSE
    BY <1>2 DEF Die
  <2>2. \A s \in Savers \ {Status} : s \in mine
    BY <1>2
  <2>3. Status \notin mine
    BY <1>2
  <2>4. TypeOK'
    <3>1. /\ main' \in [Processes -> MainPhases] /\ mem' \in [Processes -> History]
          /\ mutex' \in [Processes -> Savers \cup {"free"}]
      BY <1>1 DEF TypeOK, MainPhases
    <3>2. /\ save' \in [Savers -> {"no", "lock", "open", "write", "rename"}]
          /\ data' \in [Savers -> History] /\ fd' \in [Savers -> {"none", "tmp", "file", "lost"}]
      BY <1>1 DEF TypeOK
    <3>3. job' \in [Jobs -> JobPhases] /\ result' \in [Jobs -> {"none", "ok", "error", "panic"}]
      BY <2>1 DEF JobPhases
    <3>4. cancelled' \in BOOLEAN /\ unsaved' \in BOOLEAN
      BY <2>1
    <3> QED
      BY <1>1, <2>1, <3>1, <3>2, <3>3, <3>4 DEF TypeOK
  <2>5. Room' /\ NoGhosts'
    BY <1>1, <2>1, <2>2 DEF Room, NoGhosts, Working
  <2>6. Held' /\ StatusQuiet' /\ Temp'
    BY <1>1, <1>2, <2>2, <2>3 DEF TypeOK, Held, StatusQuiet, Temp
  <2>7. main'[Daemon] = "down"
    BY <1>1, <1>2 DEF TypeOK
  <2>8. NotAhead' /\ OnDisk' /\ StopInterruptsNoRun'
    BY <1>1, <2>7 DEF NotAhead, OnDisk, StopInterruptsNoRun
  <2> QED
    BY <2>4, <2>5, <2>6, <2>8
<1>3. CASE p = Status
  <2>1. UNCHANGED <<job, result, todo, cancelled, unsaved, late>>
    BY <1>3 DEF Die
  <2>2. statuses # 0
    BY <1>3 DEF StatusQuiet
  <2>3. TypeOK'
    <3>1. /\ main' \in [Processes -> MainPhases] /\ mem' \in [Processes -> History]
          /\ mutex' \in [Processes -> Savers \cup {"free"}]
      BY <1>1 DEF TypeOK, MainPhases
    <3>2. /\ save' \in [Savers -> {"no", "lock", "open", "write", "rename"}]
          /\ data' \in [Savers -> History] /\ fd' \in [Savers -> {"none", "tmp", "file", "lost"}]
      BY <1>1 DEF TypeOK
    <3> QED
      BY <1>1, <2>1, <3>1, <3>2 DEF TypeOK
  <2>4. /\ main'[Daemon] = main[Daemon] /\ mem'[Daemon] = mem[Daemon]
        /\ mutex'[Daemon] = mutex[Daemon]
        /\ \A s \in Savers \ {Status} : save'[s] = save[s] /\ data'[s] = data[s]
    BY <1>1, <1>3 DEF TypeOK
  <2>5. Room' /\ NoGhosts' /\ Held' /\ StopInterruptsNoRun'
    BY <2>1, <2>4 DEF Room, NoGhosts, Held, StopInterruptsNoRun
  <2>6. StatusQuiet' /\ Temp' /\ NotAhead' /\ OnDisk'
    BY <1>1, <2>2 DEF StatusQuiet, Temp, NotAhead, OnDisk
  <2> QED
    BY <2>3, <2>5, <2>6
<1> QED
  BY <1>2, <1>3 DEF Processes

LEMMA NextIInv == IInv /\ [Next]_vars => IInv'
<1> SUFFICES ASSUME IInv, [Next]_vars PROVE IInv'
  OBVIOUS
<1>1. CASE Start \/ Signal \/ RunStatus
  BY <1>1, StartSteps, SignalSteps, StatusSteps
<1>2. ASSUME NEW j \in Jobs, Fire(j) \/ OnceNext(j) \/ JobStep(j) \/ RunOver(j) PROVE IInv'
  BY <1>2, Names, RunSteps, RecordSteps, SaveSteps DEF JobStep
<1>3. ASSUME NEW p \in Processes, MainStep(p) PROVE IInv'
  <2>1. CASE SaveStep(p)
    BY <2>1, Names, SaveSteps DEF Processes
  <2>2. CASE Closed(p) \/ StopWaits \/ OnceDone
    BY <2>2, SignalSteps, CloseSteps
  <2>3. CASE Exit(p)
    BY <2>3, DieSteps DEF Exit, IInv, TypeOK
  <2> QED
    BY <1>3, <2>1, <2>2, <2>3 DEF MainStep
<1>4. ASSUME NEW p \in Processes, Crash(p) PROVE IInv'
  <2>1. faults' \in 0..MaxFaults
    BY <1>4, SchedulerAssumption DEF Crash, Fault, IInv, TypeOK
  <2> QED
    BY <1>4, <2>1, DieSteps DEF Crash
<1>5. CASE UNCHANGED vars
  <2> USE <1>5 DEF vars, fileVars, IInv
  <2>1. TypeOK' /\ Room' /\ Held' /\ StatusQuiet'
    BY DEF TypeOK, Room, Held, StatusQuiet
  <2>2. Temp' /\ NoGhosts' /\ StopInterruptsNoRun'
    BY DEF Temp, NoGhosts, StopInterruptsNoRun
  <2>3. NotAhead' /\ OnDisk'
    BY DEF NotAhead, OnDisk, RunsOnDisk
  <2> QED
    BY <2>1, <2>2, <2>3
<1> QED
  BY <1>1, <1>2, <1>3, <1>4, <1>5 DEF Next

LEMMA SpecIInv == Spec => []IInv
BY InitIInv, NextIInv, PTL DEF Spec

----------------------------------------------------------------------------
\* The daemon, its jobs and the status command keep all their variables in range.
THEOREM SchedulerTypeCorrect == Spec => []TypeOK
<1>1. IInv => TypeOK
  BY DEF IInv
<1> QED
  BY <1>1, SpecIInv, PTL

\* Scheduler.stop: when the daemon closes its state, every run that had begun is over.
THEOREM StopWaitsForRuns == Spec => []StopInterruptsNoRun
<1>1. IInv => StopInterruptsNoRun
  BY DEF IInv
<1> QED
  BY <1>1, SpecIInv, PTL

\* State.Save: a run whose save is over is in the state file, unless a save has failed.
THEOREM RunsReachTheDisk == Spec => []RunsAreOnDisk
<1>1. IInv => RunsAreOnDisk
  BY DEF IInv, OnDisk, NoGhosts, RunsAreOnDisk
<1> QED
  BY <1>1, SpecIInv, PTL

\* Only a rename changes the state file of a daemon that is alone.
LEMMA OnlyRenamesWrite ==
    ASSUME IInv, [Next]_vars, statuses = 0, file' # file
    PROVE  \E s \in Savers \ {Status} : RenameTemp(s)
<1> USE Names DEF IInv
<1>1. PICK s \in Savers : SaveStep(s)
  BY DEF Next, JobStep, MainStep, Processes, vars, fileVars, Start, Signal, RunStatus, Load, Fire,
         OnceNext, EnterRun, BackupMade, RunFails, RetentionEnds, RunPanics, EndRun, RecordRun,
         RunSaved, RunOver, Closed, StopWaits, OnceDone, Exit, Crash, Die
<1>2. s # Status
  BY <1>1, SaveFrame
<1>3. ~WriteTemp(s)
  BY DEF WriteTemp, Temp
<1> QED
  BY <1>1, <1>2, <1>3 DEF SaveStep, LockState, OpenTemp, SaveFails

\* State.Save: jobs that save at the same time, saves that fail and crashes never put
\* an older or a torn history in the place of the state file.
THEOREM HistoryIsKept == Spec => HistoryNeverShrinks
<1>1. IInv /\ [Next]_vars =>
        [statuses = 0 => /\ file' # Torn
                         /\ \A j \in Jobs : RunsOnDisk(file', j) >= RunsOnDisk(file, j)]_file
  <2> SUFFICES ASSUME IInv, [Next]_vars, statuses = 0, file' # file
               PROVE  /\ file' # Torn
                      /\ \A j \in Jobs : RunsOnDisk(file', j) >= RunsOnDisk(file, j)
    OBVIOUS
  <2>1. PICK s \in Savers \ {Status} : RenameTemp(s)
    BY OnlyRenamesWrite
  <2>2. file' = mem[Daemon] /\ mem[Daemon] \in History
    BY <2>1, Names DEF IInv, RenameTemp, Temp, Held, InSave, TypeOK
  <2>3. main[Daemon] # "down"
    BY <2>1, Names DEF IInv, RenameTemp, NoGhosts
  <2>4. \A j \in Jobs : RunsOnDisk(file, j) <= mem[Daemon][j] /\ RunsOnDisk(file, j) \in Int
    BY <2>3, HistoryFacts DEF IInv, NotAhead, TypeOK
  <2> QED
    BY <2>2, <2>4, HistoryFacts
<1> QED
  BY <1>1, SpecIInv, PTL DEF Spec, HistoryNeverShrinks

----------------------------------------------------------------------------
(***************************************************************************)
(* The stop of a daemon that status commands have disturbed.  Once it       *)
(* closes its state and no status command runs, only its own goroutines     *)
(* write the files, one at a time (Settled); State.Close is the first or a  *)
(* later one of them, and writes all that is remembered.                   *)
(***************************************************************************)
Quiet == main[Status] = "down" => save[Status] = "no"

Settled ==
    Closing /\ ~met =>
        /\ main[Status] = "down"
        /\ \A s \in Savers \ {Status} :
              /\ save[s] = "write" => fd[s] = "tmp" /\ tmp = Torn
              /\ save[s] = "rename" => tmp = data[s]
        /\ ~unsaved /\ save[Daemon] = "no" =>
              \A j \in Jobs : save[j] = "no" => RunsOnDisk(file, j) = mem[Daemon][j]

\* A status command saves only while it runs.
LEMMA QuietStep ==
    ASSUME IInv, Quiet, [Next]_vars
    PROVE  Quiet'
<1> USE Names DEF IInv, TypeOK, Quiet
<1>1. CASE UNCHANGED vars
  BY <1>1 DEF vars, fileVars
<1>2. CASE Start
  BY <1>2 DEF Start, Load
<1>3. CASE Signal
  BY <1>3 DEF Signal, fileVars
<1>4. CASE RunStatus
  BY <1>4 DEF RunStatus, Load
<1>5. ASSUME NEW s \in Savers, SaveStep(s) PROVE Quiet'
  <2>1. s = Status => main[Status] # "down"
    BY <1>5, SaveFrame
  <2>2. UNCHANGED main
    BY <1>5, SaveFrame
  <2>3. s # Status => save'[Status] = save[Status]
    BY <1>5 DEF SaveStep, LockState, OpenTemp, WriteTemp, RenameTemp, SaveFails, Unlock
  <2> QED
    BY <2>1, <2>2, <2>3
<1>6. ASSUME NEW j \in Jobs, Fire(j) \/ OnceNext(j) \/ JobStep(j) \/ RunOver(j) PROVE Quiet'
  <2>1. CASE RecordRun(j)
    BY <2>1 DEF RecordRun, BeginSave
  <2>2. CASE UNCHANGED <<main, save>>
    BY <2>2
  <2> QED
    BY <1>5, <1>6, <2>1, <2>2
       DEF JobStep, Fire, OnceNext, EnterRun, BackupMade, RunFails, RetentionEnds, RunPanics, EndRun,
           RunSaved, RunOver, fileVars
<1>7. ASSUME NEW p \in Processes, MainStep(p) \/ Crash(p) PROVE Quiet'
  <2>1. CASE StopWaits \/ OnceDone
    BY <2>1 DEF StopWaits, OnceDone, CloseState, BeginSave
  <2>2. CASE Closed(p)
    BY <2>2 DEF Closed, fileVars
  <2>3. CASE Die(p)
    BY <2>3 DEF Die, Processes
  <2>4. p \in Savers
    BY DEF Processes
  <2> QED
    BY <1>5, <1>7, <2>1, <2>2, <2>3, <2>4 DEF MainStep, Exit, Crash
<1> QED
  BY <1>1, <1>2, <1>3, <1>4, <1>5, <1>6, <1>7 DEF Next

\* When the daemon begins to close its state it has only that save to make.
LEMMA ClosingBegins ==
    ASSUME IInv, [Next]_vars, ~Closing, Closing'
    PROVE  /\ save'[Daemon] = "lock"
           /\ \A j \in Jobs : save'[j] = "no"
<1> USE Names DEF IInv, TypeOK
<1>1. UNCHANGED main => FALSE
  BY DEF Closing
<1>2. StopWaits \/ OnceDone
  <2>1. \A s \in Savers : ~SaveStep(s)
    BY <1>1, SaveFrame
  <2>2. \A p \in Processes : ~Closed(p) /\ ~Die(p)
    BY DEF Closing, Closed, Die, Processes
  <2>3. ~Start /\ ~Signal /\ ~RunStatus
    BY DEF Start, Signal, RunStatus, Load, Closing
  <2>4. \A j \in Jobs : ~(Fire(j) \/ OnceNext(j) \/ JobStep(j) \/ RunOver(j))
    BY <1>1, <2>1
       DEF JobStep, Fire, OnceNext, EnterRun, BackupMade, RunFails, RetentionEnds, RunPanics, EndRun,
           RecordRun, RunSaved, RunOver
  <2>5. \A p \in Processes : p \in Savers
    BY DEF Processes
  <2> QED
    BY <1>1, <2>1, <2>2, <2>3, <2>4, <2>5 DEF Next, MainStep, Exit, Crash, vars
<1>3. \A j \in Jobs : save[j] = "no"
  BY <1>2 DEF StopWaits, OnceDone, NoGhosts, Counted
<1> QED
  BY <1>2, <1>3 DEF StopWaits, OnceDone, CloseState, BeginSave

\* A save of the daemon goes on undisturbed.
LEMMA SettledSave ==
    ASSUME IInv, Settled, Closing, ~met, NEW s \in Savers \ {Status}, SaveStep(s),
           met' = FALSE
    PROVE  Settled'
<1> USE Names, HistoryFacts DEF IInv, TypeOK, Held, InSave, Settled
<1>1. UNCHANGED <<main, mem, job>> /\ Closing'
  BY SaveFrame DEF Closing
<1>2. mem[Daemon] \in History
  OBVIOUS
<1>3. CASE LockState(s)
  BY <1>1, <1>3 DEF LockState, RunsOnDisk
<1>4. CASE OpenTemp(s)
  BY <1>1, <1>4 DEF OpenTemp, RunsOnDisk
<1>5. CASE WriteTemp(s)
  <2>1. tmp' = data[s] /\ file' = file
    BY <1>5 DEF WriteTemp, After
  <2> QED
    BY <1>1, <1>5, <2>1 DEF WriteTemp, RunsOnDisk
<1>6. CASE RenameTemp(s)
  <2>1. file' = mem[Daemon] /\ data[s] = mem[Daemon]
    BY <1>6 DEF RenameTemp
  <2>2. \A j \in Jobs : RunsOnDisk(file', j) = mem[Daemon][j]
    BY <1>2, <2>1
  <2>3. \A x \in Savers \ {Status} : save'[x] \notin {"write", "rename"}
    BY <1>6 DEF RenameTemp, Unlock
  <2> QED
    BY <1>1, <2>2, <2>3
<1>7. CASE SaveFails(s)
  <2>1. unsaved' = TRUE
    BY <1>7 DEF SaveFails
  <2>2. \A x \in Savers \ {Status} : save'[x] \notin {"write", "rename"}
    BY <1>7 DEF SaveFails, Unlock
  <2> QED
    BY <1>1, <2>1, <2>2
<1> QED
  BY <1>3, <1>4, <1>5, <1>6, <1>7 DEF SaveStep

LEMMA SettledStep ==
    ASSUME IInv, Quiet, Settled, [WatchedNext]_WatchedVars
    PROVE  Settled'
<1> USE Names DEF IInv, TypeOK
<1> SUFFICES ASSUME Closing', ~met' PROVE Settled'
  BY DEF Settled
<1>0. CASE UNCHANGED WatchedVars
  BY <1>0 DEF WatchedVars, vars, fileVars, Settled, Closing, RunsOnDisk
<1>1. CASE ~Closing /\ WatchedNext
  <2>1. main'[Status] = "down"
    BY <1>1 DEF WatchedNext
  <2>2. save'[Daemon] = "lock" /\ \A j \in Jobs : save'[j] = "no"
    BY <1>1, ClosingBegins DEF WatchedNext
  <2> QED
    BY <2>1, <2>2 DEF Settled
<1>2. CASE Closing /\ WatchedNext
  <2>1. ~met /\ met' = FALSE /\ main[Status] = "down" /\ main'[Status] = "down" /\ Next
    BY <1>2 DEF WatchedNext
  <2>2. CASE UNCHANGED <<mem, save, data, fd, file, tmp, unsaved>>
    BY <1>2, <2>1, <2>2 DEF Settled, RunsOnDisk
  <2>3. ASSUME NEW s \in Savers, SaveStep(s) PROVE Settled'
    <3>1. s # Status
      BY <2>1, <2>3, SaveFrame DEF Quiet
    <3> QED
      BY <1>2, <2>1, <2>3, <3>1, SettledSave
  <2>4. ASSUME NEW j \in Jobs, RecordRun(j) PROVE Settled'
    <3>1. save[j] = "no" /\ save' = [save EXCEPT ![j] = "lock"]
      BY <2>4 DEF RecordRun, BeginSave, NoGhosts
    <3>2. \A k \in Jobs \ {j} : mem'[Daemon][k] = mem[Daemon][k]
      BY <2>4 DEF RecordRun, History
    <3>3. UNCHANGED <<data, fd, file, tmp, unsaved>>
      BY <2>4 DEF RecordRun
    <3> QED
      BY <1>2, <2>1, <3>1, <3>2, <3>3 DEF Settled, RunsOnDisk
  <2>5. ~Start /\ ~StopWaits /\ ~OnceDone
    BY <1>2 DEF Start, Load, StopWaits, OnceDone, Closing
  <2>6. ~RunStatus
    BY <2>1 DEF RunStatus, Load
  <2>7. \A p \in Processes : ~Exit(p) /\ ~Crash(p)
    BY <1>2, <2>1 DEF Exit, Crash, Die, Closing, Processes
  <2>8. CASE Signal
    BY <2>2, <2>8 DEF Signal, fileVars
  <2>9. ASSUME NEW j \in Jobs, Fire(j) \/ OnceNext(j) \/ JobStep(j) \/ RunOver(j) PROVE Settled'
    BY <2>2, <2>3, <2>4, <2>9
       DEF JobStep, Fire, OnceNext, EnterRun, BackupMade, RunFails, RetentionEnds, RunPanics, EndRun,
           RunSaved, RunOver, fileVars
  <2>10. ASSUME NEW p \in Processes, MainStep(p) PROVE Settled'
    <3>1. p \in Savers
      BY DEF Processes
    <3> QED
      BY <2>2, <2>3, <2>5, <2>7, <2>10, <3>1 DEF MainStep, Closed, fileVars
  <2> QED
    BY <2>1, <2>5, <2>6, <2>7, <2>8, <2>9, <2>10 DEF Next
<1> QED
  BY <1>0, <1>1, <1>2 DEF WatchedNext

\* State.Close: whatever status commands have put on disk while the daemon ran, a
\* daemon that has stopped, with no save failed and none of them around since it
\* began to close, leaves all it remembers on disk.
THEOREM StopSavesHistory == WatchedSpec => []StopRestoresHistory
<1>1. WatchedInit => IInv /\ Quiet /\ Settled
  BY InitIInv DEF WatchedInit, Init, Quiet, Settled, Closing, Savers, Processes
<1>2. IInv /\ Quiet /\ Settled /\ [WatchedNext]_WatchedVars => (IInv /\ Quiet /\ Settled)'
  <2>1. [WatchedNext]_WatchedVars => [Next]_vars
    BY DEF WatchedNext, WatchedVars
  <2> QED
    BY <2>1, NextIInv, QuietStep, SettledStep
<1>3. IInv /\ Settled => StopRestoresHistory
  BY DEF IInv, Settled, StopRestoresHistory, NoGhosts, Closing
<1> QED
  BY <1>1, <1>2, <1>3, PTL DEF WatchedSpec
============================================================================
