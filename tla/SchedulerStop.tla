--------------------------- MODULE SchedulerStop ---------------------------
(***************************************************************************)
(* What a daemon that stops leaves on disk (State.Close, scheduler/state.go) *)
(* although status commands have run: Scheduler with a history variable.   *)
(***************************************************************************)
EXTENDS Scheduler

VARIABLE met  \* a status command has been there while the daemon closed its state

Closing == main[Daemon] \in {"closing", "closed"}

WatchedInit == Init /\ met = FALSE

WatchedNext ==
    /\ Next
    /\ met' = (Closing' /\ (main[Status] # "down" \/ main'[Status] # "down" \/ (Closing /\ met)))

WatchedVars == <<vars, met>>

WatchedSpec == WatchedInit /\ [][WatchedNext]_WatchedVars

FairWatchedSpec == WatchedSpec /\ Fairness

\* A status command saves the history it has read, perhaps older than the one on disk
\* and perhaps mixed up with it.  A daemon that stops in order puts everything right:
\* State.Close saves what it remembers, although it has saved all of it before.
StopRestoresHistory ==
    main[Daemon] = "closed" /\ ~unsaved /\ ~met =>
        \A j \in Jobs : job[j] # "saving" => RunsOnDisk(file, j) = mem[Daemon][j]
============================================================================
