------------------------- MODULE RetentionDecision -------------------------
(***************************************************************************)
(* A retention run's decision, and the decision a later run takes on a     *)
(* registry that has grown meanwhile, compared with a definition of what   *)
(* retention should keep that mentions no sorting and no grouping.         *)
(*                                                                         *)
(* Operation.Run (internal/retention/operation.go) loads the registry,     *)
(* releases the lock, decides, and only then deletes: "backups" is that    *)
(* snapshot, "removed" what the run is about to delete, "later" what a run *)
(* decides at the time when the first one carries its decision out.        *)
(***************************************************************************)
EXTENDS RetentionPolicy

CONSTANTS
    MaxTime,      \* instants are 0..MaxTime
    Tags,         \* what distinguishes backups of one instant
    MaxBackups,   \* the largest registry
    Configs,      \* the configurations considered
    Fresh         \* what may be added to the registry between the decisions

Backup == [created: 0..MaxTime, tag: Tags]

ASSUME DecisionAssumption ==
    /\ MaxTime \in Nat
    /\ Configs \subseteq Config
    /\ \A F \in Fresh : F \subseteq Backup /\ IsFiniteSet(F)

VARIABLES backups, cfg, now, stage, removed, later

vars == <<backups, cfg, now, stage, removed, later>>

Init ==
    /\ backups \in {S \in SUBSET Backup : IsFiniteSet(S) /\ Cardinality(S) <= MaxBackups}
    /\ cfg \in {c \in Configs : ~IsEmpty(c)}
    /\ now \in 0..MaxTime
    /\ \A b \in backups : b.created <= now
    /\ stage = "loaded"
    /\ removed = {}
    /\ later = {}

\* Stage 3 of Operation.Run, on the snapshot.
Decide ==
    /\ stage = "loaded"
    /\ removed' \in ToRemove(backups, cfg, now)
    /\ stage' = "decided"
    /\ UNCHANGED <<backups, cfg, now, later>>

\* The same decision at a later time.  An entry is added when its backup ends and has
\* the time at which it began, so a fresh one may be older than those in the snapshot.
DecideAgain ==
    /\ stage = "decided"
    /\ \E t \in now..MaxTime, fresh \in Fresh :
          /\ \A b \in fresh : b.created <= t
          /\ now' = t
          /\ later' \in ToRemove(backups \cup fresh, cfg, t)
    /\ stage' = "again"
    /\ UNCHANGED <<backups, cfg, removed>>

Next == Decide \/ DecideAgain

Spec == Init /\ [][Next]_vars

----------------------------------------------------------------------------
(***************************************************************************)
(* The reference: a backup is wanted by a count when fewer than that many  *)
(* are newer, and by a period count when nothing newer shares its period   *)
(* and fewer than that many periods hold something newer.                  *)
(***************************************************************************)
Newer(S, b) == {e \in S : e.created > b.created}

NewerPeriods(S, b, period) == {period[e.created] : e \in Newer(S, b)}

WantedByPeriod(S, b, period, n) ==
    /\ \A e \in Newer(S, b) : period[e.created] # period[b.created]
    /\ Cardinality(NewerPeriods(S, b, period)) < n

Wanted(S, b, c, t) ==
    \/ Cardinality(Newer(S, b)) < c.maxCount
    \/ c.maxAge > 0 /\ t - b.created < c.maxAge
    \/ WantedByPeriod(S, b, PeriodOf.day, c.keepDaily)
    \/ WantedByPeriod(S, b, PeriodOf.week, c.keepWeekly)
    \/ WantedByPeriod(S, b, PeriodOf.month, c.keepMonthly)

\* The README of the scheduler: "max_count and max_age prune eligible backups first".
Pruned(S, b, c, t) ==
    \/ c.maxCount > 0 /\ Cardinality(Newer(S, b)) >= c.maxCount
    \/ c.maxAge > 0 /\ t - b.created >= c.maxAge

\* "then keep_daily, keep_weekly, and keep_monthly preserve the specified number of
\* recent backups within each period", taken at its most generous.
PreservedIn(S, b, period, n) ==
    Cardinality({e \in Newer(S, b) : period[e.created] = period[b.created]}) < n

Preserved(S, b, c) ==
    \/ PreservedIn(S, b, PeriodOf.day, c.keepDaily)
    \/ PreservedIn(S, b, PeriodOf.week, c.keepWeekly)
    \/ PreservedIn(S, b, PeriodOf.month, c.keepMonthly)

\* Where creation times tie, the code's sorts may order them either way.
Ties(S) == \E a, b \in S : a # b /\ a.created = b.created

----------------------------------------------------------------------------
\* applyRetentionPolicies does what its comment says, "apply all policies against the
\* original backups slice to create union of kept items": the sorts, prefixes and
\* groups remove a backup exactly when no enabled policy wants it (backups of one
\* instant aside).  The scheduler's README says something else: PruneThenPreserve.
RemovesTheUnwanted ==
    stage = "decided" /\ ~Ties(backups) => removed = {b \in backups : ~Wanted(backups, b, cfg, now)}

\* examples/scheduler/README.md, of several options set at once: a backup that
\* max_count or max_age prunes goes, unless a keep_* option preserves it.  The code
\* keeps it as soon as the other one of max_count and max_age wants it.
PruneThenPreserve ==
    stage = "decided" /\ ~Ties(backups) =>
        \A b \in backups :
            Pruned(backups, b, cfg, now) /\ ~Preserved(backups, b, cfg) => b \in removed

\* Whatever ties are broken and however the policies overlap, a count or a keep-N
\* policy leaves one of the newest backups in place.
NewestIsKept ==
    stage = "decided" /\ KeepsNewest(cfg) /\ backups # {} =>
        \E b \in backups \ removed : Newer(backups, b) = {}

\* A decision taken on a stale snapshot is still right when it is carried out:
\* whatever it removes, a decision taken later, with more backups in the registry,
\* removes too.  Retention loads the registry, releases the lock and deletes
\* afterwards, so it always acts on a snapshot that may be stale.
StaleDecisionIsSound ==
    stage = "again" /\ ~Ties(backups) => removed \subseteq later

\* Retention is idempotent: a second run over the survivors, at the same time,
\* removes nothing (a run after every backup must not eat into what it kept).
SecondRunRemovesNothing ==
    stage = "decided" /\ ~Ties(backups) => {} \in ToRemove(backups \ removed, cfg, now)
============================================================================
