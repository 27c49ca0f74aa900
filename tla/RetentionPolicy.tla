-------------------------- MODULE RetentionPolicy --------------------------
(***************************************************************************)
(* The pure part of internal/retention: which ready backups a policy       *)
(* configuration keeps and which it removes.                               *)
(*                                                                         *)
(* A backup is a record with at least a field "created" (an instant).  The *)
(* backups are a set: the code works on slices it sorts by creation time   *)
(* with sort.Slice, which promises no order for equal times, so where the  *)
(* code takes a prefix of a sorted slice the model takes any of the sets   *)
(* that may be that prefix.                                                *)
(***************************************************************************)
EXTENDS Integers, FiniteSets

CONSTANT PeriodOf   \* PeriodOf.day[t], .week[t], .month[t]: the group of time t

(***************************************************************************)
(* retention.Config.  DryRun and Force steer the operation, not the policy. *)
(***************************************************************************)
Config == [maxCount: Nat, maxAge: Nat,
           keepDaily: Nat, keepWeekly: Nat, keepMonthly: Nat,
           dryRun: BOOLEAN, force: BOOLEAN]

\* Config.IsEmpty, and the last check of Config.Validate: no policy enabled.
IsEmpty(cfg) ==
    /\ cfg.maxCount = 0
    /\ cfg.maxAge = 0
    /\ cfg.keepDaily = 0
    /\ cfg.keepWeekly = 0
    /\ cfg.keepMonthly = 0

\* A wrong Newest: the slice sorted in ascending order.
NewestAscending(n, S) ==
    IF Cardinality(S) <= n
    THEN {S}
    ELSE {K \in SUBSET S : /\ Cardinality(K) = n
                           /\ \A k \in K, e \in S \ K : k.created <= e.created}

(***************************************************************************)
(* sorted[:n] after sort.Slice(..., CreatedAt.After): n of the newest      *)
(* members of S, all of S when it has no more than n.                      *)
(***************************************************************************)
Newest(n, S) ==
    IF Cardinality(S) <= n
    THEN {S}
    ELSE {K \in SUBSET S : /\ Cardinality(K) = n
                           /\ \A k \in K, e \in S \ K : k.created >= e.created}

\* A wrong applyMaxCountPolicy: the prefix is one too short.
MaxCountKeepsOneLess(S, cfg) ==
    IF cfg.maxCount > 0 THEN Newest(cfg.maxCount - 1, S) ELSE {{}}

\* applyMaxCountPolicy, called only when MaxCount > 0.
MaxCountKeeps(S, cfg) == IF cfg.maxCount > 0 THEN Newest(cfg.maxCount, S) ELSE {{}}

\* A wrong cutoff: backups are kept from the cutoff backwards.
MaxAgeKeepsOld(S, cfg, now) ==
    IF cfg.maxAge > 0 THEN {e \in S : e.created <= now - cfg.maxAge} ELSE {}

\* applyMaxAgePolicy, called only when MaxAge > 0: CreatedAt.After(cutoff).
MaxAgeKeeps(S, cfg, now) ==
    IF cfg.maxAge > 0 THEN {e \in S : e.created > now - cfg.maxAge} ELSE {}

(***************************************************************************)
(* The first half of selectPeriodBackups: one newest backup of each group. *)
(***************************************************************************)
GroupNewest(S, period) ==
    {G \in SUBSET S :
        /\ \A e \in S : \E g \in G : /\ period[g.created] = period[e.created]
                                     /\ g.created >= e.created
        /\ \A g, h \in G : period[g.created] = period[h.created] => g = h}

\* A wrong selectPeriodBackups: a slice [1:n+1] of the groups instead of [:n].
PeriodKeepsOffByOne(S, period, n) ==
    IF n > 0
    THEN UNION {UNION {{K \ N : N \in Newest(1, K)} : K \in Newest(n + 1, G)} :
                    G \in GroupNewest(S, period)}
    ELSE {{}}

\* selectPeriodBackups: of those, the newest n.  Called only when n > 0.
PeriodKeeps(S, period, n) ==
    IF n > 0 THEN UNION {Newest(n, G) : G \in GroupNewest(S, period)} ELSE {{}}

(***************************************************************************)
(* applyRetentionPolicies with applyPeriodicPolicies: every enabled policy *)
(* is applied to all ready backups and what any of them keeps is kept.     *)
(* The set of possible results; a singleton unless creation times tie.     *)
(***************************************************************************)
ToRemove(S, cfg, now) ==
    {S \ (count \cup MaxAgeKeeps(S, cfg, now) \cup daily \cup weekly \cup monthly) :
        count   \in MaxCountKeeps(S, cfg),
        daily   \in PeriodKeeps(S, PeriodOf.day, cfg.keepDaily),
        weekly  \in PeriodKeeps(S, PeriodOf.week, cfg.keepWeekly),
        monthly \in PeriodKeeps(S, PeriodOf.month, cfg.keepMonthly)}

(***************************************************************************)
(* A policy that counts backups or periods, whatever their age.            *)
(***************************************************************************)
KeepsNewest(cfg) ==
    cfg.maxCount + cfg.keepDaily + cfg.keepWeekly + cfg.keepMonthly > 0
============================================================================
