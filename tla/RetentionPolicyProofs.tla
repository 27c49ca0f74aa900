----------------------- MODULE RetentionPolicyProofs -----------------------
(***************************************************************************)
(* What every retention decision leaves, for any finite set of backups,    *)
(* any calendar and any configuration.                                     *)
(***************************************************************************)
EXTENDS RetentionPolicy, FiniteSetTheorems, TLAPS

\* Backups: a finite set of records with a creation time.
Backups(S) == IsFiniteSet(S) /\ \A e \in S : e.created \in Int

\* K leaves nobody behind: each member of S has one in K that is as new.
Covers(K, S) == \A e \in S : \E k \in K : k.created >= e.created

\* A prefix of the sorted backups that is not empty holds one of the newest.
LEMMA NewestCovers ==
    ASSUME NEW S, Backups(S), NEW n \in Nat \ {0}, NEW K \in Newest(n, S)
    PROVE  K \subseteq S /\ Covers(K, S)
<1>1. CASE Cardinality(S) <= n
  BY <1>1 DEF Newest, Covers, Backups
<1>2. CASE ~(Cardinality(S) <= n)
  <2>1. /\ K \in SUBSET S /\ Cardinality(K) = n
        /\ \A k \in K, e \in S \ K : k.created >= e.created
    BY <1>2 DEF Newest
  <2>2. K # {}
    BY <2>1, FS_EmptySet
  <2>3. \A e \in S : e \in K => e.created >= e.created
    BY DEF Backups
  <2> QED
    BY <2>1, <2>2, <2>3 DEF Covers
<1> QED
  BY <1>1, <1>2

\* One newest backup of each period, then the newest of those.
LEMMA PeriodKeepsCovers ==
    ASSUME NEW S, Backups(S), NEW period, NEW n \in Nat \ {0},
           NEW K \in PeriodKeeps(S, period, n)
    PROVE  K \subseteq S /\ Covers(K, S)
<1>1. PICK G \in GroupNewest(S, period) : K \in Newest(n, G)
  BY DEF PeriodKeeps
<1>2. G \subseteq S /\ Covers(G, S)
  BY <1>1 DEF GroupNewest, Covers
<1>3. Backups(G)
  BY <1>2, FS_Subset DEF Backups
<1>4. K \subseteq G /\ Covers(K, G)
  BY <1>1, <1>3, NewestCovers
<1>5. Covers(K, S)
  <2> SUFFICES ASSUME NEW e \in S PROVE \E k \in K : k.created >= e.created
    BY DEF Covers
  <2>1. PICK g \in G : g.created >= e.created
    BY <1>2 DEF Covers
  <2>2. PICK k \in K : k.created >= g.created
    BY <1>4 DEF Covers
  <2>3. e.created \in Int /\ g.created \in Int /\ k.created \in Int
    BY <1>2, <1>4 DEF Backups
  <2> QED
    BY <2>1, <2>2, <2>3
<1> QED
  BY <1>2, <1>4, <1>5

\* applyRetentionPolicies never removes the newest backup as long as a count or a
\* keep-N policy is on: each backup it removes leaves one that is as new.  (A
\* maximum age alone gives no such promise.)
THEOREM RemovalLeavesAsNew ==
    ASSUME NEW S, Backups(S), NEW cfg \in Config, KeepsNewest(cfg), NEW now,
           NEW V \in ToRemove(S, cfg, now), NEW e \in V
    PROVE  \E k \in S \ V : k.created >= e.created
<1>1. PICK count   \in MaxCountKeeps(S, cfg),
           daily   \in PeriodKeeps(S, PeriodOf.day, cfg.keepDaily),
           weekly  \in PeriodKeeps(S, PeriodOf.week, cfg.keepWeekly),
           monthly \in PeriodKeeps(S, PeriodOf.month, cfg.keepMonthly) :
              V = S \ (count \cup MaxAgeKeeps(S, cfg, now) \cup daily \cup weekly \cup monthly)
  BY DEF ToRemove
<1>2. e \in S
  BY <1>1
<1>3. \E K \in {count, daily, weekly, monthly} : K \subseteq S /\ Covers(K, S)
  <2>1. CASE cfg.maxCount > 0
    BY <2>1, <1>1, NewestCovers DEF MaxCountKeeps, Config
  <2>2. CASE cfg.keepDaily > 0
    BY <2>2, <1>1, PeriodKeepsCovers DEF Config
  <2>3. CASE cfg.keepWeekly > 0
    BY <2>3, <1>1, PeriodKeepsCovers DEF Config
  <2>4. CASE cfg.keepMonthly > 0
    BY <2>4, <1>1, PeriodKeepsCovers DEF Config
  <2> QED
    BY <2>1, <2>2, <2>3, <2>4 DEF KeepsNewest, Config
<1>4. PICK K \in {count, daily, weekly, monthly} : K \subseteq S /\ Covers(K, S)
  BY <1>3
<1>5. K \subseteq S \ V
  BY <1>1, <1>4
<1> QED
  BY <1>2, <1>4, <1>5 DEF Covers
============================================================================
