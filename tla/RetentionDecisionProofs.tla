---------------------- MODULE RetentionDecisionProofs ----------------------
(***************************************************************************)
(* Theorems about RetentionDecision, for every calendar, clock bound, size *)
(* of the registry and set of configurations: what retention removes is    *)
(* what no policy wants, its decision may be carried out late, and         *)
(* repeating it changes nothing.                                           *)
(*                                                                         *)
(* The two halves of the argument: what a policy keeps is wanted           *)
(* (PrefixIsWanted, PeriodIsWanted), whatever the ties; without ties, what *)
(* is wanted is kept (WantedIsInPrefix, WantedIsInPeriod).  Wanted only    *)
(* depends on what is newer, so it can only be lost, never won, when       *)
(* backups are added and time passes.                                      *)
(***************************************************************************)
EXTENDS RetentionDecision, RetentionPolicyProofs, WellFoundedInduction

\* What is newer than a backup is a finite set that it does not belong to.
LEMMA NewerFinite ==
    ASSUME NEW S, Backups(S), NEW b \in S
    PROVE  /\ Newer(S, b) \in SUBSET (S \ {b})
           /\ IsFiniteSet(Newer(S, b))
           /\ Cardinality(Newer(S, b)) \in Nat
           /\ Cardinality(Newer(S, b)) < Cardinality(S)
           /\ Cardinality(S) \in Nat
<1>1. Newer(S, b) \in SUBSET (S \ {b})
  BY DEF Newer, Backups
<1>2. IsFiniteSet(S) /\ Cardinality(S) \in Nat
  BY FS_CardinalityType DEF Backups
<1>3. IsFiniteSet(S \ {b}) /\ Cardinality(S \ {b}) = Cardinality(S) - 1
  BY <1>2, FS_RemoveElement
<1>4. IsFiniteSet(Newer(S, b)) /\ Cardinality(Newer(S, b)) <= Cardinality(S \ {b})
  BY <1>1, <1>3, FS_Subset
<1>5. Cardinality(Newer(S, b)) \in Nat
  BY <1>4, FS_CardinalityType
<1> QED
  BY <1>1, <1>2, <1>3, <1>4, <1>5

\* A set of naturals that is not empty has a smallest element.
LEMMA LeastNatural ==
    ASSUME NEW T \in SUBSET Nat, T # {}
    PROVE  \E m \in T : \A k \in T : ~(k < m)
<1> DEFINE R == OpToRel(<, Nat)
<1>1. IsWellFoundedOn(R, Nat)
  BY NatLessThanWellFounded
<1>2. \E m \in T : \A k \in T : <<k, m>> \notin R
  <2> HIDE DEF R
  <2> QED BY <1>1, WFMin
<1>3. \A k, m \in T : k < m => <<k, m>> \in R
  BY DEF OpToRel
<1> QED
  BY <1>2, <1>3

\* Backups that are not empty have a newest: the one with the fewest newer ones.
LEMMA NewestExists ==
    ASSUME NEW S, Backups(S), S # {}
    PROVE  \E m \in S : \A e \in S : m.created >= e.created
<1> DEFINE C(b) == Cardinality(Newer(S, b))
           T == {C(b) : b \in S}
<1>1. T \in SUBSET Nat /\ T # {}
  BY NewerFinite
<1>2. PICK n \in T : \A k \in T : ~(k < n)
  <2> HIDE DEF T
  <2> QED BY <1>1, LeastNatural
<1>3. PICK m \in S : n = C(m)
  BY <1>2
<1>4. ASSUME NEW e \in S, ~(m.created >= e.created)
      PROVE  FALSE
  <2>1. e \in Newer(S, m)
    BY <1>4 DEF Newer, Backups
  <2>2. Newer(S, e) \subseteq Newer(S, m) \ {e}
    BY <1>4 DEF Newer, Backups
  <2>3. IsFiniteSet(Newer(S, m)) /\ C(m) \in Nat /\ C(e) \in Nat
    BY NewerFinite
  <2>4. IsFiniteSet(Newer(S, m) \ {e}) /\ Cardinality(Newer(S, m) \ {e}) = C(m) - 1
    BY <2>1, <2>3, FS_RemoveElement
  <2>5. C(e) <= C(m) - 1
    BY <2>2, <2>4, FS_Subset
  <2>6. C(e) \in T
    OBVIOUS
  <2> QED BY <1>2, <1>3, <2>3, <2>5, <2>6
<1> QED
  BY <1>4

----------------------------------------------------------------------------
\* A prefix of the sorted backups holds only backups with few newer ones: all of those
\* come before them.
LEMMA PrefixIsWanted ==
    ASSUME NEW S, Backups(S), NEW n \in Nat, NEW K \in Newest(n, S), NEW b \in K
    PROVE  b \in S /\ Cardinality(Newer(S, b)) < n
<1>1. CASE Cardinality(S) <= n
  BY <1>1, NewerFinite DEF Newest
<1>2. CASE ~(Cardinality(S) <= n)
  <2>1. /\ K \in SUBSET S /\ Cardinality(K) = n
        /\ \A k \in K, e \in S \ K : k.created >= e.created
    BY <1>2 DEF Newest
  <2>2. Backups(K)
    BY <2>1, FS_Subset DEF Backups
  <2>3. Newer(S, b) = Newer(K, b)
    BY <2>1 DEF Newer, Backups
  <2> QED
    BY <2>1, <2>2, <2>3, NewerFinite
<1> QED
  BY <1>1, <1>2

\* Without ties it holds all of those: a prefix that lacks a backup has only newer ones.
LEMMA WantedIsInPrefix ==
    ASSUME NEW S, Backups(S), ~Ties(S), NEW n \in Nat, NEW K \in Newest(n, S),
           NEW b \in S, Cardinality(Newer(S, b)) < n
    PROVE  b \in K
<1>1. CASE Cardinality(S) <= n
  BY <1>1 DEF Newest
<1>2. CASE ~(Cardinality(S) <= n)
  <2> SUFFICES ASSUME b \notin K PROVE FALSE
    OBVIOUS
  <2>1. /\ K \in SUBSET S /\ Cardinality(K) = n
        /\ \A k \in K, e \in S \ K : k.created >= e.created
    BY <1>2 DEF Newest
  <2>2. K \subseteq Newer(S, b)
    BY <2>1 DEF Newer, Ties, Backups
  <2>3. n <= Cardinality(Newer(S, b))
    BY <2>1, <2>2, NewerFinite, FS_Subset
  <2> QED
    BY <2>3, NewerFinite
<1> QED
  BY <1>1, <1>2

\* The sorted slice has a prefix, however ties are broken.
LEMMA PrefixExists ==
    ASSUME NEW S, Backups(S), NEW n \in Nat
    PROVE  Newest(n, S) # {}
<1>0. IsFiniteSet(S) /\ Cardinality(S) \in Nat
  BY FS_CardinalityType DEF Backups
<1>1. CASE Cardinality(S) <= n
  BY <1>1 DEF Newest
<1>2. CASE ~(Cardinality(S) <= n)
  <2> DEFINE Prefix(K, m) == /\ K \in SUBSET S /\ Cardinality(K) = m
                             /\ \A k \in K, e \in S \ K : k.created >= e.created
             T == {m \in 0..n : ~ \E K : Prefix(K, m)}
  <2>1. T = {}
    <3> SUFFICES ASSUME T # {} PROVE FALSE
      OBVIOUS
    <3>1. PICK m \in T : \A k \in T : ~(k < m)
      <4>1. T \in SUBSET Nat
        OBVIOUS
      <4> HIDE DEF T
      <4> QED BY <4>1, LeastNatural
    <3>2. m # 0
      <4>1. Prefix({}, 0)
        BY FS_EmptySet
      <4> QED BY <4>1
    <3>3. m - 1 \in 0..n /\ m - 1 \notin T
      BY <3>1, <3>2
    <3>4. PICK K : Prefix(K, m - 1)
      BY <3>3
    <3>5. IsFiniteSet(K)
      BY <3>4, <1>0, FS_Subset
    <3>6. Backups(S \ K)
      BY FS_Subset DEF Backups
    <3>7. S \ K # {}
      <4> SUFFICES ASSUME S \ K = {} PROVE FALSE
        OBVIOUS
      <4>1. K = S
        BY <3>4
      <4> QED BY <4>1, <3>4, <3>1, <1>2, <1>0
    <3>8. PICK x \in S \ K : \A e \in S \ K : x.created >= e.created
      BY <3>6, <3>7, NewestExists
    <3>9. Cardinality(K \cup {x}) = m
      <4>1. m \in Nat
        OBVIOUS
      <4>2. Cardinality(K) = m - 1 /\ x \notin K
        BY <3>4, <3>8
      <4> HIDE DEF Prefix, T
      <4>3. Cardinality(K \cup {x}) = (m - 1) + 1
        BY <4>2, <3>5, FS_AddElement
      <4> QED BY <4>1, <4>3
    <3>10. Prefix(K \cup {x}, m)
      BY <3>4, <3>8, <3>9
    <3> QED BY <3>1, <3>10
  <2>2. PICK K : Prefix(K, n)
    BY <2>1
  <2> QED
    BY <1>2, <2>2 DEF Newest
<1> QED
  BY <1>1, <1>2

----------------------------------------------------------------------------
\* The newest backups of the periods are backups.
LEMMA GroupBackups ==
    ASSUME NEW S, Backups(S), NEW period, NEW G \in GroupNewest(S, period)
    PROVE  G \subseteq S /\ Backups(G)
BY FS_Subset DEF GroupNewest, Backups

\* No more periods hold something newer than backups are newer.
LEMMA PeriodsFinite ==
    ASSUME NEW S, Backups(S), NEW b \in S, NEW period
    PROVE  /\ IsFiniteSet(NewerPeriods(S, b, period))
           /\ Cardinality(NewerPeriods(S, b, period)) \in Nat
           /\ Cardinality(NewerPeriods(S, b, period)) <= Cardinality(Newer(S, b))
<1> DEFINE N == Newer(S, b)
           P == NewerPeriods(S, b, period)
           f == [e \in N |-> period[e.created]]
<1>1. IsFiniteSet(N)
  BY NewerFinite
<1>2. f \in Surjection(N, P)
  <2>1. f \in [N -> P] /\ \A p \in P : \E e \in N : f[e] = p
    BY DEF NewerPeriods
  <2> HIDE DEF f, N, P
  <2> QED BY <2>1 DEF Surjection
<1> HIDE DEF f, N, P
<1>3. IsFiniteSet(P) /\ Cardinality(P) <= Cardinality(N)
  BY <1>1, <1>2, FS_Surjection
<1>4. Cardinality(P) \in Nat
  BY <1>3, FS_CardinalityType
<1> QED
  BY <1>3, <1>4 DEF N, P

\* Every period that holds something newer than a kept backup has its newest backup
\* before it in the list of the periods, so few periods do.
LEMMA PeriodIsWanted ==
    ASSUME NEW S, Backups(S), NEW period, NEW n \in Nat,
           NEW K \in PeriodKeeps(S, period, n), NEW b \in K
    PROVE  b \in S /\ WantedByPeriod(S, b, period, n)
<1>1. PICK G \in GroupNewest(S, period) : K \in Newest(n, G)
  BY DEF PeriodKeeps
<1>2. G \subseteq S /\ Backups(G)
  BY <1>1, GroupBackups
<1>3. b \in G /\ Cardinality(Newer(G, b)) < n
  BY <1>1, <1>2, PrefixIsWanted
<1>4. /\ \A e \in S : \E g \in G : /\ period[g.created] = period[e.created]
                                   /\ g.created >= e.created
      /\ \A g, h \in G : period[g.created] = period[h.created] => g = h
  BY <1>1 DEF GroupNewest
<1>5. \A e \in Newer(S, b) : \E g \in Newer(G, b) : period[g.created] = period[e.created]
  BY <1>2, <1>3, <1>4 DEF Newer, Backups
<1>6. \A e \in Newer(S, b) : period[e.created] # period[b.created]
  <2> SUFFICES ASSUME NEW e \in Newer(S, b), period[e.created] = period[b.created]
               PROVE  FALSE
    OBVIOUS
  <2>1. PICK g \in Newer(G, b) : period[g.created] = period[e.created]
    BY <1>5
  <2>2. g \in G /\ g # b
    BY <1>2, <1>3, NewerFinite
  <2> QED BY <1>3, <1>4, <2>1, <2>2
<1>7. Cardinality(NewerPeriods(S, b, period)) <= Cardinality(NewerPeriods(G, b, period))
  <2>1. NewerPeriods(S, b, period) \subseteq NewerPeriods(G, b, period)
    BY <1>5 DEF NewerPeriods
  <2> QED BY <2>1, <1>2, <1>3, PeriodsFinite, FS_Subset
<1>8. Cardinality(NewerPeriods(G, b, period)) <= Cardinality(Newer(G, b))
  BY <1>2, <1>3, PeriodsFinite
<1>9. /\ Cardinality(NewerPeriods(S, b, period)) \in Nat
      /\ Cardinality(NewerPeriods(G, b, period)) \in Nat
      /\ Cardinality(Newer(G, b)) \in Nat
  BY <1>2, <1>3, PeriodsFinite, NewerFinite
<1> QED
  BY <1>2, <1>3, <1>6, <1>7, <1>8, <1>9 DEF WantedByPeriod

\* Without ties, the newest backup of a period stands for it, and different periods
\* have different ones.
LEMMA WantedIsInPeriod ==
    ASSUME NEW S, Backups(S), ~Ties(S), NEW period, NEW n \in Nat,
           NEW K \in PeriodKeeps(S, period, n), NEW b \in S, WantedByPeriod(S, b, period, n)
    PROVE  b \in K
<1>0. n > 0
  BY PeriodsFinite DEF WantedByPeriod
<1>1. PICK G \in GroupNewest(S, period) : K \in Newest(n, G)
  BY <1>0 DEF PeriodKeeps
<1>2. G \subseteq S /\ Backups(G) /\ ~Ties(G)
  BY <1>1, GroupBackups DEF Ties
<1>3. /\ \A e \in S : \E g \in G : /\ period[g.created] = period[e.created]
                                   /\ g.created >= e.created
      /\ \A g, h \in G : period[g.created] = period[h.created] => g = h
  BY <1>1 DEF GroupNewest
<1>4. b \in G
  <2>1. PICK g \in G : period[g.created] = period[b.created] /\ g.created >= b.created
    BY <1>3
  <2>2. ~(g.created > b.created)
    BY <2>1, <1>2 DEF WantedByPeriod, Newer
  <2>3. g = b
    BY <2>1, <2>2, <1>2 DEF Ties, Backups
  <2> QED BY <2>3
<1>5. Cardinality(Newer(G, b)) <= Cardinality(NewerPeriods(S, b, period))
  <2> DEFINE f == [g \in Newer(G, b) |-> period[g.created]]
             P == NewerPeriods(S, b, period)
  <2>1. f \in Injection(Newer(G, b), P)
    <3>1. f \in [Newer(G, b) -> P]
      BY <1>2 DEF NewerPeriods, Newer
    <3>2. \A g, h \in Newer(G, b) : f[g] = f[h] => g = h
      BY <1>3 DEF Newer
    <3> QED BY <3>1, <3>2 DEF Injection, IsInjective
  <2>2. IsFiniteSet(P)
    BY PeriodsFinite
  <2> HIDE DEF f, P
  <2>3. Cardinality(Newer(G, b)) <= Cardinality(P)
    BY <2>1, <2>2, FS_Injection
  <2> QED BY <2>3 DEF P
<1>6. Cardinality(Newer(G, b)) < n
  BY <1>2, <1>4, <1>5, PeriodsFinite, NewerFinite DEF WantedByPeriod
<1> QED
  BY <1>1, <1>2, <1>4, <1>6, WantedIsInPrefix

\* Without ties there is a newest backup of each period, and a prefix of them.
LEMMA PeriodKeepsExists ==
    ASSUME NEW S, Backups(S), ~Ties(S), NEW period, NEW n \in Nat
    PROVE  PeriodKeeps(S, period, n) # {}
<1> DEFINE G == {b \in S : \A e \in S : period[e.created] = period[b.created]
                                            => b.created >= e.created}
<1>1. G \in GroupNewest(S, period)
  <2>1. ASSUME NEW e \in S
        PROVE  \E g \in G : period[g.created] = period[e.created] /\ g.created >= e.created
    <3> DEFINE Q == {x \in S : period[x.created] = period[e.created]}
    <3>1. Backups(Q) /\ e \in Q
      BY FS_Subset DEF Backups
    <3>2. PICK g \in Q : \A x \in Q : g.created >= x.created
      <4> HIDE DEF Q
      <4> QED BY <3>1, NewestExists
    <3>3. g \in G
      BY <3>2
    <3> QED BY <3>1, <3>2, <3>3
  <2>2. \A g, h \in G : period[g.created] = period[h.created] => g = h
    BY DEF Ties, Backups
  <2> QED BY <2>1, <2>2 DEF GroupNewest
<1> HIDE DEF G
<1>2. Newest(n, G) # {}
  BY <1>1, GroupBackups, PrefixExists
<1> QED
  BY <1>1, <1>2 DEF PeriodKeeps

----------------------------------------------------------------------------
\* What a configuration's policies keep is wanted.
LEMMA KeptIsWanted ==
    ASSUME NEW S, Backups(S), NEW c \in Config, NEW t \in Int,
           NEW V \in ToRemove(S, c, t), NEW b \in S \ V
    PROVE  Wanted(S, b, c, t)
<1>1. PICK count   \in MaxCountKeeps(S, c),
           daily   \in PeriodKeeps(S, PeriodOf.day, c.keepDaily),
           weekly  \in PeriodKeeps(S, PeriodOf.week, c.keepWeekly),
           monthly \in PeriodKeeps(S, PeriodOf.month, c.keepMonthly) :
              V = S \ (count \cup MaxAgeKeeps(S, c, t) \cup daily \cup weekly \cup monthly)
  BY DEF ToRemove
<1>2. /\ c.maxCount \in Nat /\ c.maxAge \in Nat
      /\ c.keepDaily \in Nat /\ c.keepWeekly \in Nat /\ c.keepMonthly \in Nat
  BY DEF Config
<1>3. CASE b \in count
  <2>1. count \in Newest(c.maxCount, S)
    BY <1>3 DEF MaxCountKeeps
  <2> QED BY <2>1, <1>2, <1>3, PrefixIsWanted DEF Wanted
<1>4. CASE b \in MaxAgeKeeps(S, c, t)
  <2>1. b.created \in Int
    BY DEF Backups
  <2> QED BY <2>1, <1>2, <1>4 DEF MaxAgeKeeps, Wanted
<1>5. CASE b \in daily
  BY <1>1, <1>2, <1>5, PeriodIsWanted DEF Wanted
<1>6. CASE b \in weekly
  BY <1>1, <1>2, <1>6, PeriodIsWanted DEF Wanted
<1>7. CASE b \in monthly
  BY <1>1, <1>2, <1>7, PeriodIsWanted DEF Wanted
<1> QED
  BY <1>1, <1>3, <1>4, <1>5, <1>6, <1>7

\* Without ties, what is wanted is in the keep set of the policy that wants it.
LEMMA WantedIsKeptBy ==
    ASSUME NEW S, Backups(S), ~Ties(S), NEW c \in Config, NEW t \in Int,
           NEW count   \in MaxCountKeeps(S, c),
           NEW daily   \in PeriodKeeps(S, PeriodOf.day, c.keepDaily),
           NEW weekly  \in PeriodKeeps(S, PeriodOf.week, c.keepWeekly),
           NEW monthly \in PeriodKeeps(S, PeriodOf.month, c.keepMonthly),
           NEW b \in S, Wanted(S, b, c, t)
    PROVE  b \in count \cup MaxAgeKeeps(S, c, t) \cup daily \cup weekly \cup monthly
<1>2. /\ c.maxCount \in Nat /\ c.maxAge \in Nat
      /\ c.keepDaily \in Nat /\ c.keepWeekly \in Nat /\ c.keepMonthly \in Nat
  BY DEF Config
<1>3. CASE Cardinality(Newer(S, b)) < c.maxCount
  <2>1. c.maxCount > 0
    BY <1>2, <1>3, NewerFinite
  <2>2. count \in Newest(c.maxCount, S)
    BY <2>1 DEF MaxCountKeeps
  <2> QED BY <2>2, <1>2, <1>3, WantedIsInPrefix
<1>4. CASE c.maxAge > 0 /\ t - b.created < c.maxAge
  <2>1. b.created \in Int
    BY DEF Backups
  <2> QED BY <2>1, <1>2, <1>4 DEF MaxAgeKeeps
<1>5. CASE WantedByPeriod(S, b, PeriodOf.day, c.keepDaily)
  BY <1>2, <1>5, WantedIsInPeriod
<1>6. CASE WantedByPeriod(S, b, PeriodOf.week, c.keepWeekly)
  BY <1>2, <1>6, WantedIsInPeriod
<1>7. CASE WantedByPeriod(S, b, PeriodOf.month, c.keepMonthly)
  BY <1>2, <1>7, WantedIsInPeriod
<1> QED
  BY <1>3, <1>4, <1>5, <1>6, <1>7 DEF Wanted

\* Both together: a decision without ties removes what is not wanted.
LEMMA RemovesExactly ==
    ASSUME NEW S, Backups(S), ~Ties(S), NEW c \in Config, NEW t \in Int,
           NEW V \in ToRemove(S, c, t)
    PROVE  V = {b \in S : ~Wanted(S, b, c, t)}
<1>1. PICK count   \in MaxCountKeeps(S, c),
           daily   \in PeriodKeeps(S, PeriodOf.day, c.keepDaily),
           weekly  \in PeriodKeeps(S, PeriodOf.week, c.keepWeekly),
           monthly \in PeriodKeeps(S, PeriodOf.month, c.keepMonthly) :
              V = S \ (count \cup MaxAgeKeeps(S, c, t) \cup daily \cup weekly \cup monthly)
  BY DEF ToRemove
<1>2. \A b \in S : Wanted(S, b, c, t) => b \notin V
  BY <1>1, WantedIsKeptBy
<1>3. \A b \in S : b \notin V => Wanted(S, b, c, t)
  BY KeptIsWanted
<1> QED
  BY <1>1, <1>2, <1>3

\* Without ties there is a decision.
LEMMA DecisionExists ==
    ASSUME NEW S, Backups(S), ~Ties(S), NEW c \in Config, NEW t \in Int
    PROVE  ToRemove(S, c, t) # {}
<1>1. /\ c.maxCount \in Nat
      /\ c.keepDaily \in Nat /\ c.keepWeekly \in Nat /\ c.keepMonthly \in Nat
  BY DEF Config
<1>2. MaxCountKeeps(S, c) # {}
  BY <1>1, PrefixExists DEF MaxCountKeeps
<1>3. /\ PeriodKeeps(S, PeriodOf.day, c.keepDaily) # {}
      /\ PeriodKeeps(S, PeriodOf.week, c.keepWeekly) # {}
      /\ PeriodKeeps(S, PeriodOf.month, c.keepMonthly) # {}
  BY <1>1, PeriodKeepsExists
<1>4. PICK count   \in MaxCountKeeps(S, c),
           daily   \in PeriodKeeps(S, PeriodOf.day, c.keepDaily),
           weekly  \in PeriodKeeps(S, PeriodOf.week, c.keepWeekly),
           monthly \in PeriodKeeps(S, PeriodOf.month, c.keepMonthly) : TRUE
  BY <1>2, <1>3
<1>5. S \ (count \cup MaxAgeKeeps(S, c, t) \cup daily \cup weekly \cup monthly)
          \in ToRemove(S, c, t)
  BY DEF ToRemove
<1> QED
  BY <1>5

\* What is wanted among more backups and later is wanted among fewer and earlier: it
\* depends on what is newer, and on age.
LEMMA WantedIsMonotone ==
    ASSUME NEW S, Backups(S), NEW T, Backups(T), S \subseteq T, NEW c \in Config,
           NEW t \in Int, NEW u \in Int, t <= u, NEW b \in S, Wanted(T, b, c, u)
    PROVE  Wanted(S, b, c, t)
<1>1. Newer(S, b) \subseteq Newer(T, b)
  BY DEF Newer
<1>2. /\ b \in T /\ b.created \in Int
      /\ c.maxCount \in Nat /\ c.maxAge \in Nat
      /\ c.keepDaily \in Nat /\ c.keepWeekly \in Nat /\ c.keepMonthly \in Nat
  BY DEF Backups, Config
<1>3. CASE Cardinality(Newer(T, b)) < c.maxCount
  <2>1. Cardinality(Newer(S, b)) <= Cardinality(Newer(T, b))
    BY <1>1, <1>2, NewerFinite, FS_Subset
  <2> QED BY <2>1, <1>2, <1>3, NewerFinite DEF Wanted
<1>4. CASE c.maxAge > 0 /\ u - b.created < c.maxAge
  BY <1>2, <1>4 DEF Wanted
<1>5. ASSUME NEW period, NEW n \in Nat, WantedByPeriod(T, b, period, n)
      PROVE  WantedByPeriod(S, b, period, n)
  <2>1. NewerPeriods(S, b, period) \subseteq NewerPeriods(T, b, period)
    BY <1>1 DEF NewerPeriods
  <2>2. Cardinality(NewerPeriods(S, b, period)) <= Cardinality(NewerPeriods(T, b, period))
    BY <2>1, <1>2, PeriodsFinite, FS_Subset
  <2> QED BY <1>1, <1>2, <1>5, <2>2, PeriodsFinite DEF WantedByPeriod
<1>6. CASE WantedByPeriod(T, b, PeriodOf.day, c.keepDaily)
  BY <1>2, <1>5, <1>6 DEF Wanted
<1>7. CASE WantedByPeriod(T, b, PeriodOf.week, c.keepWeekly)
  BY <1>2, <1>5, <1>7 DEF Wanted
<1>8. CASE WantedByPeriod(T, b, PeriodOf.month, c.keepMonthly)
  BY <1>2, <1>5, <1>8 DEF Wanted
<1> QED
  BY <1>3, <1>4, <1>6, <1>7, <1>8 DEF Wanted

----------------------------------------------------------------------------
(***************************************************************************)
(* The inductive invariant: the snapshot is a finite set of backups, and    *)
(* what a run has decided is a decision on it.                             *)
(***************************************************************************)
Snapshot ==
    /\ backups \subseteq Backup /\ IsFiniteSet(backups)
    /\ cfg \in Config
    /\ now \in 0..MaxTime
    /\ stage \in {"loaded", "decided", "again"}

DecidedNow == stage = "decided" => removed \in ToRemove(backups, cfg, now)

DecidedTwice ==
    stage = "again" => \E before \in 0..now, fresh \in Fresh :
                          /\ removed \in ToRemove(backups, cfg, before)
                          /\ later \in ToRemove(backups \cup fresh, cfg, now)

DecisionInv == Snapshot /\ DecidedNow /\ DecidedTwice

\* A set of such records is one the lemmas above are about.
LEMMA SnapshotBackups == ASSUME NEW S, S \subseteq Backup, IsFiniteSet(S) PROVE Backups(S)
BY DecisionAssumption DEF Backup, Backups

LEMMA DecisionInit == Init => DecisionInv
BY DecisionAssumption DEF Init, DecisionInv, Snapshot, DecidedNow, DecidedTwice

LEMMA DecisionStep == DecisionInv /\ [Next]_vars => DecisionInv'
<1> SUFFICES ASSUME DecisionInv, [Next]_vars PROVE DecisionInv'
  OBVIOUS
<1> USE DEF DecisionInv, Snapshot, DecidedNow, DecidedTwice
<1>1. CASE Decide
  BY <1>1 DEF Decide
<1>2. CASE DecideAgain
  <2>1. PICK t \in now..MaxTime, fresh \in Fresh :
            now' = t /\ later' \in ToRemove(backups \cup fresh, cfg, t)
    BY <1>2 DEF DecideAgain
  <2>2. removed \in ToRemove(backups, cfg, now) /\ now \in 0..now'
    BY <1>2, <2>1, DecisionAssumption DEF DecideAgain
  <2>3. UNCHANGED <<backups, cfg, removed>> /\ stage' = "again"
    BY <1>2 DEF DecideAgain
  <2>4. Snapshot'
    BY <2>1, <2>3, DecisionAssumption
  <2>5. DecidedTwice'
    BY <2>1, <2>2, <2>3
  <2> QED BY <2>3, <2>4, <2>5
<1>3. CASE UNCHANGED vars
  BY <1>3 DEF vars
<1> QED
  BY <1>1, <1>2, <1>3 DEF Next

LEMMA DecisionIsSound == Spec => []DecisionInv
<1> QED
  BY DecisionInit, DecisionStep, PTL DEF Spec

----------------------------------------------------------------------------
\* For every registry without ties, calendar and configuration, what applyRetentionPolicies
\* removes is exactly what no enabled policy wants.
THEOREM RetentionIsExact == Spec => []RemovesTheUnwanted
<1>1. DecisionInv => RemovesTheUnwanted
  <2> SUFFICES ASSUME DecisionInv, stage = "decided", ~Ties(backups)
               PROVE  removed = {b \in backups : ~Wanted(backups, b, cfg, now)}
    BY DEF RemovesTheUnwanted
  <2>1. Backups(backups) /\ cfg \in Config /\ now \in Int
    BY SnapshotBackups DEF DecisionInv, Snapshot
  <2>2. removed \in ToRemove(backups, cfg, now)
    BY DEF DecisionInv, DecidedNow
  <2> QED BY <2>1, <2>2, RemovesExactly
<1> QED
  BY <1>1, DecisionIsSound, PTL

\* With a policy that counts, one of the newest backups stays, however ties are broken.
THEOREM NewestStays == Spec => []NewestIsKept
<1>1. DecisionInv => NewestIsKept
  <2> SUFFICES ASSUME DecisionInv, stage = "decided", KeepsNewest(cfg), backups # {}
               PROVE  \E b \in backups \ removed : Newer(backups, b) = {}
    BY DEF NewestIsKept
  <2>1. Backups(backups) /\ cfg \in Config
    BY SnapshotBackups DEF DecisionInv, Snapshot
  <2>2. removed \in ToRemove(backups, cfg, now)
    BY DEF DecisionInv, DecidedNow
  <2>3. PICK m \in backups : \A e \in backups : m.created >= e.created
    BY <2>1, NewestExists
  <2>4. PICK b \in backups \ removed : b.created >= m.created
    <3>1. CASE m \in removed
      BY <3>1, <2>1, <2>2, RemovalLeavesAsNew
    <3>2. CASE m \notin removed
      BY <3>2, <2>1 DEF Backups
    <3> QED BY <3>1, <3>2
  <2>5. Newer(backups, b) = {}
    BY <2>1, <2>3, <2>4 DEF Newer, Backups
  <2> QED BY <2>5
<1> QED
  BY <1>1, DecisionIsSound, PTL

\* A decision may be carried out late: whatever was added meanwhile, a later decision
\* removes all that it removes.
THEOREM StaleDecisionsHold == Spec => []StaleDecisionIsSound
<1>1. DecisionInv => StaleDecisionIsSound
  <2> SUFFICES ASSUME DecisionInv, stage = "again", ~Ties(backups), NEW b \in removed
               PROVE  b \in later
    BY DEF StaleDecisionIsSound
  <2>1. Backups(backups) /\ cfg \in Config /\ now \in Int
    BY SnapshotBackups DEF DecisionInv, Snapshot
  <2>2. PICK before \in 0..now, fresh \in Fresh :
            /\ removed \in ToRemove(backups, cfg, before)
            /\ later \in ToRemove(backups \cup fresh, cfg, now)
    BY DEF DecisionInv, DecidedTwice
  <2>3. Backups(backups \cup fresh)
    <3>1. fresh \subseteq Backup /\ IsFiniteSet(fresh)
      BY DecisionAssumption
    <3>2. backups \cup fresh \subseteq Backup /\ IsFiniteSet(backups \cup fresh)
      BY <3>1, FS_Union DEF DecisionInv, Snapshot
    <3> QED BY <3>2, SnapshotBackups
  <2>4. b \in backups /\ ~Wanted(backups, b, cfg, before)
    BY <2>1, <2>2, RemovesExactly
  <2>5. before \in Int /\ before <= now
    BY <2>1
  <2>6. ~Wanted(backups \cup fresh, b, cfg, now)
    BY <2>1, <2>3, <2>4, <2>5, WantedIsMonotone
  <2> QED BY <2>1, <2>2, <2>3, <2>4, <2>6, KeptIsWanted
<1> QED
  BY <1>1, DecisionIsSound, PTL

\* Retention is idempotent: a second run at the same time removes nothing.
THEOREM RetentionIsIdempotent == Spec => []SecondRunRemovesNothing
<1>1. DecisionInv => SecondRunRemovesNothing
  <2> DEFINE rest == backups \ removed
  <2> SUFFICES ASSUME DecisionInv, stage = "decided", ~Ties(backups)
               PROVE  {} \in ToRemove(rest, cfg, now)
    BY DEF SecondRunRemovesNothing
  <2>1. Backups(backups) /\ cfg \in Config /\ now \in Int
    BY SnapshotBackups DEF DecisionInv, Snapshot
  <2>2. removed \in ToRemove(backups, cfg, now)
    BY DEF DecisionInv, DecidedNow
  <2>3. Backups(rest) /\ ~Ties(rest) /\ rest \subseteq backups
    BY <2>1, FS_Subset DEF Backups, Ties
  <2>4. \A b \in rest : Wanted(backups, b, cfg, now)
    BY <2>1, <2>2, KeptIsWanted
  <2>5. \A b \in rest : Wanted(rest, b, cfg, now)
    <3> HIDE DEF rest
    <3> QED BY <2>1, <2>3, <2>4, WantedIsMonotone
  <2> HIDE DEF rest
  <2>6. PICK V \in ToRemove(rest, cfg, now) : TRUE
    BY <2>1, <2>3, DecisionExists
  <2>7. V = {b \in rest : ~Wanted(rest, b, cfg, now)}
    BY <2>1, <2>3, <2>6, RemovesExactly
  <2>8. V = {}
    BY <2>5, <2>7
  <2> QED BY <2>6, <2>8
<1> QED
  BY <1>1, DecisionIsSound, PTL
============================================================================
