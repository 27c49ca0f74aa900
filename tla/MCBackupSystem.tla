--------------------------- MODULE MCBackupSystem ---------------------------
(***************************************************************************)
(* BackupSystem on small instances.                                        *)
(***************************************************************************)
EXTENDS BackupSystem, TLC

MCTimes == 0..MaxTime

\* Instants 1 and 2 belong to the second that begins at 0, instant 4 to that of 3.
MCSecondOf == [t \in Times |-> IF t < 3 THEN 0 ELSE 3]

\* Days are 2 instants long, weeks 3, months 4.
MCPeriodOf == [day   |-> [t \in Times |-> t \div 2],
               week  |-> [t \in Times |-> t \div 3],
               month |-> [t \in Times |-> t \div 4]]

KeepOne == [NoPolicy EXCEPT !.maxCount = 1]
KeepOneForced == [KeepOne EXCEPT !.force = TRUE]
DryRun == [KeepOne EXCEPT !.dryRun = TRUE]
KeepDay == [NoPolicy EXCEPT !.keepDaily = 1]

CountPolicies == {KeepOne}
ForcedPolicies == {KeepOne, KeepOneForced, DryRun}
MixedPolicies == {KeepOne, KeepDay, DryRun}

DataSymmetry == Permutations(Clients) \cup Permutations(Digests)
=============================================================================
