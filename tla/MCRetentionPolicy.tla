------------------------- MODULE MCRetentionPolicy -------------------------
(***************************************************************************)
(* Every small set of backups, every small configuration and time, and at  *)
(* most one backup added between the two decisions.                        *)
(***************************************************************************)
EXTENDS RetentionDecision, TLC

CONSTANTS Counts, Ages

\* Days of 2, "weeks" of 3 (so that they straddle months) and months of 4 ticks.
MCPeriodOf == [day   |-> [t \in 0..MaxTime |-> t \div 2],
               week  |-> [t \in 0..MaxTime |-> t \div 3],
               month |-> [t \in 0..MaxTime |-> t \div 4]]

MCConfigs == [maxCount: Counts, maxAge: Ages, keepDaily: Counts, keepWeekly: {0, 1},
              keepMonthly: {0, 1}, dryRun: {FALSE}, force: {FALSE}]

MCFresh == {{}} \cup {{b} : b \in Backup}

\* Tags only tell backups apart.
TagSymmetry == Permutations(Tags)
============================================================================
