--------------------------- MODULE RegistryDomain ---------------------------
(***************************************************************************)
(* The data of internal/registry (domain.go, utils.go and the pure parts    *)
(* of service.go): backup entries, registries and what is done to them.     *)
(*                                                                         *)
(* A registry is the set of its entries: the code keeps a slice but sorts   *)
(* it by creation time on every save and never relies on any other order.   *)
(* A backup's time is the instant its command read from the clock; its file  *)
(* name and its identifier keep only the second of that instant.            *)
(* "failed" is a legal status that no code of the program ever writes.      *)
(***************************************************************************)
EXTENDS Integers, FiniteSets

CONSTANTS
    Times,        \* instants; the seconds are the instants that begin one
    SecondOf,     \* the second of each instant (time.Format of the names)
    EncModes,     \* the encryption settings in use (a subset of BOOLEAN)
    Digests,      \* SHA-256 digests of archives
    Unknown,      \* the digest "unknown" of an entry rebuilt from a file name
    NoEntry       \* no backup entry

ASSUME DomainAssumption ==
    /\ Times \subseteq Nat
    /\ SecondOf \in [Times -> Times]
    /\ \A t \in Times : SecondOf[t] <= t /\ SecondOf[SecondOf[t]] = SecondOf[t]
    /\ \A t, u \in Times : t <= u => SecondOf[t] <= SecondOf[u]
    /\ EncModes \subseteq BOOLEAN
    /\ Unknown \notin Digests

Statuses == {"ready", "deleted"}

Entry == [created: Times, enc: EncModes, sha: Digests \cup {Unknown}, status: Statuses]

ASSUME NoEntryAssumption == NoEntry \notin Entry

\* There is no registry file: told apart from every set of entries.
NoRegistry == {NoEntry}

(***************************************************************************)
(* Names in the storage: the start second, ".tar.gz" and perhaps ".enc"    *)
(***************************************************************************)
Files == {SecondOf[t] : t \in Times} \X EncModes

FileOf(e) == <<SecondOf[e.created], e.enc>>

\* BackupEntry.ID: the start second and a prefix of the digest (all of it here).
IDOf(e) == <<SecondOf[e.created], e.sha>>

\* Two entries of one backup, whatever has become of it.
SameBackup(a, b) == a.created = b.created /\ a.enc = b.enc /\ a.sha = b.sha

\* A wrong NewBackupEntry: a status that Validate does not know.
NewEntryPending(t, enc, d) == [created |-> t, enc |-> enc, sha |-> d, status |-> "pending"]

\* registry.NewBackupEntry as the backup operation calls it.
NewEntry(t, enc, d) == [created |-> t, enc |-> enc, sha |-> d, status |-> "ready"]

\* A registry is what Registry.Validate accepts: identifiers and file names differ.
Valid(reg) ==
    \A a, b \in reg : a # b => IDOf(a) # IDOf(b) /\ FileOf(a) # FileOf(b)

\* A wrong CanAppend: duplicate file names are not looked for.
CanAppendByID(reg, e) == \A x \in reg : IDOf(x) # IDOf(e)

\* Validate of the loaded (valid) registry with one more entry appended.
CanAppend(reg, e) ==
    \A x \in reg : IDOf(x) # IDOf(e) /\ FileOf(x) # FileOf(e)

\* The loop of MarkDeleted; an unknown identifier changes nothing.
Marked(reg, e) ==
    {IF IDOf(x) = IDOf(e) THEN [x EXCEPT !.status = "deleted"] ELSE x : x \in reg}

\* The entries rebuild makes of the names it finds in the storage: their time
\* is the name's second, the digest and so the identifier's second half unknown.
Rebuilt(files) == {NewEntry(f[1], f[2], Unknown) : f \in files}

\* The contents of a registry: an absent one is empty (registry.New).
Contents(s) == IF s = NoRegistry THEN {} ELSE s

Ready(reg) == {e \in reg : e.status = "ready"}
=============================================================================
