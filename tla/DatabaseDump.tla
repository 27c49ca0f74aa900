---------------------------- MODULE DatabaseDump ----------------------------
(***************************************************************************)
(* The first half of the backup operation: a temporary directory and the    *)
(* three backup methods that fill it (internal/backup/method), while the    *)
(* database server goes on.  Every tool runs through exec.Run, which gives  *)
(* its exit status and kills it when the context is done.                   *)
(***************************************************************************)
EXTENDS Integers, FiniteSets

CONSTANTS
    Databases,    \* the databases there may be, the system schemas apart
    MaxFaults     \* bound: tools that fail or die, I/O and network errors

ASSUME DumpAssumption == MaxFaults \in Nat

VARIABLES
    method,       \* "physical", "logical" or "mongodb"
    secret,       \* mongodb: the server wants a password
    dump,         \* what the operation is doing
    server,       \* the databases there are
    lasting,      \* history: those that have been there since the dump began
    todo,         \* logical: listed and not dumped yet
    dumped,       \* the databases in the temporary directory
    tempdir,      \* the temporary directory exists
    creds,        \* the directory with mongodump's credentials exists
    done,         \* the context is done
    faults

dumpVars == <<method, secret, dump, server, lasting, todo, dumped, tempdir, creds>>

Methods == {"physical", "logical", "mongodb"}

DumpTypeOK ==
    /\ method \in Methods
    /\ secret \in BOOLEAN
    /\ dump \in {"off", "start", "tool", "list", "each", "prepare", "ready", "failed"}
    /\ server \in SUBSET Databases
    /\ lasting \in SUBSET Databases
    /\ todo \in SUBSET Databases
    /\ dumped \in SUBSET Databases
    /\ tempdir \in BOOLEAN
    /\ creds \in BOOLEAN
    /\ done \in BOOLEAN
    /\ faults \in 0..MaxFaults

DumpInit ==
    /\ method \in Methods
    /\ secret \in (IF method = "mongodb" THEN BOOLEAN ELSE {FALSE})
    /\ dump = "off"
    /\ server \in SUBSET Databases
    /\ lasting = {}
    /\ todo = {}
    /\ dumped = {}
    /\ tempdir = FALSE
    /\ creds = FALSE

Fault == faults < MaxFaults /\ faults' = faults + 1

\* A call fails by itself, or because the context is done.
Fails == Fault \/ (done /\ UNCHANGED faults)

GoOn(d) == dump' = d

\* MkdirTemp.
MakeTempdir ==
    /\ dump = "start"
    /\ tempdir' = TRUE
    /\ lasting' = server
    /\ GoOn(IF method = "logical" THEN "list" ELSE "tool")
    /\ UNCHANGED <<method, secret, server, todo, dumped, creds, done, faults>>

\* mongodb: the credentials are written outside the temporary directory.
WriteCredentials ==
    /\ dump = "tool"
    /\ secret /\ ~creds
    /\ creds' = TRUE
    /\ UNCHANGED <<method, secret, dump, server, lasting, todo, dumped, tempdir, done, faults>>

\* physical and mongodb: one run of a tool dumps everything there is.  The deferred
\* cleanup removes the credentials.
ToolSucceeds ==
    /\ dump = "tool"
    /\ secret => creds
    /\ ~done
    /\ dumped' = server
    /\ creds' = FALSE
    /\ GoOn("prepare")
    /\ UNCHANGED <<method, secret, server, lasting, todo, tempdir, done, faults>>

\* logical: SHOW DATABASES.
ListDatabases ==
    /\ dump = "list"
    /\ ~done
    /\ todo' = server
    /\ GoOn("each")
    /\ UNCHANGED <<method, secret, server, lasting, dumped, tempdir, creds, done, faults>>

\* logical: one run of the dump tool for each name that was listed.
DumpDatabase ==
    /\ dump = "each"
    /\ ~done
    /\ \E d \in todo \cap server : /\ dumped' = dumped \cup {d}
                                   /\ todo' = todo \ {d}
    /\ UNCHANGED <<method, secret, dump, server, lasting, tempdir, creds, done, faults>>

\* logical: nothing is left to dump.
AllDumped ==
    /\ dump = "each"
    /\ todo = {}
    /\ GoOn("prepare")
    /\ UNCHANGED <<method, secret, server, lasting, todo, dumped, tempdir, creds, done, faults>>

\* physical: the tool prepares what it has copied; the others do nothing.
Prepare ==
    /\ dump = "prepare"
    /\ method = "physical" => ~done
    /\ GoOn("ready")
    /\ UNCHANGED <<method, secret, server, lasting, todo, dumped, tempdir, creds, done, faults>>

\* No temporary directory, or the preparation fails or is killed.
OperationFails ==
    /\ dump = "start" \/ (dump = "prepare" /\ method = "physical")
    /\ Fails
    /\ GoOn("failed")
    /\ UNCHANGED <<method, secret, server, lasting, todo, dumped, tempdir, creds, done>>

\* A wrong mongodb.Backup: the cleanup is not deferred.
ToolFailsKeepsSecrets ==
    /\ dump = "tool"
    /\ Fails
    /\ GoOn("failed")
    /\ UNCHANGED <<method, secret, server, lasting, todo, dumped, tempdir, creds, done>>

\* physical and mongodb: the tool, or writing the credentials, fails; they are
\* removed on this way out too.
ToolFails ==
    /\ dump = "tool"
    /\ Fails
    /\ creds' = FALSE
    /\ GoOn("failed")
    /\ UNCHANGED <<method, secret, server, lasting, todo, dumped, tempdir, done>>

\* A wrong logical.Backup: a database that cannot be dumped is skipped.
LogicalFailsOnlySkips ==
    \/ /\ dump = "list" /\ Fails
       /\ GoOn("failed")
       /\ UNCHANGED <<method, secret, server, lasting, todo, dumped, tempdir, creds, done>>
    \/ /\ dump = "each" /\ Fails
       /\ \E d \in todo : todo' = todo \ {d}
       /\ UNCHANGED <<method, secret, dump, server, lasting, dumped, tempdir, creds, done>>

\* logical: the list cannot be had, or one of the databases on it cannot be dumped,
\* for it has been dropped meanwhile or for any other reason.
LogicalFails ==
    /\ \/ dump = "list" /\ Fails
       \/ dump = "each" /\ todo # {} /\ Fails
       \/ dump = "each" /\ todo \ server # {} /\ UNCHANGED faults
    /\ GoOn("failed")
    /\ UNCHANGED <<method, secret, server, lasting, todo, dumped, tempdir, creds, done>>

DumpStep ==
    \/ MakeTempdir \/ WriteCredentials \/ ToolSucceeds
    \/ ListDatabases \/ DumpDatabase \/ AllDumped
    \/ Prepare
    \/ OperationFails \/ ToolFails \/ LogicalFails

\* Databases are created and dropped while the dump runs.
ServerChanges ==
    /\ dump \in {"tool", "list", "each"}
    /\ \E d \in Databases :
          server' = IF d \in server THEN server \ {d} ELSE server \cup {d}
    /\ lasting' = lasting \cap server'
    /\ UNCHANGED <<method, secret, dump, todo, dumped, tempdir, creds, done, faults>>
=============================================================================
