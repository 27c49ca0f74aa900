# Verification of mariadb-backup-s3

TLA+ models of the backup tool in this repository (Go), their model checking with TLC and
machine-checked proofs (TLAPS). The tool dumps a MariaDB or MongoDB database, stores the archive in a
*storage* (a directory, an S3 bucket or an FTP server), keeps a *registry* file of the archives there,
deletes old ones by *retention* policies and restores them; a *scheduler* daemon runs the same
operations from a cron table. Paths below are relative to the repository's root.

## 1. Inventory

| component | state | operations | shares | correct when |
| --- | --- | --- | --- | --- |
| registry data (`internal/registry/domain.go`, `utils.go`) | entries: ID, file name, creation time, digest, status | `NewBackupEntry`, `Validate`, sort, name parsing | – | identifiers and names stay unique, names give back their time |
| registry service (`internal/registry/service.go`) | none of its own; one JSON file and one lock file in the storage | `Load` (with or without recovery), `Append`, `MarkDeleted` | the storage, with every other process | a read-modify-write of the whole file loses no other process's change; the file always loads; a call takes effect once or not at all |
| storage backends (`internal/storage`) | files or objects | `Upload`, `Download`, `Delete`, `List`, `Lock`, `Unlock`, `Close` | everything | `Lock` excludes; a lock does not outlive its holder; an upload replaces a file as a whole |
| backup (`internal/backup/operation.go`) | a temporary directory, a pipeline of goroutines and the processes tar and pigz | dump, prepare, compress, encrypt, upload, append to the registry | storage, registry | success means that all was dumped and stored; a registered archive is stored, and is the one described; nothing stays behind; it ends |
| retention (`internal/retention`) | a copy of the registry | load, decide, delete archives, mark entries | storage, registry | the newest backup survives; only superseded archives go; an interrupted run can be repeated |
| restore (`internal/restore`, `cli/commands/restore`) | a selected entry, a pipeline, pigz and tar | select, download, decrypt, extract | storage, registry (read) | what is selected is there; success means that all that was archived has been extracted |
| registry list (`cli/commands/registry`) | – | load or rebuild | registry | – |
| scheduler (`internal/scheduler/scheduler.go`) | running jobs, a wait group, cron's table | `Run`, `RunOnce`, `runJob`, `stop` | state file; storages through its jobs | a job does not overlap itself; every run is recorded; stopping waits for what runs |
| scheduler state (`internal/scheduler/state.go`) | history per job, in memory and in a JSON file | `loadState`, `RecordRun`, `RecordNextRun`, `Save`, `Close` | the state file, with `scheduler status` | a crash leaves the old or the new file; history is not undone |
| scheduler configuration (`internal/scheduler/repository`) | – | `Load`, `Validate` | – | – |
| webhooks (`internal/webhooks`) | – | `Notify` once per run, best effort | – | cannot fail a run |
| pipeline (`pkg/pipeline`) | stages (goroutines) joined by pipes, one context | `Run` | stages of backup and restore | it ends, and answers nil only when everything has gone through |
| encryption (`internal/encryption`) | frame counter | `Encrypt`, `Decrypt` | – | what decryption gives on is a beginning of what was encrypted, whatever became of the archive |
| backup methods (`internal/backup/method`), `internal/exec` | dumped files, a file with credentials | `Backup`, `Prepare`; list and dump databases | the database server, which changes meanwhile | what lasted is dumped, or the backup fails; the credentials go on every way out |
| configuration, flags, logging, sanitizing, `main` | – | parse, validate, normalise; cancel on a signal | – | – |

How they interact: commands and scheduler jobs are separate processes or goroutines. They share no
memory but the scheduler's state; what they share is the storage. The registry is a single file that
every writer reads, changes and writes back between `Lock` and `Unlock`. Archives are uploaded, deleted and
downloaded without that lock. A context, cancelled by a signal or a job's timeout, reaches every call.

What is hard here: no one waits for the lock (a held lock is an error at once), it has neither owner nor
age, and each backend implements it differently; retention decides on a copy and deletes later, then marks
in a second pass; an archive is stored before it is registered; an error of a remote call does not say
whether the call took effect; a process may die between any two calls; a backup and a restore are chains of
goroutines and processes, any of which may die while its neighbours are blocked on it, and an archive may be
damaged between the two. `PROJECT.json` lists these hazards with
their lines and the properties aimed at each.

## 2. Modules

| module | models | built on |
| --- | --- | --- |
| `RegistryDomain` | entries, registries and the pure operators on them | |
| `RegistryService` | lock, load, rebuild, save, unlock of every call, step by step, on three backends | `RegistryDomain` |
| `AtomicRegistry` | what the service promises: each call acts in one instant | `RegistryDomain` |
| `RetentionPolicy` | the pure decision: which backups a configuration removes | |
| `RetentionDecision` | a run's decision on its snapshot, a later one on a registry that has grown, and the reference definition of retention | `RetentionPolicy` |
| `BackupSystem` | backup, retention, restore and list over one storage, composed with the service | `RegistryService`, `RetentionPolicy` |
| `Scheduler` | daemon, `run --once` and `status`: jobs, panics, stop, the state file and its temporary file | |
| `SchedulerStop` | the scheduler with a history variable: has a status command run since the daemon began to close? | `Scheduler` |
| `Pipeline` | `pipeline.Run`: stages, pipes, watchers, the error channel, cancellation | |
| `DatabaseDump` | the temporary directory and the three backup methods, beside a server that changes | |
| `StreamCipher` | the encrypted stream: header, numbered frames, what `Decrypt` makes of a damaged one | |
| `ArchivePath` | dump, tar, pigz, encryption, upload; damage to what is stored; download, decryption, pigz, tar | `DatabaseDump`, `StreamCipher` |
| `MC*` | small instances for TLC (`MCRetentionPolicy` of `RetentionDecision`, `MCRegistry` of `RegistryService`, `MCScheduler` of `SchedulerStop`) | the module of that name |
| `RegistryServiceProofs`, `RegistryAtomicity`, `RetentionPolicyProofs`, `RetentionDecisionProofs`, `BackupSystemProofs`, `PipelineProofs`, `SchedulerProofs`, `ArchivePathProofs` | theorems | the modules of those names |

Operators whose comment begins with "A wrong ..." are mutants: each is the definition below it with one
plausible mistake. No specification uses them; `PROJECT.json` pairs each with the property that it must
break.

### How the models correspond to the code

*Registry.* An entry is a record of creation time, encryption, digest and status. Times are instants, as the code
keeps them (`start.UTC()` with its nanoseconds, `operation.go:176`); `SecondOf` gives the second of an instant, which is itself the
instant that begins it. The file name (`FileOf`) and identifier (`IDOf`) hold the second only, so two entries can have
one name or one ID; a rebuilt entry has the second as its time, for a name holds no more (`Rebuilt`). Sizes,
metadata and formatting are left out. The stored registry is a set of entries or `NoRegistry`; a set is enough because every reader sorts. `Valid` is `Registry.Validate`.

*Registry service.* Each client has one call at a time, with the phases of `service.go`: take the lock (on
ftp `StatLock`, then `RenameLock`), download, on `os.ErrNotExist` list and rebuild or start a new
registry, change, upload, unlock. `buf` is the registry in the caller's memory. A remote call may succeed,
fail, or fail after it has taken effect (`UploadAmbiguous`). On ftp an upload is what `ftp.go:127` makes of it: `StoreTemp`
truncates `registry.json.tmp` and starts the transfer, `TempStored` ends it, `RenameTemp` moves the file into place,
and `ReplaceFails` stops anywhere. All clients share that temporary name: `writers` are those whose transfers
may have reached the file, and where there are several it may hold a mixture (`Torn`), which `Load` cannot
parse (`ParseFails`). `took` and the mapping in `Atomic` are history
for the refinement. Only on s3 does `Unlock` look at the context.
`List` is one step. `registry list` and `restore` take the lock as well, as `Load` does.

*Backup system.* A client is a process or a scheduler job; `pc` is where its command is. Archives live in
`objects`, from file name to digest. `started` is a history of the backups that have begun, as instant and setting: a name that two
of them have is `Shared`, and the later upload replaces the archive of the earlier. `Intact` says that an entry's archive is the one
with its digest, or that its digest is unknown (it was rebuilt) or its name is shared. `PlanRetention` decides on the copy `buf` that `Load` returned, after
the lock is gone; `DeleteBackup` and `DeleteFails` delete without the lock; only when all are deleted does
`MarkNext` start to mark. Deleting a missing object is an error on a file system and on ftp, and succeeds on
s3. The clock reads instants (`Readings`), and no two commands the same one; since it has nanoseconds it is taken never to
read a whole second, so a rebuilt entry is older than one the program has appended for a backup of its second. `--force` goes on after an
error, `--dry-run` deletes nothing.

*Retention policy.* A decision is nondeterministic where the code's sort is not stable (ties). Policies
are keep sets, united, as in `applyRetentionPolicies`. In `RetentionDecision` a backup that is registered between
two decisions may be older than those in the snapshot: its time is that of its start, its entry is made at its end.

*Scheduler.* `main` is the main goroutine of the daemon and of a `status` command, `job` the goroutine of each
job, `save` the place of each caller in `State.Save`: lock, open and truncate `<state>.tmp`, write, rename.
Two processes share the two files and have a mutex each; an open file follows its inode through a
rename (`fd`). A job's history is its `RunCount`. What a job does to its storage is the subject of
`BackupSystem`; here it ends well, badly or in a panic. cron is a library: it launches a job only when the
job's previous run is over (`SkipIfStillRunning`), and the launched goroutine enters `runJob` some time later.

*Pipeline.* `worker[i]` is what stage `i`'s goroutine is doing, `Last` the final copy. A write is an offer that
lasts until the reader takes it or the pipe is closed. `watching` are the goroutines that wait for the
context. A stage writes nothing or one chunk for each chunk it reads, may write before the first read (the
header of an encrypted stream) and once after the last one (what a compressor holds back).

*The way of the data.* `ArchivePath` is one storage with one archive: a backup, then perhaps damage, then a restore.
`DatabaseDump` is its first half: the physical method and `mongodump` take everything with one tool; the logical
method lists the databases and then dumps one after the other, while `ServerChanges` creates and drops some.
`lasting` are those that were there all the time, `creds` is the directory with the credentials of `mongodump`.
In the second half one stage runs two processes, as `compress` and `extract` do: pigz is started, tar runs to its end
(`TarReturned`), then pigz is waited for (`PigzReturned`). The kernel pipe between them holds `PipeSize` chunks
(`fed`, `got`). The parent has the read end open until it has waited, so the writer gets no signal when the reader
dies. The other stages are one worker, the far end, joined to pigz by a stream of one item (`hose`, `hoseEnd`), since
`Pipeline` already has the stages between; who closes that stream, and with which error, is as in `pipeline.Run`.
The archive is one item per chunk and a trailer, which stands for pigz's length and checksum. tar sees a short file or
does not (it may be cut between two members); pigz always does. Frames are sealed under the header and their
number; `Damaged` cuts, garbles, removes or swaps frames once. `RemoveAll` of a local directory is taken to
succeed, since the code only logs its error.

## 3. Runs

| run | question | bounds |
| --- | --- | --- |
| `retention_policy` | does the code's combination of policies agree with an independent definition, keep the newest, stay sound when it is decided on an old copy, and remove nothing when repeated? | 4 backups at 6 instants, two at one (ties); one more registered in between; every time; counts 0..2, ages 0 and 2, all combinations of the five options |
| `retention_docs` | violation: a backup that `max_count` or `max_age` prunes and no `keep_*` option preserves stays | the same |
| `registry_ftp` | uploads through one temporary name: as long as the lock excludes, does every stored registry load; do calls return, and leave no lock on a mere cancellation? | 2 clients, 1 instant, one fault or one cancellation |
| `ftp_lock_race` | violation: two clients hold the ftp lock | no fault |
| `s3_stale_lock` | violation: a cancelled command leaves its lock | one cancellation |
| `backup` | the whole program on a file system. The registry: mutual exclusion, always loadable, no lost update, atomic. The archives: the newest and every acknowledged one are there, with their digest, until something newer supersedes them; only superseded ones go; what is marked deleted is gone. No step sets a command back | 2 clients; 3 readings of the clock, two of them in one second; 2 digests; forced, plain and dry retention; one fault or crash |
| `retention_heals` | on s3, a retention that is interrupted is repaired by a later one, unless a stale lock refuses its calls; every command ends, a stale lock or not; the archives are safe as above | 1 client, plain and encrypted backups of one second, keep-daily and dry-run policies, one fault or crash and one cancellation |
| `same_second` | violation: the digest of a registered backup is not that of the stored archive | 2 clients, no fault |
| `scheduler` | no recorded run is lost, the daemon stops after its jobs and always stops, and it then leaves its whole history on disk, whatever a status command has put there before | 2 jobs, one run each, one fault or crash, one status command |
| `scheduler_status` | violation: a state file that cannot be parsed | 1 job, 1 run, 1 status command |
| `archive_path` | does success mean that all was dumped, stored or extracted; is a damaged archive ever restored with "ok"; are the dump and the credentials removed; does a command end? | 2 databases, 2 chunks, a pipe of 1, one fault, one damage, cancellation anywhere; all methods, encrypted or not, with a deadline or not |
| `pipeline` | no cut stream looks like a whole one; the run returns | 3 stages and the copy, 3 chunks, 2 failures |

Why these bounds: every conflict in the registry is between two calls, and a third client adds only a
repetition; a stale retention decision needs one archive to delete, one that supersedes it and a backup
under way, which 3 readings hold, and two of them in one second give names that are shared; two digests tell an archive from another
of its name. A fault interrupts a run, a cancellation its repair or, on s3, leaves the lock. `backup` has a file system, the backend whose
deletions can fail for a missing archive; that s3 keeps the same properties is proved, for any number of clients (section 4), and
ftp, whose lock does not exclude, has a run of the registry alone. Two jobs and a main goroutine give the mutex three contenders. In `archive_path`, two chunks and a trailer are the
fewest frames of which one can be lost or swapped inside; a pipe of one chunk is full before tar has ended, which
is what blocks; two databases are one that goes and one that stays. Three
stages give a stage with a stage on both sides, and are what backup and restore have.
Every bound is a constant of a configuration: `MaxFaults`, `MaxCancels`, `MaxTime`, `MaxBackups`, `MaxRuns`,
`MaxStatus`, `Stages`, `Chunks`, `PipeSize`, `Fresh`. The clock stops at `MaxTime`, so the systems with one may stop
(`CHECK_DEADLOCK FALSE`); scheduler, pipeline and archive path may end. `WritesNext` of `MCRegistry` keeps `registry_ftp` small:
`ObjectsMatter` stops changes of the archives once there is a registry, for nobody reads them then; `WritesMatter`
leaves out plain loads, which write nothing, and marks of rebuilt entries; `OneDisturbance` allows a fault or a
cancellation, not both. The steps of a registry call are part of one action in these runs (`WritesNext`, and `RegistryStep` of
`BackupSystem`): ftp's (`StatLock`, `RenameLock`, `StoreTemp`, ...) are taken in `registry_ftp`, the others (`AcquireLock`,
`UploadRegistry`, ...) in `backup` and `retention_heals`, and TLC's coverage of the three leaves no line of `RegistryService` or
`BackupSystem` out.

### Fairness

* `ServiceFairness`, `Fairness` of `BackupSystem`: a call in progress takes its next step. Nothing in a call waits
  for another client (a held lock is an error at once), and the backends' clients return or time out.
* `ScheduledSpec` (only `retention_heals`): retention is started again and again, and not always as a dry run (strong
  fairness of `StartPruning`: between other commands), and a cancelled client is followed by a new process. A cron table does that.
* `Scheduler!Fairness`: goroutines go on. A job has a timeout (`repository.Job.GetTimeout`), file calls return. The
  webhook's call has no context (`webhooks/service.go:65`, `context.Background()`) and, unless `webhook.timeout` is
  configured, a client without a timeout; so `RunOver` is fair only with `HookTimeout`. With `HookTimeout = FALSE`
  TLC refutes `StopEnds`: a receiver that never answers blocks the job's later runs and `stop` for ever. Nothing obliges cron to fire, a signal to come or a process to
  crash.
* `Pipeline!Fairness`: every goroutine that can take a step takes one. The caller's cancellation is not fair, so
  `RunReturns` does not lean on it.
* `ArchivePath!Fairness`: a running command goes on, its tools included (`CommandStep`). The context of a scheduled job
  has a deadline (`scheduler.go:213`), so for it the context ends; a command started by hand has none, and a restore
  is always one. `PathEnds` therefore says that a command ends or is `Wedged` (below).

### Where the code departs from what it says

* `ftp_lock_race`: `ftp.go:266` looks with `Stat` and then renames its file onto the lock; two clients can do
  that side by side, and both go on. Their uploads then share one temporary name (`ftp.go:127`): besides lost updates
  a mixture of two files can become the registry. It does not parse, and since that is not `os.ErrNotExist` no
  rebuild replaces it. `registry_ftp` and `OnlyTheLockIsNeeded` show that the lock is all that is missing.
* `s3_stale_lock`: the deferred `Unlock` runs with the caller's context. After a signal or a job's timeout
  its request fails, the error is dropped, and the lock object refuses every later call.
* `same_second`: an archive's name is the second of its backup's start (`operation.go:137`) and an upload replaces what has
  the name. Of two backups that start in one second with one encryption setting, the later upload replaces the archive of the other,
  which may have been reported as made; its own entry is then refused for the duplicate name. So the registry keeps the digest
  and size of an archive that is gone, where `README.md:406` has the "SHA256 hash of the backup file". Nothing else suffers: the
  properties of `backup`, which allows it, except the archive of a shared name and nothing more.
* `retention_docs`: `examples/scheduler/README.md:317` has `max_count` and `max_age` "prune eligible backups first", then `keep_*`
  "preserve". The code unites what each of the five options keeps, so `max_age` prunes nothing that `max_count` keeps, nor the other way
  round. (`PruneThenPreserve` takes "preserve" at its most generous, the newest so many of each period; the code's `keep_daily = 2`
  keeps the newest backup of each of two days, where `README.md:342` says "Keep N per day".) `RemovesTheUnwanted` is the union the
  code's own comment describes (`operation.go:189`).
* `scheduler_status`: `scheduler status` saves, for registering the jobs makes its state dirty, through the same
  `<state>.tmp` as the daemon. A truncated or mixed file can be renamed into place, which no later `New`
  can parse.

Behaviours met while modelling that have no run of their own: a plain and an encrypted archive of one second give a
rebuild two entries with one ID, which `Validate` refuses every time (`README.md:391` promises the rebuild;
`README.md:414` names the timestamp-only IDs); on a file system or ftp an archive that an interrupted retention has deleted makes
each later plain run fail, and a forced one passes over it without marking it, so that only s3 heals;
a timeout in the retention after a backup is recorded as a
success (`examples/scheduler/README.md:321`); `run --once` ends at the first failed job but goes on after one
that panicked; a `status` command may put an older history in the file until the daemon saves again, which it does when it stops (`StopRestoresHistory`; `SchedulerStop` adds the history variable `met` for it); a
policy of `max_age` alone may remove every backup; an encrypted archive that is
cut between two frames decrypts without an error (`README.md:554` advertises integrity verification; there is no final
frame), so only pigz's trailer makes the restore fail (`RestoredIsWhole` holds because of it, on the assumption that `pigz -d`
refuses whatever lacks a trailer, an empty input included); when pigz dies
in a backup, or tar in a restore, and the tool that writes to it has filled the pipe, which the program itself holds
open, a command without a deadline hangs until it is interrupted (`Wedged`); `List` of a missing ftp or file directory and an empty
one are one case.

## 4. Proofs

All proofs hold for every value of the constants that satisfies the named assumptions of the modules
(`DomainAssumption`, `NoEntryAssumption`, `ServiceAssumption`, `PipelineAssumption`, `SchedulerAssumption`, `FileAssumption`,
`DumpAssumption`, `PathAssumption`, `GarbledAssumption`, `SystemAssumption`, `DecisionAssumption`: the special values are no
entries and no items, the bounds are naturals, the backend is one of the three, configurations are configurations). Some
theorems assume more, and each of these is needed:

* `Backend # "ftp"` ("not on ftp"): on ftp two clients can be inside the lock (`ftp_lock_race`), and then updates are lost.
  For the registry and for the backups there is also a form that holds on every backend, as long as the lock excludes.
* `Backend # "s3"` ("not on s3"): there `Unlock` fails when its caller is cancelled (`s3_stale_lock`).
* `PoliciesKeepNewest` (every configuration counts backups or periods): `max_age` alone may remove every backup.
* "no ties" (only for retention by itself): where creation times are equal the code's sort may put either backup first.

| theorem | says | needs |
| --- | --- | --- |
| `ServiceTypeCorrect` | `ServiceTypeOK` always | `Typed`: arguments of append and mark are entries |
| `LockIsExclusive` | not on ftp: one client between Lock and Unlock | `Mutex` |
| `OnlyTheLockIsNeeded`, `RegistryAlwaysLoads` | on every backend the stored registry parses and is `Valid` as long as the lock has excluded; not on ftp: always | `Locked`: `TempOwned` (a client that replaces the file has written all of the temporary file itself), `Current` |
| `UpdatesKeptWhileExclusive`, `UpdatesAreKept` | no write drops or revives an entry, under the same conditions | `Current`: what a client is about to write is its change applied to what is stored now |
| `AtomicWhileExclusive`, `CallsActAtomically` | the service implements `AtomicRegistry`, under the same conditions | `Locked`, `EffectKnown`: `took` says whether the call has taken effect |
| `LockIsNotLeftBehind`, `OnlyFaultsLeaveLocks` | not on s3: a lock that nobody holds is there only after a fault; on every backend: or a cancellation | `Held`: a lock file is that of a client in its critical phases, until something fails |
| `RemovalLeavesAsNew` | a policy that counts leaves, for each backup it removes, one that is as new | any finite set, any calendar |
| `RetentionIsExact`, `RetentionIsIdempotent` | no ties: retention removes exactly what no policy wants, and a second run nothing | any registry, calendar, configuration; `Newer`, `Wanted` |
| `StaleDecisionsHold` | no ties: what a stale decision removes, a later one removes too, whatever has been added | `WantedIsMonotone` |
| `NewestStays` | a policy that counts leaves one of the newest, ties or not | `RemovalLeavesAsNew` |
| `SystemTypeCorrect` | `TypeOK` of the whole program | `Sound`: a command's place fits the registry call it has made |
| `SystemLockIsExclusive`, `SystemRegistryLoads` | not on ftp: the lock excludes and the registry loads, whatever commands do to the archives | the registry's `Mutex` and `Locked`, kept by every step outside it |
| `SystemUpdatesAreKept` | not on ftp: no command undoes what another has written to the registry | the same |
| `SystemAtomicWhileExclusive`, `SystemCallsActAtomically` | the whole program implements `AtomicRegistry`, on every backend as long as the lock excludes, not on ftp always | `Locked`, `EffectKnown` and `OutsideSilent`: a step outside the service changes nothing that an atomic registry has |
| `CallsRunDown` | every step of a call brings it nearer to its answer, at most eight in all | `Typed`; `Ahead` counts |
| `NothingSetsBack`, `CommandsAdvance` | every step of a command leaves it less to do, and no step of anyone more | `Sound`, `Finite`: what a command has picked is finite |
| `AcknowledgedStaysRegistered` | not on ftp: a backup that was reported stays registered, and so does what retention has picked or a restore selected; any policies, any seconds | `Known` |
| `DeletedGoneWhileExclusive`, `DeletedStaysGone` | what is marked deleted is gone, and nothing brings it back, save another backup of its name: on every backend as long as the lock excludes, not on ftp always | `Known`, `Relisted`, `Names`, `DeletedInv` |
| `NewestStaysRestorable`, `AcknowledgedStaysKept`, `SelectedStaysOrSuperseded`, `OnlySupersededIsDeleted` | not on ftp, policies that count: the four properties of `backup` about what retention and other backups may take away; an archive counts only if it is `Intact` | the same and `KeptInv` |
| `BackupsKeptWhileExclusive` | the three invariants among them on every backend, as long as the lock excludes | the same |
| `PipelineTypeCorrect`, `EndsAreWhole`, `NilIsWhole` | for any number of stages: an ended pipe is whole, a nil answer too | `FailuresEnd`, `GoodEndsSawEnd`, `AnswerIsFinal` |
| `SchedulerTypeCorrect`, `StopWaitsForRuns` | type correctness; stopping interrupts no run | `NoGhosts`, `Room` |
| `DecryptionIsPrefix` | for any number of chunks and any damage, what is decrypted is a beginning of what was encrypted | `PathInv`: what is stored consists of frames of one stream, garbled or not, each with its number |
| `NothingStays` | no ended backup leaves its dump behind; credentials are there only while the tool runs | `Order` |
| `SuccessIsWhole` | a backup that answers nil has dumped every lasting database and stored all of it | `Order`, `Listed`, `Backed`, `Results` |
| `RestoreIsWhole` | a restore that answers nil has extracted the whole original, whatever became of the archive | `Archived`, `Restored` |
| `PathTypeCorrect` | `TypeOK` of the data path: no pipe holds too much | `ControlTyped`, `FlowTyped`, `TakenBounded` |
| `RunsReachTheDisk`, `HistoryIsKept` | a saved run is in the state file; no save, failure or crash puts an older or torn history there | no status command so far; `Held`, `Temp`, `NotAhead`, `OnDisk` |
| `StopSavesHistory` | a daemon that has stopped, no save failed and no status command about since it began to close, leaves all it remembers on disk, whatever status commands wrote before | `Quiet`, `Settled` |

The argument for the registry: neither mutual exclusion nor "no lost update" is inductive. `LockExclusive` needs
that a client in its critical phases has the lock file (`Mutex`), which a failed unlock or a crash keeps true
since they only leave more lock files behind. "No lost update" needs that the copy in memory is still what
is stored (`Current`): true because only lock holders upload, and only one client holds the lock. With
that, the step that uploads is the instant of the call in `AtomicRegistry`, and every other step is a stutter,
a start or an answer. On ftp `Mutex` is false; there the theorems start from `[]LockExclusive` instead, which follows from `Mutex`
on the other two: one proof serves both. With one writer at a time the temporary file is its writer's
(`TempOwned`), so what is renamed is what was meant, after whatever failed before.

The argument for retention: what is newer than a backup decides its fate. A prefix of the sorted slice that holds a backup
holds all that is newer, so fewer than `n` are (`PrefixIsWanted`); one that lacks it consists, without ties, of
newer ones only, so at least `n` are (`WantedIsInPrefix`). For a period policy the same is said of the newest backups of
the periods, which without ties stand one to one for the periods that hold something newer (an injection one way, a
surjection the other). The first half needs no distinct times, which is why a stale decision stays right even
when the backup that was added ties. Nothing wanted is lost by removing others: fewer are newer then.

The argument for the whole program: retention acts on a copy of the registry that may be old, without the lock. What
makes that safe is that entries never leave the registry and only ever turn from ready to deleted
(`NoLostUpdate`), so what a command has read, selected or picked is still registered (`Known`); and whatever has been
selected for deletion had, by `RemovalLeavesAsNew`, a backup as new in the copy that was not selected (`KeptInv`). That one
may itself be deleted by another retention, but then for the sake of a newer one: every entry has its archive or a newer
ready entry. That, and not the property itself, is what each step keeps; the newest ready entry has nothing newer,
so it has its archive. "As new" is "newer" because the registry has one entry of each instant (`OneEntryPerInstant`).

That the archive is the one of the digest rests on names. `Names` says that every object and every entry is of a backup that has started, and
that a backup under way has an instant of its own; so when an upload finds its name taken, by an object or by an entry, two
backups have started with that name and it is `Shared`. Otherwise the upload adds an archive, which stays `Intact` until it is
deleted; and a name without an archive cannot get one from elsewhere, so what is marked deleted stays gone (`DeletedInv`). A rebuilt entry
has no digest and the time of a second, which no clock reading is (`Relisted`: what the rebuild has found is still there, for no
retention deletes what is in no registry). An entry whose append meets a name that is taken (`NameTaken`) is refused, so it needs no
archive. No assumption about seconds is left: two backups of one second may start, and what they do to each other is confined to
the archive of the shared name, which is as much as the code keeps (`same_second`). `SystemLockIsExclusive` feeds the theorems, which start from
`[]LockExclusive`, so the same proof serves every backend.

The argument that commands end: what a command has before it is counted as stages, then backups (two for one to delete, one for
one to mark), then the rest of its registry call, in this order of weight. Each count is a natural number because a command picks its
backups from what it has loaded, and a registry grows by one entry at a time or is made of the finitely many names (`Finite`). A
deletion trades two for one, a mark that has returned takes one away, forced or not, and only a stage that is over may raise the
count of backups.

The argument for the pipeline: `EndMeansWhole` is inductive together with the fact that a worker ends well
only when the pipe it reads has ended (`GoodEndsSawEnd`) and that a failed worker never works again
(`FailuresEnd`); then wholeness travels from stage to stage. `NilMeansWhole` follows since all errors are in
the channel before the last worker is done.

The argument for the scheduler: the mutex makes whoever is inside `Save` the owner of the temporary file and of the
newest history (`Held`, `Temp`), since recording a run needs the mutex too; so a rename replaces the state
file by what is in memory, which is never older (`NotAhead`), and only jobs that have still to save are behind
(`OnDisk`). A second process breaks `Temp`, which is what `scheduler_status` shows; the theorems therefore end
where the first status command begins. `StopRestoresHistory` goes beyond it: once the daemon closes its state and no status
command is about, only its own goroutines are in `Save`, one at a time, and `State.Close` saves whether or not anything has
changed since (`Settled`); a status command that is over saves no more (`Quiet`).

The argument for the way of the data: `Opened` is the greatest length up to which every frame opens, so each frame
that is given on has the number of its place; being a frame of the one stream (`PathInv`, which every damage keeps)
it holds what was encrypted there. For a successful backup, `Listed` says that a lasting database is dumped, or
still listed, or on the server that the tool will read; `Backed` that the items written so far are those
of the chunks tar has read, and that the stream ends without an error only after both tools ended well; `Results`
carries this from the upload to the answer.

For a restore, `Restored` says that pigz has expanded a beginning of the chunks in their order, and accepts only at a
trailer that counts as many chunks as it has expanded. What reached it is data of the first frames as they are stored
(`DeliveredItem`), and no damage makes an archive longer than the original (`DamagedLength`), so the trailer was its last
item, nothing was missing before it, and nothing was garbled (`WholeDelivered`).

Every invariant and action property of the passing runs is now the conclusion of a theorem. Only model-checked are the temporal
properties: `CallsReturn`, `CommandsEnd`, `InterruptedRetentionHeals`, `StopEnds`, `RunReturns`, `PathEnds`. They
lean on fairness, hence on `ENABLED`, which the prover does not reach. Of `CallsReturn` and `CommandsEnd` the other half is proved
(`CallsRunDown`, `NothingSetsBack`, `CommandsAdvance`): what remains is that a command which has not ended can take a step. `DaemonCanStart`, refuted by `scheduler_status`, has no
theorem either: it holds only without status commands, where `HistoryIsKept` says as much.

## 5. Plan

Done: registry (with ftp's uploads), retention, the system they make, scheduler, pipeline, and the way of the data from
the server to the storage and back; theorems for every safety property of these. What is left: counts like those of `CommandsRunDown` for the
scheduler, the pipeline and the data path. There they are sums over all jobs or stages, which need an induction over
data where the number of these is a constant.

## 6. Not modelled

* Configuration, flags, the scheduler's configuration file, logging, sanitizing: sequential parsing, validation and
  wording without shared state, tested by example.
* What tar, pigz and the dump tools put in their files, their arguments, and the ciphers: programs and libraries. A
  frame opens or it does not, a trailer agrees or it does not; `pigz -d` is taken to fail on an input without a trailer, also when it is
  empty. Two commands that read the same instant from the clock, to the nanosecond, and a reading of a whole second are left out.
* ftp connections, path validation, and the temporary names of archives (each archive has a name of its own); s3
  multipart uploads; eventual consistency (s3 is strongly consistent).
* A crash of the operating system: neither the registry nor the state file is synced to disk, and a crash here is
  the death of a process, after which the files are as last written.
* Next-run times of jobs, durations, error texts.
