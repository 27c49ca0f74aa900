---------------------------- MODULE ArchivePath ----------------------------
(***************************************************************************)
(* The way of the data: a backup (internal/backup/operation.go) dumps the   *)
(* server, archives the dump with tar, compresses it with pigz, encrypts    *)
(* and uploads it; later a restore (internal/restore/operation.go)          *)
(* downloads, decrypts, decompresses and extracts what the storage then     *)
(* holds, which may have been damaged meanwhile.                           *)
(*                                                                         *)
(* In both directions one stage of the pipeline runs the two tools: pigz is *)
(* started, tar is run to its end, then pigz is waited for.  A kernel pipe  *)
(* of bounded size joins the tools; the program holds its read end open     *)
(* until it has waited for the tool that writes to it, so the writer is not *)
(* told when the reader dies.  The other stages (encrypt and upload, or     *)
(* download and decrypt) are one worker here, the far end, joined to pigz   *)
(* by a stream that holds one item; module Pipeline has their own steps.    *)
(*                                                                         *)
(* What is archived is a tar file of Chunks chunks.  pigz makes of it one   *)
(* item per chunk and a trailer with their number and checksum.             *)
(***************************************************************************)
EXTENDS DatabaseDump, StreamCipher

CONSTANTS
    Chunks,       \* how long the tar file is
    PipeSize      \* how many chunks the kernel pipe holds

ASSUME PathAssumption ==
    /\ Chunks \in Nat \ {0}
    /\ PipeSize \in Nat \ {0}

VARIABLES
    enc,          \* an encryption key is configured
    deadline,     \* the backup is a scheduled job, whose context has a deadline
    command,      \* "backup", "restore" or "none"
    result,       \* per command: "none" before it has ended, "ok" or "error"
    stored,       \* the archive in the storage, or NoArchive
    original,     \* history: the items it was made of
    lost,         \* history: the lasting databases it does not have
    stage,        \* the stage that runs the tools: where it is
    tar, pigz,    \* "off", "run", "ok" or "failed"
    far,          \* the far end: "off", "run", "ok" or "error"
    fed, got,     \* the chunks written to and read from the kernel pipe
    hose,         \* the item in the stream between pigz and the far end
    hoseEnd,      \* that stream: open ("no"), at its "end" or broken off ("error")
    taken         \* the items the far end has taken from it or given to it

legVars == <<stage, tar, pigz, far, fed, got, hose, hoseEnd, taken>>
commandVars == <<enc, deadline, command, result, stored, original, lost>>
vars == <<dumpVars, done, faults, commandVars, legVars>>

Chunk(i) == [kind |-> "chunk", n |-> i]
Trailer(k) == [kind |-> "trailer", n |-> k]
NoItem == [kind |-> "none", n |-> 0]
Item == {Chunk(i) : i \in 1..Chunks} \cup {Trailer(k) : k \in 0..Chunks}

ASSUME GarbledAssumption == Garbled \notin [kind : {"chunk", "trailer", "none"}, n : Int]

NoArchive == [header |-> "none", frames |-> <<>>]

Ended == {"ok", "error"}

TypeOK ==
    /\ DumpTypeOK
    /\ enc \in BOOLEAN
    /\ deadline \in BOOLEAN
    /\ command \in {"none", "backup", "restore"}
    /\ result \in [{"backup", "restore"} -> Ended \cup {"none"}]
    /\ stored.header \in {"none", "good", "cut", "changed"}
    /\ \A i \in DOMAIN stored.frames : stored.frames[i].data \in Item \cup {Garbled}
    /\ \A i \in DOMAIN original : original[i] \in Item
    /\ lost \in SUBSET Databases
    /\ stage \in {"off", "tar", "pigz"} \cup Ended
    /\ {tar, pigz} \subseteq {"off", "run", "ok", "failed"}
    /\ far \in {"off", "run"} \cup Ended
    /\ got \in 0..Chunks /\ fed \in got..(got + PipeSize)
    /\ hose \in Item \cup {NoItem, Garbled}
    /\ hoseEnd \in {"no", "end", "error"}
    /\ Len(taken) <= Chunks + 1

Init ==
    /\ DumpInit
    /\ done = FALSE
    /\ faults = 0
    /\ enc \in BOOLEAN
    /\ deadline \in BOOLEAN
    /\ command = "none"
    /\ result = [c \in {"backup", "restore"} |-> "none"]
    /\ stored = NoArchive
    /\ original = <<>>
    /\ lost = {}
    /\ stage = "off" /\ tar = "off" /\ pigz = "off" /\ far = "off"
    /\ fed = 0 /\ got = 0
    /\ hose = NoItem /\ hoseEnd = "no"
    /\ taken = <<>>

----------------------------------------------------------------------------
(***************************************************************************)
(* The commands                                                            *)
(***************************************************************************)
StartBackup ==
    /\ command = "none" /\ result["backup"] = "none"
    /\ command' = "backup"
    /\ GoOn("start")
    /\ UNCHANGED <<method, secret, server, lasting, todo, dumped, tempdir, creds>>
    /\ UNCHANGED <<done, faults, enc, deadline, result, stored, original, lost, legVars>>

\* pigz and tar run, and the other stages; or pigz does not start.
StartTools ==
    /\ \/ ~done /\ tar' = "run" /\ pigz' = "run" /\ stage' = "tar" /\ UNCHANGED faults
       \/ Fails /\ tar' = "off" /\ pigz' = "off" /\ stage' = "error"
    /\ far' = "run"
    /\ fed' = 0 /\ got' = 0
    /\ hose' = NoItem
    /\ hoseEnd' = IF stage' = "error" /\ command' = "backup" THEN "error" ELSE "no"
    /\ taken' = <<>>

StartArchive ==
    /\ command = "backup" /\ dump = "ready" /\ stage = "off"
    /\ UNCHANGED commandVars
    /\ StartTools
    /\ UNCHANGED <<dumpVars, done>>

\* The restore is another process, some time later.
StartRestore ==
    /\ command = "none" /\ result["restore"] = "none"
    /\ stored # NoArchive
    /\ command' = "restore"
    /\ StartTools
    /\ UNCHANGED <<dumpVars, done, enc, deadline, result, stored, original, lost>>

\* The temporary directory is removed with what is in it.
RemoveTempdir ==
    /\ tempdir' = FALSE
    /\ dumped' = {} /\ todo' = {} /\ lasting' = {}
    /\ GoOn("off")
    /\ UNCHANGED <<method, secret, server, creds>>

\* Every stage has returned: Run answers, and its deferred call cleans up.
EndCommand ==
    /\ stage \in Ended /\ far \in Ended
    /\ result' = [result EXCEPT ![command] = IF stage = "ok" /\ far = "ok" THEN "ok" ELSE "error"]
    /\ command' = "none"
    /\ done' = FALSE
    /\ stage' = "off" /\ far' = "off"
    /\ RemoveTempdir
    /\ UNCHANGED faults
    /\ UNCHANGED <<enc, deadline, stored, original, lost, tar, pigz, fed, got, hose, hoseEnd, taken>>

\* The dump has failed: the same, with no stage run.
GiveUp ==
    /\ dump = "failed"
    /\ result' = [result EXCEPT !["backup"] = "error"]
    /\ command' = "none"
    /\ done' = FALSE
    /\ RemoveTempdir
    /\ UNCHANGED faults
    /\ UNCHANGED <<enc, deadline, stored, original, lost, legVars>>

----------------------------------------------------------------------------
(***************************************************************************)
(* The tools of a backup: tar | pigz | far end                             *)
(***************************************************************************)
Backing == command = "backup" /\ UNCHANGED <<dumpVars, done, faults, commandVars, stage>>

\* A wrong reader of the dump: one chunk too many.
TarReadsOn ==
    /\ tar = "run"
    /\ fed <= Chunks /\ fed - got < PipeSize
    /\ fed' = fed + 1
    /\ Backing /\ UNCHANGED <<tar, pigz, far, got, hose, hoseEnd, taken>>

TarReads ==
    /\ tar = "run"
    /\ fed < Chunks /\ fed - got < PipeSize
    /\ fed' = fed + 1
    /\ Backing /\ UNCHANGED <<tar, pigz, far, got, hose, hoseEnd, taken>>

TarFinishes ==
    /\ tar = "run" /\ fed = Chunks
    /\ tar' = "ok"
    /\ Backing /\ UNCHANGED <<pigz, far, fed, got, hose, hoseEnd, taken>>

PigzCompresses ==
    /\ pigz = "run" /\ got < fed
    /\ hose = NoItem /\ hoseEnd = "no"
    /\ got' = got + 1
    /\ hose' = Chunk(got + 1)
    /\ Backing /\ UNCHANGED <<tar, pigz, far, fed, hoseEnd, taken>>

\* The end of its input, wherever tar has stopped, makes a whole gzip file.
PigzFinishes ==
    /\ pigz = "run" /\ got = fed /\ tar # "run"
    /\ hose = NoItem /\ hoseEnd = "no"
    /\ hose' = Trailer(got)
    /\ pigz' = "ok"
    /\ Backing /\ UNCHANGED <<tar, far, fed, got, hoseEnd, taken>>

\* Nobody reads any more what pigz writes.
PigzBroken ==
    /\ pigz = "run" /\ hoseEnd = "error"
    /\ pigz' = "failed"
    /\ Backing /\ UNCHANGED <<tar, far, fed, got, hose, hoseEnd, taken>>

FarTakes ==
    /\ far = "run" /\ hose # NoItem /\ hoseEnd # "error"
    /\ taken' = Append(taken, hose)
    /\ hose' = NoItem
    /\ Backing /\ UNCHANGED <<tar, pigz, far, fed, got, hoseEnd>>

\* The stream is over: the object is there, and then the registry entry, or not.
Uploaded ==
    /\ command = "backup"
    /\ far = "run" /\ hose = NoItem /\ hoseEnd = "end"
    /\ stored' = Encrypt(taken)
    /\ original' = taken
    /\ lost' = lasting \ dumped
    /\ \/ far' = "ok" /\ UNCHANGED faults
       \/ far' = "error" /\ Fails
    /\ UNCHANGED <<dumpVars, done, enc, deadline, command, result>>
    /\ UNCHANGED <<stage, tar, pigz, fed, got, hose, hoseEnd, taken>>

----------------------------------------------------------------------------
(***************************************************************************)
(* The tools of a restore: far end | pigz -d | tar                         *)
(***************************************************************************)
Restoring == command = "restore" /\ UNCHANGED <<dumpVars, done, faults, commandVars, stage>>

\* What the far end gives on of the archive as it is stored now.
Delivered ==
    IF enc THEN Decrypted(stored) ELSE [i \in DOMAIN stored.frames |-> stored.frames[i].data]

FarGives ==
    /\ far = "run" /\ hose = NoItem /\ hoseEnd = "no"
    /\ Len(taken) < Len(Delivered)
    /\ hose' = Delivered[Len(taken) + 1]
    /\ taken' = Append(taken, hose')
    /\ Restoring /\ UNCHANGED <<tar, pigz, far, fed, got, hoseEnd>>

FarFinishes ==
    /\ far = "run" /\ hoseEnd = "no"
    /\ Len(taken) = Len(Delivered)
    /\ IF enc /\ DecryptFails(stored)
       THEN far' = "error" /\ hoseEnd' = "error"
       ELSE far' = "ok" /\ hoseEnd' = "end"
    /\ Restoring /\ UNCHANGED <<tar, pigz, fed, got, hose, taken>>

\* The next block of the gzip file.
PigzExpands ==
    /\ pigz = "run" /\ hose = Chunk(fed + 1)
    /\ fed - got < PipeSize
    /\ fed' = fed + 1
    /\ hose' = NoItem
    /\ Restoring /\ UNCHANGED <<tar, pigz, far, got, hoseEnd, taken>>

\* The trailer agrees with what came before it.
PigzAccepts ==
    /\ pigz = "run" /\ hose = Trailer(fed)
    /\ pigz' = "ok"
    /\ hose' = NoItem
    /\ Restoring /\ UNCHANGED <<tar, far, fed, got, hoseEnd, taken>>

\* Anything else is not a gzip file, nor is one that ends before its trailer.
PigzRejects ==
    /\ pigz = "run"
    /\ IF hose = NoItem THEN hoseEnd # "no" ELSE hose \notin {Chunk(fed + 1), Trailer(fed)}
    /\ pigz' = "failed"
    /\ hose' = NoItem
    /\ Restoring /\ UNCHANGED <<tar, far, fed, got, hoseEnd, taken>>

TarExtracts ==
    /\ tar = "run" /\ got < fed
    /\ got' = got + 1
    /\ Restoring /\ UNCHANGED <<tar, pigz, far, fed, hose, hoseEnd, taken>>

\* A tar file that stops early may or may not be seen to do so.
TarEnds ==
    /\ tar = "run" /\ got = fed /\ pigz # "run"
    /\ tar' \in {"ok"} \cup (IF got < Chunks THEN {"failed"} ELSE {})
    /\ Restoring /\ UNCHANGED <<pigz, far, fed, got, hose, hoseEnd, taken>>

----------------------------------------------------------------------------
(***************************************************************************)
(* compress and extract: tarCmd.Run, then pigzCmd.Wait                      *)
(***************************************************************************)
TarReturned ==
    /\ stage = "tar" /\ tar # "run"
    /\ stage' = "pigz"
    /\ UNCHANGED <<dumpVars, done, faults, commandVars>>
    /\ UNCHANGED <<tar, pigz, far, fed, got, hose, hoseEnd, taken>>

\* What copies between pigz and the stream has ended too.
CopyEnded ==
    IF command = "backup" THEN hose = NoItem \/ hoseEnd = "error"
                          ELSE hose # NoItem \/ hoseEnd # "no"

\* The stage returns r.  In a backup it writes the stream, and closes it accordingly.
StageReturns(r) ==
    /\ stage' = r
    /\ hoseEnd' = IF command = "backup" /\ hoseEnd = "no"
                 THEN (IF r = "ok" THEN "end" ELSE "error") ELSE hoseEnd
    /\ UNCHANGED <<dumpVars, done, faults, commandVars>>
    /\ UNCHANGED <<tar, pigz, far, fed, got, hose, taken>>

\* Two wrong returns: the error of one of the tools is dropped.
PigzReturnedOnly ==
    /\ stage = "pigz" /\ pigz # "run" /\ CopyEnded
    /\ StageReturns(IF pigz = "ok" /\ hoseEnd # "error" THEN "ok" ELSE "error")

TarReturnedOnly ==
    /\ stage = "pigz" /\ pigz # "run" /\ CopyEnded
    /\ StageReturns(IF tar = "ok" THEN "ok" ELSE "error")

\* errors.Join of both.
PigzReturned ==
    /\ stage = "pigz" /\ pigz # "run" /\ CopyEnded
    /\ StageReturns(IF tar = "ok" /\ pigz = "ok" /\ hoseEnd # "error" THEN "ok" ELSE "error")

----------------------------------------------------------------------------
(***************************************************************************)
(* Failures                                                                *)
(***************************************************************************)
\* The far end fails by itself or at the end of its context, or it finds the stream
\* broken off.  In a restore it writes the stream, and breaks it off.
FarFails ==
    /\ far = "run"
    /\ Fails \/ (hoseEnd = "error" /\ UNCHANGED faults)
    /\ far' = "error"
    /\ hoseEnd' = IF command = "restore" /\ hoseEnd = "no" THEN "error" ELSE hoseEnd
    /\ UNCHANGED <<dumpVars, done, commandVars, stage, tar, pigz, fed, got, hose, taken>>

\* A tool dies, or tar does not start, or its disk fails.
ToolDies ==
    /\ Fault
    /\ \/ tar = "run" /\ tar' = "failed" /\ UNCHANGED pigz
       \/ pigz = "run" /\ pigz' = "failed" /\ UNCHANGED tar
    /\ UNCHANGED <<dumpVars, done, commandVars, stage, far, fed, got, hose, hoseEnd, taken>>

\* The first stage that fails cancels the context of all.
PipelineCancels ==
    /\ stage = "error" \/ far = "error"
    /\ ~done
    /\ done' = TRUE
    /\ UNCHANGED <<dumpVars, faults, commandVars, legVars>>

\* A signal, or the deadline of a scheduled job.
ContextEnds ==
    /\ command # "none"
    /\ ~done
    /\ done' = TRUE
    /\ UNCHANGED <<dumpVars, faults, commandVars, legVars>>

\* A wrong compress: tar is started without the context.
KillTarInRestore ==
    /\ done /\ tar = "run"
    /\ command = "restore"
    /\ tar' = "failed"
    /\ UNCHANGED <<dumpVars, done, faults, commandVars, stage, pigz, far, fed, got, hose, hoseEnd, taken>>

\* At the end of the context the tools are killed and the pipes closed.
KillTar ==
    /\ done /\ tar = "run"
    /\ tar' = "failed"
    /\ UNCHANGED <<dumpVars, done, faults, commandVars, stage, pigz, far, fed, got, hose, hoseEnd, taken>>

KillPigz ==
    /\ done /\ pigz = "run"
    /\ pigz' = "failed"
    /\ UNCHANGED <<dumpVars, done, faults, commandVars, stage, tar, far, fed, got, hose, hoseEnd, taken>>

ClosePipes ==
    /\ done /\ stage # "off" /\ hoseEnd = "no"
    /\ hoseEnd' = "error"
    /\ UNCHANGED <<dumpVars, done, faults, commandVars, stage, tar, pigz, far, fed, got, hose, taken>>

\* The stored archive is damaged, once.
Damage ==
    /\ command = "none" /\ result["restore"] = "none"
    /\ stored # NoArchive /\ stored = Encrypt(original)
    /\ stored' \in IF enc THEN DamagedStreams(stored)
                          ELSE {[stored EXCEPT !.frames = fs] : fs \in Damaged(stored.frames)}
    /\ UNCHANGED <<dumpVars, done, faults, enc, deadline, command, result, original, lost, legVars>>

----------------------------------------------------------------------------
\* What a command does, unless something fails.
CommandStep ==
    \/ DumpStep /\ UNCHANGED <<commandVars, legVars>>
    \/ StartArchive \/ EndCommand \/ GiveUp
    \/ TarReads \/ TarFinishes \/ PigzCompresses \/ PigzFinishes \/ PigzBroken
    \/ FarTakes \/ Uploaded
    \/ FarGives \/ FarFinishes \/ PigzExpands \/ PigzAccepts \/ PigzRejects
    \/ TarExtracts \/ TarEnds
    \/ TarReturned \/ PigzReturned
    \/ FarFails \/ PipelineCancels \/ KillTar \/ KillPigz \/ ClosePipes

Next ==
    \/ StartBackup \/ StartRestore
    \/ CommandStep
    \/ ToolDies \/ ContextEnds \/ Damage
    \/ ServerChanges /\ UNCHANGED <<commandVars, legVars>>

Spec == Init /\ [][Next]_vars

\* A running command goes on, and the deadline of a scheduled job comes.
Fairness ==
    /\ WF_vars(CommandStep)
    /\ WF_vars(ContextEnds /\ deadline /\ command = "backup")

FairSpec == Spec /\ Fairness

----------------------------------------------------------------------------
\* encryption.go: whatever becomes of an encrypted archive, what Decrypt gives on
\* is a beginning of what was encrypted: no frame is lost, changed or out of place
\* between two others.
DecryptsAPrefix == enc => IsPrefix(Decrypted(stored), original)

\* A backup that succeeds has dumped every database that was there all the time,
\* and has stored the whole tar file of it, whichever of its tools and stages
\* failed, died or was cut off, in whatever order.
BackupIsWhole ==
    result["backup"] = "ok" =>
        /\ lost = {}
        /\ original = [i \in 1..(Chunks + 1) |-> IF i <= Chunks THEN Chunk(i) ELSE Trailer(Chunks)]

\* A restore that succeeds has extracted all that was archived, although Decrypt
\* does not notice the loss of the last frames: damage is never answered with "ok".
RestoredIsWhole ==
    result["restore"] = "ok" => got = Chunks /\ stored = Encrypt(original)

\* The credentials are gone before anything is archived, and no backup that has
\* ended, in whatever way, leaves the dump behind.
NothingLeftBehind ==
    /\ creds => dump = "tool"
    /\ tempdir => command = "backup"

\* One tool has died and the other has filled the pipe to it, which the program
\* holds open: nothing but the end of the context frees it.
Wedged ==
    /\ ~done
    /\ fed - got = PipeSize
    /\ \/ command = "backup" /\ ~deadline /\ tar = "run" /\ pigz = "failed"
       \/ command = "restore" /\ pigz = "run" /\ tar = "failed"

\* A command ends, but in that one case.
PathEnds ==
    \A c \in {"backup", "restore"} : command = c ~> command # c \/ Wedged
=============================================================================
