-------------------------- MODULE ArchivePathProofs --------------------------
(***************************************************************************)
(* For every length of the archive, any databases and any number of faults:*)
(* what decryption gives on of a damaged archive, what a backup leaves     *)
(* behind, what one that succeeds has stored, and what a restore that      *)
(* succeeds has extracted.                                                 *)
(*                                                                         *)
(* The inductive invariants, in this order:                                *)
(*   PathInv          what is stored consists of frames of one stream      *)
(*   Order            a dump and credentials are there only while they are *)
(*                    needed                                               *)
(*   Listed, Backed, Results                                               *)
(*                    what a backup has dumped, read and stored so far     *)
(*   Archived, Restored                                                    *)
(*                    what a restore has been given and expanded so far    *)
(*   ControlTyped, FlowTyped, TakenBounded                                 *)
(*                    the types, and that no pipe holds too much           *)
(***************************************************************************)
EXTENDS ArchivePath, SequenceTheorems, WellFoundedInduction, TLAPS

\* What the stages pass on, whatever the lengths.
Content == [kind : {"chunk", "trailer"}, n : Int] \cup {Garbled}

\* A frame of the stream that was made of s, at any place, or a garbled one.
Frames(s) == {Seal(i, s[i]) : i \in DOMAIN s} \cup [idx : Int, data : {Garbled}]

Streams(s) == [header : {"none", "good", "cut", "changed"}, frames : Seq(Frames(s))]

\* The inductive invariant: the archive in the storage consists of frames of the
\* stream it was made of, however damaged, and what flows has its type.
Flow == /\ fed \in Int /\ got \in Int
        /\ hose \in Content \cup {NoItem}
        /\ taken \in Seq(Content)

Sealed == original \in Seq(Content) /\ stored \in Streams(original)

PathInv == Flow /\ Sealed

----------------------------------------------------------------------------
\* A set of naturals that is not empty has a smallest member.
LEMMA Smallest ==
    ASSUME NEW T \in SUBSET Nat, T # {}
    PROVE  \E m \in T : \A k \in T : ~(k < m)
<1> DEFINE R == OpToRel(<, Nat)
<1>1. IsWellFoundedOn(R, Nat)
  BY NatLessThanWellFounded
<1>2. \E m \in T : \A k \in T : <<k, m>> \notin R
  <2> HIDE DEF R
  <2> QED BY <1>1, WFMin
<1>3. \A k, m \in T : k < m => <<k, m>> \in R
  BY DEF OpToRel
<1> QED
  BY <1>2, <1>3

\* The loop of decryptStream: it opens the frames up to some place in the stream.
LEMMA OpenedAll ==
    ASSUME NEW c, Len(c.frames) \in Nat
    PROVE  /\ Opened(c) \in 0..Len(c.frames)
           /\ \A i \in 1..Opened(c) : Opens(c.header, c.frames[i], i)
<1> DEFINE O(i) == Opens(c.header, c.frames[i], i)
           N == Len(c.frames)
           S == {n \in 0..N : \A i \in 1..n : O(i)}
           T == {i \in 1..N : ~O(i)}
<1>1. \E n \in S : \A k \in S : n >= k
  <2> HIDE DEF O
  <2>1. CASE T = {}
    <3>1. N \in S /\ \A k \in S : N >= k
      BY <2>1
    <3> QED BY <3>1
  <2>2. CASE T # {}
    <3>0. T \in SUBSET Nat
      OBVIOUS
    <3>1. PICK m \in T : \A k \in T : ~(k < m)
      <4> HIDE DEF T
      <4> QED BY <2>2, <3>0, Smallest
    <3>2. m - 1 \in S /\ \A k \in S : m - 1 >= k
      BY <3>1
    <3> QED BY <3>2
  <2> QED BY <2>1, <2>2
<1>2. Max(S) \in S
  BY <1>1 DEF Max
<1>3. Opened(c) = Max(S)
  BY DEF Opened
<1> QED
  BY <1>2, <1>3

\* A frame that opens at place i is frame i of the stream it was made of.
LEMMA OpenedFrame ==
    ASSUME NEW s \in Seq(Content), NEW c \in Streams(s), NEW i \in 1..Opened(c)
    PROVE  i \in 1..Len(s) /\ c.frames[i].data = s[i]
<1>1. c.frames \in Seq(Frames(s)) /\ Len(c.frames) \in Nat
  BY LenProperties DEF Streams
<1>2. i \in 1..Len(c.frames) /\ Opens(c.header, c.frames[i], i)
  BY <1>1, OpenedAll
<1>3. c.frames[i] \in Frames(s)
  BY <1>1, <1>2, ElementOfSeq
<1>4. c.frames[i].idx = i /\ c.frames[i].data # Garbled
  BY <1>2 DEF Opens
<1>5. PICK j \in DOMAIN s : c.frames[i] = Seal(j, s[j])
  BY <1>3, <1>4 DEF Frames
<1>6. DOMAIN s = 1..Len(s)
  BY LenProperties
<1> QED
  BY <1>4, <1>5, <1>6 DEF Seal

\* Decrypt on any stream of frames of s, of whatever order and number.
LEMMA DecryptedIsPrefix ==
    ASSUME NEW s \in Seq(Content), NEW c \in Streams(s)
    PROVE  Decrypted(c) \in Seq(Content) /\ IsPrefix(Decrypted(c), s)
<1> DEFINE n == Opened(c)
<1>1. n \in Nat
  BY OpenedAll, LenProperties DEF Streams
<1>2. \A i \in 1..n : i \in 1..Len(s) /\ c.frames[i].data = s[i]
  BY OpenedFrame
<1>3. Len(s) \in Nat /\ \A i \in 1..Len(s) : s[i] \in Content
  BY LenProperties, ElementOfSeq
<1>4. Decrypted(c) = [i \in 1..n |-> s[i]]
  BY <1>2 DEF Decrypted
<1>5. n <= Len(s)
  <2>1. n = 0 \/ n \in 1..n
    BY <1>1
  <2> QED BY <2>1, <1>2, <1>3
<1> HIDE DEF n
<1>6. Decrypted(c) \in Seq(Content) /\ Len(Decrypted(c)) = n
  BY <1>1, <1>2, <1>3, <1>4
<1>7. SubSeq(Decrypted(c), 1, n) = SubSeq(s, 1, n)
  BY <1>1, <1>3, <1>4, <1>5, <1>6
<1> QED
  BY <1>5, <1>6, <1>7 DEF IsPrefix

\* No damage brings in a frame of another stream.
LEMMA DamagedFrames ==
    ASSUME NEW s \in Seq(Content), NEW fs \in Seq(Frames(s)), NEW gs \in Damaged(fs)
    PROVE  gs \in Seq(Frames(s))
<1> DEFINE F == Frames(s)
<1>1. fs \in Seq(F) /\ Len(fs) \in Nat /\ \A i \in 1..Len(fs) : fs[i] \in F
  BY LenProperties, ElementOfSeq
<1>2. \A f \in F : f.idx \in Int => [idx |-> f.idx, data |-> Garbled] \in F
  BY DEF Frames
<1>3. \A f \in F : f.idx \in Int
  <2>1. DOMAIN s \subseteq Int
    BY LenProperties
  <2> QED BY <2>1 DEF Frames, Seal
<1> HIDE DEF F
<1>4. \A hs \in Seq(F) : \A i \in 1..Len(hs) : Garble(hs, i) \in Seq(F)
  <2> SUFFICES ASSUME NEW hs \in Seq(F), NEW i \in 1..Len(hs) PROVE Garble(hs, i) \in Seq(F)
    OBVIOUS
  <2>1. hs[i] \in F
    BY ElementOfSeq
  <2>2. [idx |-> hs[i].idx, data |-> Garbled] \in F
    BY <1>2, <1>3, <2>1
  <2> QED
    BY <2>2, ExceptSeq DEF Garble
<1>5. \A n \in 0..Len(fs) : SubSeq(fs, 1, n) \in Seq(F) /\ Len(SubSeq(fs, 1, n)) = n
  BY <1>1, SubSeqProperties
<1>6. \A i \in 1..Len(fs) : RemoveAt(fs, i) \in Seq(F)
  BY <1>1, SubSeqProperties, ConcatProperties DEF RemoveAt
<1>7. \A i, j \in 1..Len(fs) : Swap(fs, i, j) \in Seq(F)
  BY <1>1, ExceptSeq DEF Swap
<1>8. \/ \E n \in 0..(Len(fs) - 1) : gs = SubSeq(fs, 1, n)
      \/ \E n \in 1..Len(fs) : gs = Garble(SubSeq(fs, 1, n), n)
      \/ \E i \in 1..Len(fs) : gs = Garble(fs, i)
      \/ \E i \in 1..Len(fs) : gs = RemoveAt(fs, i)
      \/ \E i, j \in 1..Len(fs) : gs = Swap(fs, i, j)
  BY DEF Damaged
<1>9. gs \in Seq(F)
  <2>1. CASE \E n \in 0..(Len(fs) - 1) : gs = SubSeq(fs, 1, n)
    BY <2>1, <1>1, <1>5
  <2>2. CASE \E n \in 1..Len(fs) : gs = Garble(SubSeq(fs, 1, n), n)
    <3>1. PICK n \in 1..Len(fs) : gs = Garble(SubSeq(fs, 1, n), n)
      BY <2>2
    <3>2. SubSeq(fs, 1, n) \in Seq(F) /\ n \in 1..Len(SubSeq(fs, 1, n))
      BY <1>1, <1>5
    <3> QED
      BY <3>1, <3>2, <1>4
  <2>3. CASE \E i \in 1..Len(fs) : gs = Garble(fs, i)
    BY <2>3, <1>1, <1>4
  <2> QED
    BY <2>1, <2>2, <2>3, <1>6, <1>7, <1>8
<1> QED
  BY <1>9 DEF F

----------------------------------------------------------------------------
\* At first there is no archive, and nothing flows.
LEMMA PathInit == Init => PathInv
<1> SUFFICES ASSUME Init PROVE PathInv
  OBVIOUS
<1>1. <<>> \in Seq(Content) /\ <<>> \in Seq(Frames(original))
  BY EmptySeq
<1> QED
  BY <1>1 DEF Init, NoArchive, NoItem, PathInv, Flow, Sealed, Content, Streams

\* What the far end of a restore gives on.
LEMMA DeliveredContent ==
    ASSUME Sealed
    PROVE  /\ Len(Delivered) \in Nat
           /\ \A i \in 1..Len(Delivered) : Delivered[i] \in Content
<1>1. Decrypted(stored) \in Seq(Content)
  BY DecryptedIsPrefix DEF Sealed
<1>2. [i \in DOMAIN stored.frames |-> stored.frames[i].data] \in Seq(Content)
  <2>1. /\ stored.frames \in Seq(Frames(original))
        /\ Len(stored.frames) \in Nat
        /\ DOMAIN stored.frames = 1..Len(stored.frames)
    BY LenProperties DEF Sealed, Streams
  <2>2. \A i \in 1..Len(stored.frames) : stored.frames[i] \in Frames(original)
    BY <2>1, ElementOfSeq
  <2>3. \A i \in DOMAIN original : original[i] \in Content
    BY LenProperties, ElementOfSeq DEF Sealed
  <2>4. \A f \in Frames(original) : f.data \in Content
    BY <2>3 DEF Frames, Seal, Content
  <2> QED
    BY <2>1, <2>2, <2>4
<1>3. Delivered \in Seq(Content)
  BY <1>1, <1>2 DEF Delivered
<1> QED
  BY <1>3, LenProperties, ElementOfSeq

\* Encrypt makes a stream of frames of its own.
LEMMA EncryptedStream ==
    ASSUME NEW s \in Seq(Content)
    PROVE  Encrypt(s) \in Streams(s)
<1>1. DOMAIN s = 1..Len(s) /\ Len(s) \in Nat
  BY LenProperties
<1>2. [i \in DOMAIN s |-> Seal(i, s[i])] \in Seq(Frames(s))
  BY <1>1 DEF Frames
<1> QED
  BY <1>2 DEF Encrypt, Streams

\* The damage of the storage keeps the frames.
LEMMA DamageKeeps ==
    ASSUME Sealed, Damage
    PROVE  Sealed'
<1>1. original' = original /\ original \in Seq(Content) /\ stored \in Streams(original)
  BY DEF Sealed, Damage
<1>2. \A fs \in Damaged(stored.frames) : fs \in Seq(Frames(original))
  BY <1>1, DamagedFrames DEF Streams
<1>3. <<>> \in Seq(Frames(original))
  BY EmptySeq
<1>4. DamagedStreams(stored) \subseteq Streams(original)
  <2>1. [header : {stored.header}, frames : Damaged(stored.frames)] \subseteq Streams(original)
    BY <1>1, <1>2 DEF Streams
  <2>2. [header |-> "cut", frames |-> <<>>] \in Streams(original)
    BY <1>3 DEF Streams
  <2>3. [stored EXCEPT !.header = "changed"] \in Streams(original)
    BY <1>1 DEF Streams
  <2> QED
    BY <2>1, <2>2, <2>3 DEF DamagedStreams
<1>5. \A fs \in Damaged(stored.frames) : [stored EXCEPT !.frames = fs] \in Streams(original)
  BY <1>1, <1>2 DEF Streams
<1>6. stored' \in Streams(original)
  BY <1>4, <1>5 DEF Damage
<1> QED
  BY <1>1, <1>6 DEF Sealed

\* What a worker takes is what was in the stream.
LEMMA TakenGrows ==
    ASSUME NEW x \in Content, taken \in Seq(Content)
    PROVE  Append(taken, x) \in Seq(Content)
BY AppendProperties

\* What is stored is always a stream of frames of what was uploaded, damaged or not
\* (encryption.go: the sealed chunks), and what the stages pass on has its type.
THEOREM PathInvariant == Spec => []PathInv
<1>1. Init => PathInv
  BY PathInit
<1>2. PathInv /\ [Next]_vars => PathInv'
  <2> SUFFICES ASSUME PathInv, [Next]_vars PROVE PathInv'
    OBVIOUS
  <2> USE DEF PathInv
  <2>1. CASE StartArchive
    BY <2>1, EmptySeq DEF StartArchive, StartTools, Flow, Sealed, Content, NoItem, commandVars
  <2>2. CASE StartRestore
    BY <2>2, EmptySeq DEF StartRestore, StartTools, Flow, Sealed, Content, NoItem
  <2>3. CASE TarReads \/ PigzExpands \/ TarExtracts
    BY <2>3 DEF TarReads, PigzExpands, TarExtracts, Backing, Restoring, Flow, Sealed, Content, NoItem, commandVars
  <2>4. CASE PigzCompresses \/ PigzFinishes
    BY <2>4 DEF PigzCompresses, PigzFinishes, Backing, Flow, Sealed, Content, Chunk, Trailer, commandVars
  <2>5. CASE PigzAccepts \/ PigzRejects
    BY <2>5 DEF PigzAccepts, PigzRejects, Restoring, Flow, Sealed, Content, NoItem, commandVars
  <2>6. CASE FarTakes
    BY <2>6, TakenGrows DEF FarTakes, Backing, Flow, Sealed, Content, NoItem, commandVars
  <2>7. CASE Uploaded
    BY <2>7, EncryptedStream DEF Uploaded, Flow, Sealed
  <2>8. CASE FarGives
    <3>1. Len(taken) \in Nat
      BY LenProperties DEF Flow
    <3>2. hose' \in Content
      BY <2>8, <3>1, DeliveredContent DEF FarGives
    <3>3. taken' \in Seq(Content)
      BY <2>8, <3>2, TakenGrows DEF FarGives, Flow
    <3> QED
      BY <2>8, <3>2, <3>3 DEF FarGives, Restoring, Flow, Sealed, commandVars
  <2>9. CASE Damage
    BY <2>9, DamageKeeps DEF Damage, Flow, legVars
  <2>10. CASE UNCHANGED <<fed, got, hose, taken, original, stored>>
    BY <2>10 DEF Flow, Sealed
  <2>11. DumpStep /\ UNCHANGED <<commandVars, legVars>> => UNCHANGED <<fed, got, hose, taken, original, stored>>
    BY DEF commandVars, legVars
  <2>12. StartBackup \/ EndCommand \/ GiveUp => UNCHANGED <<fed, got, hose, taken, original, stored>>
    BY DEF StartBackup, EndCommand, GiveUp, legVars
  <2>13. TarFinishes \/ PigzBroken \/ FarFinishes \/ TarEnds
           => UNCHANGED <<fed, got, hose, taken, original, stored>>
    BY DEF TarFinishes, PigzBroken, FarFinishes, TarEnds, Backing, Restoring, commandVars
  <2>14. TarReturned \/ PigzReturned => UNCHANGED <<fed, got, hose, taken, original, stored>>
    BY DEF TarReturned, PigzReturned, StageReturns, commandVars
  <2>15. FarFails \/ ToolDies \/ PipelineCancels \/ ContextEnds \/ KillTar \/ KillPigz \/ ClosePipes
           => UNCHANGED <<fed, got, hose, taken, original, stored>>
    BY DEF FarFails, ToolDies, PipelineCancels, ContextEnds, KillTar, KillPigz, ClosePipes, commandVars, legVars
  <2>16. UNCHANGED vars => UNCHANGED <<fed, got, hose, taken, original, stored>>
    BY DEF vars, commandVars, legVars
  <2>17. ServerChanges /\ UNCHANGED <<commandVars, legVars>>
           => UNCHANGED <<fed, got, hose, taken, original, stored>>
    BY DEF commandVars, legVars
  <2> QED
    BY <2>1, <2>2, <2>3, <2>4, <2>5, <2>6, <2>7, <2>8, <2>9, <2>10, <2>11, <2>12, <2>13, <2>14,
       <2>15, <2>16, <2>17 DEF Next, CommandStep
<1> QED
  BY <1>1, <1>2, PTL DEF Spec

\* Whatever is done to an encrypted archive of any length, Decrypt gives on a
\* beginning of what was encrypted (encryption.go: the number of a frame is part of
\* its nonce, the salt its additional data).
THEOREM DecryptionIsPrefix == Spec => []DecryptsAPrefix
<1>1. PathInv => DecryptsAPrefix
  BY DecryptedIsPrefix DEF PathInv, Sealed, DecryptsAPrefix
<1> QED
  BY <1>1, PathInvariant, PTL
----------------------------------------------------------------------------
(***************************************************************************)
(* The order of a command: the dump first, then the tools.                 *)
(***************************************************************************)
Order == /\ dump # "off" => command = "backup"
         /\ stage # "off" => command # "none"
         /\ command = "backup" /\ stage # "off" => dump = "ready"
         /\ tempdir => command = "backup"
         /\ creds => dump = "tool"
         /\ far = "run" => stage # "off"

\* Steps of the tools and of the storage, which leave the dump and the commands.
Elsewhere == /\ UNCHANGED <<dumpVars, command, stage>>
             /\ far' = "run" => far = "run"

\* The tools, the far end and the failures move neither the dump nor the command.
LEMMA ElsewhereSteps ==
    ASSUME \/ TarReads \/ TarFinishes \/ PigzCompresses \/ PigzFinishes \/ PigzBroken
           \/ FarTakes \/ Uploaded
           \/ FarGives \/ FarFinishes \/ PigzExpands \/ PigzAccepts \/ PigzRejects
           \/ TarExtracts \/ TarEnds
           \/ FarFails \/ ToolDies \/ PipelineCancels \/ ContextEnds
           \/ KillTar \/ KillPigz \/ ClosePipes \/ Damage
           \/ UNCHANGED vars
    PROVE  Elsewhere
<1> USE DEF Elsewhere, dumpVars, commandVars, legVars
<1>1. TarReads \/ TarFinishes \/ PigzCompresses \/ PigzFinishes \/ PigzBroken \/ FarTakes => Elsewhere
  BY DEF TarReads, TarFinishes, PigzCompresses, PigzFinishes, PigzBroken, FarTakes, Backing
<1>2. FarGives \/ FarFinishes \/ PigzExpands \/ PigzAccepts \/ PigzRejects \/ TarExtracts \/ TarEnds
        => Elsewhere
  BY DEF FarGives, FarFinishes, PigzExpands, PigzAccepts, PigzRejects, TarExtracts, TarEnds, Restoring
<1>3. Uploaded \/ FarFails \/ ToolDies \/ PipelineCancels \/ ContextEnds => Elsewhere
  BY DEF Uploaded, FarFails, ToolDies, PipelineCancels, ContextEnds
<1>4. KillTar \/ KillPigz \/ ClosePipes \/ Damage \/ UNCHANGED vars => Elsewhere
  BY DEF KillTar, KillPigz, ClosePipes, Damage, vars
<1> QED
  BY <1>1, <1>2, <1>3, <1>4

\* A command archives only what its dump has finished, and the other end of the
\* pipeline runs only while the tools' stage does (operation.go: Run).
THEOREM OrderHolds == Spec => []Order
<1>1. Init => Order
  BY DEF Init, DumpInit, Order
<1>2. Order /\ [Next]_vars => Order'
  <2> SUFFICES ASSUME Order, [Next]_vars PROVE Order'
    OBVIOUS
  <2> USE DEF Order
  <2>1. CASE DumpStep /\ UNCHANGED <<commandVars, legVars>>
    <3> USE <2>1 DEF commandVars, legVars, GoOn
    <3>1. MakeTempdir => Order'
      BY DEF MakeTempdir
    <3>2. WriteCredentials \/ ToolSucceeds => Order'
      BY DEF WriteCredentials, ToolSucceeds
    <3>3. ListDatabases \/ DumpDatabase \/ AllDumped \/ Prepare => Order'
      BY DEF ListDatabases, DumpDatabase, AllDumped, Prepare
    <3>4. OperationFails \/ ToolFails \/ LogicalFails => Order'
      BY DEF OperationFails, ToolFails, LogicalFails
    <3> QED
      BY <2>1, <3>1, <3>2, <3>3, <3>4 DEF DumpStep
  <2>2. CASE StartBackup
    BY <2>2 DEF StartBackup, GoOn, legVars
  <2>3. CASE StartArchive
    BY <2>3 DEF StartArchive, StartTools, dumpVars, commandVars
  <2>4. CASE StartRestore
    BY <2>4 DEF StartRestore, StartTools, dumpVars
  <2>5. CASE EndCommand \/ GiveUp
    BY <2>5 DEF EndCommand, GiveUp, RemoveTempdir, GoOn, legVars, Ended
  <2>6. CASE TarReturned \/ PigzReturned
    BY <2>6 DEF TarReturned, PigzReturned, StageReturns, dumpVars, commandVars
  <2>7. CASE Elsewhere
    BY <2>7 DEF Elsewhere, dumpVars
  <2>8. CASE ServerChanges /\ UNCHANGED <<commandVars, legVars>>
    BY <2>8 DEF ServerChanges, commandVars, legVars
  <2> QED
    BY <2>1, <2>2, <2>3, <2>4, <2>5, <2>6, <2>7, <2>8, ElsewhereSteps DEF Next, CommandStep
<1> QED
  BY <1>1, <1>2, PTL DEF Spec

\* No backup leaves its dump behind, nor its credentials, wherever it fails
\* (operation.go and mongodb.go: the deferred removals).
THEOREM NothingStays == Spec => []NothingLeftBehind
<1>1. Order => NothingLeftBehind
  BY DEF Order, NothingLeftBehind
<1> QED
  BY <1>1, OrderHolds, PTL

----------------------------------------------------------------------------
(***************************************************************************)
(* A successful backup: nothing that lasted is missing from the dump, and   *)
(* the far end stores all that tar has read.                               *)
(***************************************************************************)
Listed == /\ dump \in {"tool", "list"} => lasting \subseteq server
          /\ dump = "each" => lasting \subseteq dumped \cup todo
          /\ dump \in {"prepare", "ready"} => lasting \subseteq dumped

\* What pigz makes of the first k chunks, before the trailer and with it.
Blocks(k) == [i \in 1..k |-> Chunk(i)]
Gzip(k) == [i \in 1..(k + 1) |-> IF i <= k THEN Chunk(i) ELSE Trailer(k)]
Whole == Gzip(Chunks)

\* What pigz has written, taken by the far end or not yet.
Written == IF hose = NoItem THEN taken ELSE Append(taken, hose)

Backed ==
    command = "backup" /\ stage # "off" =>
        /\ fed \in 0..Chunks /\ got \in 0..fed
        /\ tar = "ok" => fed = Chunks
        /\ pigz = "ok" => got = fed /\ tar # "run"
        /\ Written = IF pigz = "ok" THEN Gzip(got) ELSE Blocks(got)
        /\ stage = "ok" => tar = "ok" /\ pigz = "ok"
        /\ hoseEnd = "end" => stage = "ok"
        /\ far = "ok" => original = Whole /\ lost = {}

Results ==
    /\ command \in {"none", "backup", "restore"}
    /\ result \in [{"backup", "restore"} -> {"none", "ok", "error"}]
    /\ command # "none" => result[command] = "none"
    /\ command # "backup" /\ stored # NoArchive => result["backup"] # "none"
    /\ stored # NoArchive => original = Whole
    /\ result["backup"] = "ok" => original = Whole /\ lost = {}

\* Whatever has lasted is dumped, or is still on the list, or on the server that
\* the tool reads (logical.go: dumpAll).
THEOREM ListedHolds == Spec => []Listed
<1>1. Init => Listed
  BY DEF Init, DumpInit, Listed
<1>2. Order /\ Listed /\ [Next]_vars => Listed'
  <2> SUFFICES ASSUME Order, Listed, [Next]_vars PROVE Listed'
    OBVIOUS
  <2> USE DEF Listed
  <2>1. CASE DumpStep /\ UNCHANGED <<commandVars, legVars>>
    <3> USE DEF GoOn
    <3>1. MakeTempdir => Listed'
      BY DEF MakeTempdir
    <3>2. WriteCredentials \/ ToolSucceeds => Listed'
      BY DEF WriteCredentials, ToolSucceeds
    <3>3. ListDatabases \/ DumpDatabase => Listed'
      BY DEF ListDatabases, DumpDatabase
    <3>4. AllDumped \/ Prepare => Listed'
      BY DEF AllDumped, Prepare
    <3>5. OperationFails \/ ToolFails \/ LogicalFails => Listed'
      BY DEF OperationFails, ToolFails, LogicalFails
    <3> QED
      BY <2>1, <3>1, <3>2, <3>3, <3>4, <3>5 DEF DumpStep
  <2>2. CASE StartBackup
    BY <2>2 DEF StartBackup, GoOn
  <2>3. CASE StartArchive \/ StartRestore \/ TarReturned \/ PigzReturned
    BY <2>3 DEF StartArchive, StartRestore, TarReturned, PigzReturned, StageReturns, dumpVars
  <2>4. CASE EndCommand \/ GiveUp
    BY <2>4 DEF EndCommand, GiveUp, RemoveTempdir, GoOn
  <2>5. CASE Elsewhere
    BY <2>5 DEF Elsewhere, dumpVars
  <2>6. CASE ServerChanges
    BY <2>6 DEF ServerChanges
  <2> QED
    BY <2>1, <2>2, <2>3, <2>4, <2>5, <2>6, ElsewhereSteps DEF Next, CommandStep
<1> QED
  BY <1>1, <1>2, OrderHolds, PTL DEF Spec

\* pigz writes one item per chunk, and at last the trailer.
LEMMA GzipGrows ==
    ASSUME NEW k \in Nat
    PROVE  /\ Blocks(0) = <<>>
           /\ Append(Blocks(k), Chunk(k + 1)) = Blocks(k + 1)
           /\ Append(Blocks(k), Trailer(k)) = Gzip(k)
<1>1. Blocks(k) \in Seq(Content) /\ Len(Blocks(k)) = k /\ \A i \in 1..k : Blocks(k)[i] = Chunk(i)
  BY DEF Blocks, Chunk, Content
<1>2. Chunk(k + 1) \in Content /\ Trailer(k) \in Content
  BY DEF Chunk, Trailer, Content
<1>3. Append(Blocks(k), Chunk(k + 1)) = Blocks(k + 1)
  <2>1. /\ Blocks(k + 1) \in Seq(Content) /\ Len(Blocks(k + 1)) = k + 1
        /\ \A i \in 1..(k + 1) : Blocks(k + 1)[i] = Chunk(i)
    BY DEF Blocks, Chunk, Content
  <2> QED
    BY <1>1, <1>2, <2>1, AppendProperties, SeqEqual
<1>4. Append(Blocks(k), Trailer(k)) = Gzip(k)
  <2>1. /\ Gzip(k) \in Seq(Content) /\ Len(Gzip(k)) = k + 1
        /\ \A i \in 1..(k + 1) : Gzip(k)[i] = IF i <= k THEN Chunk(i) ELSE Trailer(k)
    BY DEF Gzip, Chunk, Trailer, Content
  <2> QED
    BY <1>1, <1>2, <2>1, AppendProperties, SeqEqual
<1>5. Blocks(0) = <<>>
  BY DEF Blocks
<1> QED
  BY <1>3, <1>4, <1>5

\* Every step keeps what a running backup has written equal to what tar has read.
LEMMA BackedStep ==
    ASSUME PathInv, Order, Listed, Backed, Results, [Next]_vars
    PROVE  Backed'
<1> DEFINE Frame == UNCHANGED <<command, original, lost, legVars>>
<1> USE DEF Backed, Written
<1>1. CASE Frame
  BY <1>1 DEF legVars
<1>2. (DumpStep \/ ServerChanges) /\ UNCHANGED <<commandVars, legVars>> => Frame
  BY DEF commandVars
<1>3. PipelineCancels \/ ContextEnds \/ UNCHANGED vars => Frame
  BY DEF PipelineCancels, ContextEnds, vars, commandVars
<1>4. CASE command' # "backup"
  BY <1>4
<1>5. StartRestore \/ EndCommand \/ GiveUp \/ Damage => command' # "backup"
  BY DEF StartRestore, EndCommand, GiveUp, Damage
<1>6. FarGives \/ FarFinishes \/ PigzExpands \/ PigzAccepts \/ PigzRejects \/ TarExtracts \/ TarEnds
        => command' # "backup"
  BY DEF FarGives, FarFinishes, PigzExpands, PigzAccepts, PigzRejects, TarExtracts, TarEnds,
         Restoring, commandVars
<1>7. CASE StartBackup
  BY <1>7 DEF StartBackup, Order, legVars
<1>8. CASE StartArchive
  BY <1>8, GzipGrows, PathAssumption DEF StartArchive, StartTools, commandVars
<1>9. CASE TarReads \/ TarFinishes
  BY <1>9, PathAssumption DEF TarReads, TarFinishes, Backing, commandVars
<1>10. CASE PigzCompresses
  <2> SUFFICES ASSUME stage # "off" PROVE Backed'
    BY <1>10 DEF PigzCompresses, Backing
  <2>1. got \in Nat /\ hose = NoItem /\ pigz = "run" /\ hose' = Chunk(got + 1) /\ got' = got + 1
    BY <1>10, PathAssumption DEF PigzCompresses, Backing
  <2>2. Chunk(got + 1) # NoItem
    BY DEF Chunk, NoItem
  <2>3. Written' = Append(Blocks(got), Chunk(got + 1)) /\ pigz' = "run"
    BY <1>10, <2>1, <2>2 DEF PigzCompresses, Backing
  <2>4. Written' = Blocks(got')
    BY <2>1, <2>3, GzipGrows
  <2>5. got' \in 0..fed' /\ fed' \in 0..Chunks
    BY <1>10, <2>1 DEF PigzCompresses, Backing
  <2> HIDE DEF Written
  <2> QED
    BY <1>10, <2>3, <2>4, <2>5 DEF PigzCompresses, Backing, commandVars
<1>11. CASE PigzFinishes
  BY <1>11, GzipGrows DEF PigzFinishes, Backing, commandVars, Trailer, NoItem
<1>12. CASE PigzBroken
  BY <1>12 DEF PigzBroken, Backing, commandVars
<1>13. CASE FarTakes
  BY <1>13 DEF FarTakes, Backing, commandVars
<1>14. CASE Uploaded
  BY <1>14 DEF Uploaded, Order, Listed, Whole
<1>15. CASE TarReturned \/ PigzReturned
  BY <1>15 DEF TarReturned, PigzReturned, StageReturns, commandVars
<1>16. CASE FarFails \/ ToolDies \/ KillTar \/ KillPigz \/ ClosePipes
  BY <1>16 DEF FarFails, ToolDies, KillTar, KillPigz, ClosePipes, commandVars
<1> QED
  BY <1>1, <1>2, <1>3, <1>4, <1>5, <1>6, <1>7, <1>8, <1>9, <1>10, <1>11, <1>12, <1>13, <1>14,
     <1>15, <1>16 DEF Next, CommandStep

\* A result is given once, and the archive of a backup that answered "ok" is whole.
LEMMA ResultsStep ==
    ASSUME PathInv, Order, Listed, Backed, Results, [Next]_vars
    PROVE  Results'
<1> USE DEF Results
<1>1. CASE UNCHANGED commandVars
  BY <1>1 DEF commandVars
<1>2. CASE StartBackup
  BY <1>2 DEF StartBackup
<1>3. CASE StartRestore
  BY <1>3 DEF StartRestore
<1>4. CASE EndCommand
  BY <1>4 DEF EndCommand, Backed, Order, Ended
<1>5. CASE GiveUp
  BY <1>5 DEF GiveUp, Order
<1>6. CASE Uploaded
  <2>1. stage = "ok" /\ hose = NoItem /\ stored' # NoArchive => original' = Whole
    BY <1>6 DEF Uploaded, Order, Backed, Written, Whole
  <2>2. stage = "ok" /\ hose = NoItem
    BY <1>6 DEF Uploaded, Order, Backed
  <2> QED
    BY <1>6, <2>1, <2>2 DEF Uploaded
<1>7. CASE Damage
  BY <1>7 DEF Damage
<1>8. StartArchive \/ TarReturned \/ PigzReturned \/ UNCHANGED vars => UNCHANGED commandVars
  BY DEF StartArchive, TarReturned, PigzReturned, StageReturns, vars
<1>9. TarReads \/ TarFinishes \/ PigzCompresses \/ PigzFinishes \/ PigzBroken \/ FarTakes
        => UNCHANGED commandVars
  BY DEF TarReads, TarFinishes, PigzCompresses, PigzFinishes, PigzBroken, FarTakes, Backing
<1>10. FarGives \/ FarFinishes \/ PigzExpands \/ PigzAccepts \/ PigzRejects \/ TarExtracts \/ TarEnds
        => UNCHANGED commandVars
  BY DEF FarGives, FarFinishes, PigzExpands, PigzAccepts, PigzRejects, TarExtracts, TarEnds, Restoring
<1>11. FarFails \/ ToolDies \/ PipelineCancels \/ ContextEnds \/ KillTar \/ KillPigz \/ ClosePipes
        => UNCHANGED commandVars
  BY DEF FarFails, ToolDies, PipelineCancels, ContextEnds, KillTar, KillPigz, ClosePipes
<1> QED
  BY <1>1, <1>2, <1>3, <1>4, <1>5, <1>6, <1>7, <1>8, <1>9, <1>10, <1>11 DEF Next, CommandStep

\* What flows in a backup is what tar has read so far, with the trailer once pigz
\* has ended, and a stream is closed without an error only when both tools ended
\* well (operation.go: compress).
THEOREM WholeHolds == Spec => [](Backed /\ Results)
<1>1. Init => Backed /\ Results
  BY DEF Init, Backed, Results
<1>2. PathInv /\ Order /\ Listed /\ (Backed /\ Results) /\ [Next]_vars => (Backed /\ Results)'
  BY BackedStep, ResultsStep
<1> QED
  BY <1>1, <1>2, PathInvariant, OrderHolds, ListedHolds, PTL DEF Spec

\* A backup that reports success has dumped every database that was there all the
\* time and has stored the whole of it, for any databases, lengths and failures
\* (operation.go joins the errors of tar and pigz; logical.go stops at the first).
THEOREM SuccessIsWhole == Spec => []BackupIsWhole
<1>1. Results => BackupIsWhole
  BY DEF Results, BackupIsWhole, Whole, Gzip
<1> QED
  BY <1>1, WholeHolds, PTL

----------------------------------------------------------------------------
(***************************************************************************)
(* A successful restore.  What the far end has given on is a beginning of  *)
(* what it delivers, and pigz has accepted a beginning of that; the trailer *)
(* at its end is one that only a whole archive has, so all of the archive   *)
(* was delivered, and no frame of it was damaged.                          *)
(***************************************************************************)
Expanded == \A i \in 1..fed : taken[i] = Chunk(i)

Restored ==
    command = "restore" /\ stage # "off" =>
        /\ fed \in Nat /\ got \in 0..fed
        /\ Len(taken) <= Len(Delivered)
        /\ \A i \in 1..Len(taken) : taken[i] = Delivered[i]
        /\ pigz = "run" => /\ Expanded
                           /\ Len(taken) = IF hose = NoItem THEN fed ELSE fed + 1
                           /\ hose # NoItem => hose = taken[fed + 1]
        /\ pigz = "ok" => /\ Expanded
                          /\ Len(taken) > fed
                          /\ taken[fed + 1] = Trailer(fed)
        /\ tar = "ok" => pigz # "run" /\ got = fed
        /\ stage = "ok" => tar = "ok" /\ pigz = "ok"
        /\ far = "ok" => Len(taken) = Len(Delivered) /\ ~(enc /\ DecryptFails(stored))

\* What is stored is no longer than what was archived, and without encryption its
\* header, which there is none of, is not damaged; a restore follows a backup.
Archived ==
    /\ Len(stored.frames) <= Len(original)
    /\ original \in {<<>>, Whole}
    /\ stored # NoArchive /\ ~enc => stored.header = "good"
    /\ command = "restore" \/ result["restore"] # "none" =>
          result["backup"] # "none" /\ stored # NoArchive

\* No damage makes an archive longer.
LEMMA DamagedLength ==
    ASSUME NEW F, NEW fs \in Seq(F), NEW gs \in Damaged(fs)
    PROVE  Len(gs) <= Len(fs)
<1>1. Len(fs) \in Nat
  BY LenProperties
<1>2. \A i \in 1..Len(fs) : Len(Garble(fs, i)) = Len(fs)
  BY <1>1 DEF Garble
<1>3. \A n \in 0..Len(fs) : Len(SubSeq(fs, 1, n)) = n
  BY <1>1, SubSeqProperties
<1>4. \A n \in 1..Len(fs) : Len(Garble(SubSeq(fs, 1, n), n)) = n
  <2> SUFFICES ASSUME NEW n \in 1..Len(fs) PROVE Len(Garble(SubSeq(fs, 1, n), n)) = n
    OBVIOUS
  <2>1. SubSeq(fs, 1, n) \in Seq(F) /\ Len(SubSeq(fs, 1, n)) = n
    BY <1>1, SubSeqProperties, LenProperties, ElementOfSeq
  <2> QED
    BY <2>1 DEF Garble
<1>5. \A i \in 1..Len(fs) : Len(RemoveAt(fs, i)) <= Len(fs)
  <2> SUFFICES ASSUME NEW i \in 1..Len(fs) PROVE Len(RemoveAt(fs, i)) <= Len(fs)
    OBVIOUS
  <2> DEFINE before == SubSeq(fs, 1, i - 1)
             after == SubSeq(fs, i + 1, Len(fs))
  <2>1. /\ before \in Seq(F) /\ Len(before) = i - 1
        /\ after \in Seq(F) /\ Len(after) = Len(fs) - i
    BY <1>1, SubSeqProperties
  <2>2. RemoveAt(fs, i) = before \o after
    BY Zenon DEF RemoveAt
  <2> HIDE DEF before, after
  <2>3. Len(before \o after) = Len(before) + Len(after)
    BY <2>1, ConcatProperties
  <2> QED
    BY <1>1, <2>1, <2>2, <2>3
<1>6. \A i, j \in 1..Len(fs) : Len(Swap(fs, i, j)) = Len(fs)
  BY <1>1 DEF Swap
<1> QED
  BY <1>1, <1>2, <1>3, <1>4, <1>5, <1>6 DEF Damaged

\* The far end gives on the data of the first frames, of all of them when there is
\* no encryption or decryption does not fail.
LEMMA DeliveredFrames ==
    ASSUME Sealed
    PROVE  /\ Len(Delivered) \in 0..Len(stored.frames)
           /\ \A i \in 1..Len(Delivered) : Delivered[i] = stored.frames[i].data
           /\ ~(enc /\ DecryptFails(stored)) => Len(Delivered) = Len(stored.frames)
<1>1. Len(stored.frames) \in Nat /\ DOMAIN stored.frames = 1..Len(stored.frames)
  BY LenProperties DEF Sealed, Streams
<1>2. Opened(stored) \in 0..Len(stored.frames)
  BY <1>1, OpenedAll
<1>3. CASE enc
  BY <1>1, <1>2, <1>3 DEF Delivered, Decrypted, DecryptFails
<1>4. CASE ~enc
  BY <1>1, <1>4 DEF Delivered
<1> QED
  BY <1>3, <1>4

\* What is delivered is an item of the archive or garbled.
LEMMA DeliveredItem ==
    ASSUME Sealed, original \in {<<>>, Whole}, NEW i \in 1..Len(Delivered)
    PROVE  /\ Delivered[i] \in Item \cup {Garbled}
           /\ Delivered[i] # NoItem
<1>1. Delivered[i] = stored.frames[i].data /\ i \in 1..Len(stored.frames)
  BY DeliveredFrames
<1>2. stored.frames[i] \in Frames(original)
  BY <1>1, ElementOfSeq DEF Sealed, Streams
<1>3. \A j \in DOMAIN original : original[j] \in Item
  BY PathAssumption DEF Whole, Gzip, Item
<1>4. Delivered[i] \in Item \cup {Garbled}
  BY <1>1, <1>2, <1>3 DEF Frames, Seal
<1>5. NoItem \notin Item
  BY DEF NoItem, Item, Chunk, Trailer
<1>6. NoItem # Garbled
  <2>1. NoItem \in [kind : {"chunk", "trailer", "none"}, n : Int]
    BY DEF NoItem
  <2> QED
    BY <2>1, GarbledAssumption
<1> QED
  BY <1>4, <1>5, <1>6

\* A frame that holds item i of the whole archive is frame i of it: each item is
\* there once, and a garbled frame holds none.
LEMMA WholeFrame ==
    ASSUME NEW f \in Frames(Whole), NEW i \in 1..(Chunks + 1), f.data = Whole[i]
    PROVE  f = Seal(i, Whole[i])
<1>1. Whole[i] # Garbled
  BY GarbledAssumption, PathAssumption DEF Whole, Gzip, Chunk, Trailer
<1>2. PICK j \in DOMAIN Whole : f = Seal(j, Whole[j])
  BY <1>1 DEF Frames
<1>3. j \in 1..(Chunks + 1) /\ Whole[j] = Whole[i]
  BY <1>2 DEF Whole, Gzip, Seal
<1>4. j = i
  BY <1>3, PathAssumption DEF Whole, Gzip, Chunk, Trailer
<1> QED
  BY <1>2, <1>4

\* A sequence is the function of its positions.
LEMMA FunctionForm ==
    ASSUME NEW S, NEW s \in Seq(S)
    PROVE  s = [i \in DOMAIN s |-> s[i]]
OBVIOUS

\* When all that is delivered are k chunks and a trailer that counts k, the archive
\* is whole and as it was stored.
LEMMA WholeDelivered ==
    ASSUME PathInv, Archived, stored # NoArchive, original = Whole,
           ~(enc /\ DecryptFails(stored)),
           NEW k \in Nat, k < Len(Delivered),
           \A i \in 1..k : Delivered[i] = Chunk(i), Delivered[k + 1] = Trailer(k)
    PROVE  k = Chunks /\ stored = Encrypt(original)
<1> USE PathAssumption DEF PathInv, Sealed
<1> DEFINE fs == stored.frames
<1>1. /\ fs \in Seq(Frames(Whole)) /\ Len(fs) \in Nat /\ DOMAIN fs = 1..Len(fs)
      /\ \A i \in 1..Len(fs) : fs[i] \in Frames(Whole)
  BY LenProperties, ElementOfSeq DEF Streams
<1>2. Len(Delivered) = Len(fs) /\ \A i \in 1..Len(fs) : Delivered[i] = fs[i].data
  BY DeliveredFrames
<1>3. Len(Whole) = Chunks + 1 /\ DOMAIN Whole = 1..(Chunks + 1)
  BY DEF Whole, Gzip
<1>4. k = Chunks
  <2>1. k + 1 \in 1..Len(fs) /\ fs[k + 1].data = Trailer(k)
    BY <1>1, <1>2
  <2>2. Trailer(k) # Garbled
    BY GarbledAssumption DEF Trailer
  <2>3. PICK j \in DOMAIN Whole : fs[k + 1] = Seal(j, Whole[j])
    BY <1>1, <2>1, <2>2 DEF Frames
  <2>4. Whole[j] = Trailer(k)
    BY <2>1, <2>3 DEF Seal
  <2> QED
    BY <1>3, <2>3, <2>4 DEF Whole, Gzip, Chunk, Trailer
<1>5. Len(fs) = Chunks + 1
  BY <1>1, <1>2, <1>3, <1>4 DEF Archived
<1>6. \A i \in 1..(Chunks + 1) : fs[i] = Seal(i, Whole[i])
  <2> SUFFICES ASSUME NEW i \in 1..(Chunks + 1) PROVE fs[i] = Seal(i, Whole[i])
    OBVIOUS
  <2>1. fs[i].data = Whole[i] /\ fs[i] \in Frames(Whole)
    BY <1>1, <1>2, <1>4, <1>5 DEF Whole, Gzip
  <2> QED
    BY <2>1, WholeFrame
<1>7. stored.header = "good"
  <2>1. CASE ~enc
    BY <2>1 DEF Archived
  <2>2. CASE enc
    <3>1. Opened(stored) = Len(fs)
      BY <1>1, <2>2, OpenedAll DEF DecryptFails
    <3>2. Opens(stored.header, fs[1], 1)
      BY <1>1, <1>5, <3>1, OpenedAll
    <3> QED
      BY <3>2 DEF Opens
  <2> QED
    BY <2>1, <2>2
<1>8. fs = [i \in DOMAIN Whole |-> Seal(i, Whole[i])]
  <2>1. DOMAIN fs = 1..(Chunks + 1)
    BY <1>1, <1>5
  <2>2. fs = [i \in DOMAIN fs |-> fs[i]]
    BY <1>1, FunctionForm
  <2>3. fs = [i \in 1..(Chunks + 1) |-> Seal(i, Whole[i])]
    BY <1>6, <2>1, <2>2, Zenon
  <2> QED
    BY <1>3, <2>3, Zenon
<1>9. stored = [header |-> stored.header, frames |-> fs]
  BY DEF Streams
<1> QED
  BY <1>4, <1>7, <1>8, <1>9 DEF Encrypt

\* Appending leaves what was there, and adds one item.
LEMMA OneMore ==
    ASSUME NEW s \in Seq(Content), NEW x \in Content
    PROVE  /\ Len(s) \in Nat /\ Len(Append(s, x)) = Len(s) + 1
           /\ \A i \in 1..Len(s) : Append(s, x)[i] = s[i]
           /\ Append(s, x)[Len(s) + 1] = x
BY AppendProperties, LenProperties

\* Every step of a running restore keeps what pigz has accepted equal to what was
\* delivered, and remembers in its ends that it was all.
LEMMA RestoredStep ==
    ASSUME PathInv, Order, Archived, Restored, [Next]_vars
    PROVE  Restored'
<1> DEFINE Frame == UNCHANGED <<command, enc, stored, legVars>>
<1> USE DEF Restored, Expanded
<1>0. ASSUME UNCHANGED <<enc, stored>>
      PROVE  Delivered' = Delivered /\ DecryptFails(stored)' = DecryptFails(stored)
  BY <1>0 DEF Delivered, Decrypted, DecryptFails, Opened
<1>1. CASE Frame
  BY <1>0, <1>1 DEF legVars
<1>2. (DumpStep \/ ServerChanges) /\ UNCHANGED <<commandVars, legVars>> => Frame
  BY DEF commandVars
<1>3. PipelineCancels \/ ContextEnds \/ UNCHANGED vars => Frame
  BY DEF PipelineCancels, ContextEnds, vars, commandVars
<1>4. CASE command' # "restore"
  BY <1>4
<1>5. StartBackup \/ StartArchive \/ EndCommand \/ GiveUp \/ Damage \/ Uploaded => command' # "restore"
  BY DEF StartBackup, StartArchive, EndCommand, GiveUp, Damage, Uploaded, commandVars
<1>6. TarReads \/ TarFinishes \/ PigzCompresses \/ PigzFinishes \/ PigzBroken \/ FarTakes
        => command' # "restore"
  BY DEF TarReads, TarFinishes, PigzCompresses, PigzFinishes, PigzBroken, FarTakes, Backing, commandVars
<1>7. CASE StartRestore
  <2>1. Len(Delivered) \in Nat /\ UNCHANGED <<enc, stored>>
    BY <1>7, DeliveredContent DEF PathInv, StartRestore
  <2> QED
    BY <1>0, <1>7, <2>1 DEF StartRestore, StartTools
<1>8. CASE FarGives
  <2>1. /\ UNCHANGED <<command, enc, stored, stage, tar, pigz, far, fed, got>>
        /\ taken \in Seq(Content) /\ hose = NoItem /\ far = "run"
        /\ Len(taken) < Len(Delivered)
        /\ hose' = Delivered[Len(taken) + 1] /\ taken' = Append(taken, hose')
    BY <1>8 DEF FarGives, Restoring, PathInv, Flow, commandVars
  <2>2. Len(taken) \in Nat /\ Len(Delivered) \in Nat
    BY <2>1, DeliveredContent, LenProperties DEF PathInv
  <2>3. hose' \in Content /\ hose' # NoItem
    BY <2>1, <2>2, DeliveredContent, DeliveredItem DEF PathInv, Archived
  <2>4. /\ Len(taken') = Len(taken) + 1 /\ taken'[Len(taken) + 1] = hose'
        /\ \A i \in 1..Len(taken) : taken'[i] = taken[i]
    BY <2>1, <2>3, OneMore
  <2>5. UNCHANGED Delivered
    BY <1>0, <2>1
  <2> SUFFICES ASSUME command = "restore", stage # "off" PROVE Restored'
    BY <2>1
  <2>6. /\ Len(taken') <= Len(Delivered')
        /\ \A i \in 1..Len(taken') : taken'[i] = Delivered'[i]
    BY <2>1, <2>2, <2>4, <2>5
  <2>7. CASE pigz = "run"
    <3>1. Len(taken) = fed
      BY <2>1, <2>7
    <3> QED
      BY <2>1, <2>2, <2>3, <2>4, <2>6, <2>7, <3>1
  <2>8. CASE pigz = "ok"
    <3>1. Expanded' /\ Len(taken') > fed' /\ taken'[fed + 1] = taken[fed + 1]
      BY <2>1, <2>2, <2>4, <2>8
    <3> QED
      BY <2>1, <2>6, <2>8, <3>1 DEF Trailer
  <2>9. CASE pigz \notin {"run", "ok"}
    BY <2>1, <2>6, <2>9
  <2> QED
    BY <2>7, <2>8, <2>9
<1>9. CASE FarFinishes
  BY <1>0, <1>9 DEF FarFinishes, Restoring, commandVars
<1>10. CASE PigzExpands
  <2>1. /\ UNCHANGED <<command, enc, stored, stage, tar, pigz, far, got, taken>>
        /\ pigz = "run" /\ hose = Chunk(fed + 1) /\ fed' = fed + 1 /\ hose' = NoItem
    BY <1>10 DEF PigzExpands, Restoring, commandVars
  <2>2. UNCHANGED Delivered /\ UNCHANGED DecryptFails(stored)
    BY <1>0, <2>1
  <2>3. hose # NoItem
    BY <2>1 DEF Chunk, NoItem
  <2> SUFFICES ASSUME command = "restore", stage # "off" PROVE Restored'
    BY <2>1
  <2>4. taken[fed + 1] = Chunk(fed + 1) /\ Len(taken) = fed + 1
    BY <2>1, <2>3
  <2> QED
    BY <2>1, <2>2, <2>3, <2>4
<1>11. CASE PigzAccepts
  <2>1. /\ UNCHANGED <<command, enc, stored, stage, tar, far, fed, got, taken>>
        /\ pigz = "run" /\ pigz' = "ok" /\ hose = Trailer(fed)
    BY <1>11 DEF PigzAccepts, Restoring, commandVars
  <2>2. UNCHANGED Delivered /\ UNCHANGED DecryptFails(stored)
    BY <1>0, <2>1
  <2>3. hose # NoItem
    BY <2>1 DEF Trailer, NoItem
  <2> QED
    BY <2>1, <2>2, <2>3 DEF Trailer
<1>12. CASE PigzRejects
  BY <1>0, <1>12 DEF PigzRejects, Restoring, commandVars
<1>13. CASE TarExtracts
  BY <1>0, <1>13 DEF TarExtracts, Restoring, commandVars
<1>14. CASE TarEnds
  BY <1>0, <1>14 DEF TarEnds, Restoring, commandVars
<1>15. CASE TarReturned \/ PigzReturned
  BY <1>0, <1>15 DEF TarReturned, PigzReturned, StageReturns, commandVars
<1>16. CASE FarFails \/ ToolDies
  BY <1>0, <1>16 DEF FarFails, ToolDies, commandVars
<1>17. CASE KillTar \/ KillPigz \/ ClosePipes
  BY <1>0, <1>17 DEF KillTar, KillPigz, ClosePipes, commandVars
<1> QED
  BY <1>1, <1>2, <1>3, <1>4, <1>5, <1>6, <1>7, <1>8, <1>9, <1>10, <1>11, <1>12, <1>13, <1>14,
     <1>15, <1>16, <1>17 DEF Next, CommandStep

\* The steps that move neither a result, nor what is stored, nor what was archived.
LEMMA StoredStays ==
    ASSUME [Next]_vars
    PROVE  \/ UNCHANGED <<enc, command, result, stored, original>>
           \/ StartBackup \/ StartRestore \/ EndCommand \/ GiveUp \/ Uploaded \/ Damage
<1> DEFINE Frame == UNCHANGED <<enc, command, result, stored, original>>
<1> USE DEF commandVars
<1>1. (DumpStep \/ ServerChanges) /\ UNCHANGED <<commandVars, legVars>> => Frame
  OBVIOUS
<1>2. StartArchive \/ TarReturned \/ PigzReturned => Frame
  BY DEF StartArchive, TarReturned, PigzReturned, StageReturns
<1>3. TarReads \/ TarFinishes \/ PigzCompresses \/ PigzFinishes \/ PigzBroken \/ FarTakes => Frame
  BY DEF TarReads, TarFinishes, PigzCompresses, PigzFinishes, PigzBroken, FarTakes, Backing
<1>4. FarGives \/ FarFinishes \/ PigzExpands \/ PigzAccepts \/ PigzRejects \/ TarExtracts \/ TarEnds
        => Frame
  BY DEF FarGives, FarFinishes, PigzExpands, PigzAccepts, PigzRejects, TarExtracts, TarEnds, Restoring
<1>5. FarFails \/ ToolDies \/ PipelineCancels \/ ContextEnds \/ KillTar \/ KillPigz \/ ClosePipes
        => Frame
  BY DEF FarFails, ToolDies, PipelineCancels, ContextEnds, KillTar, KillPigz, ClosePipes
<1>6. UNCHANGED vars => Frame
  BY DEF vars
<1> QED
  BY <1>1, <1>2, <1>3, <1>4, <1>5, <1>6 DEF Next, CommandStep

\* A stream of frames has a header and frames, and NoArchive is none that was stored.
LEMMA EncryptIsAnArchive ==
    ASSUME NEW s \in Seq(Content)
    PROVE  /\ Encrypt(s).header = "good" /\ Len(Encrypt(s).frames) = Len(s)
           /\ Encrypt(s) # NoArchive
<1>1. DOMAIN s = 1..Len(s) /\ Len(s) \in Nat
  BY LenProperties
<1> QED
  BY <1>1 DEF Encrypt, NoArchive

\* Uploading stores as many frames as there are items, and damage adds none.
LEMMA ArchivedStep ==
    ASSUME PathInv, Order, Backed, Results, Archived, [Next]_vars
    PROVE  Archived'
<1> USE DEF Archived
<1>1. CASE UNCHANGED <<enc, command, result, stored, original>>
  BY <1>1
<1>2. CASE StartBackup
  BY <1>2 DEF StartBackup
<1>3. CASE StartRestore
  BY <1>3 DEF StartRestore, Results
<1>4. CASE EndCommand \/ GiveUp
  BY <1>4 DEF EndCommand, GiveUp, Results, Order, Ended
<1>5. CASE Uploaded
  <2>1. stage = "ok" /\ hose = NoItem /\ stage # "off"
    BY <1>5 DEF Uploaded, Order, Backed
  <2>2. original' = Whole /\ original' \in Seq(Content) /\ stored' = Encrypt(original')
    BY <1>5, <2>1 DEF Uploaded, Backed, Written, Whole, PathInv, Flow
  <2>3. stored'.header = "good" /\ Len(stored'.frames) = Len(original') /\ stored' # NoArchive
    BY <2>2, EncryptIsAnArchive
  <2>4. Len(original') \in Nat
    BY <2>2, LenProperties
  <2> QED
    BY <1>5, <2>2, <2>3, <2>4 DEF Uploaded
<1>6. CASE Damage
  <2>1. /\ UNCHANGED <<enc, command, result, original>>
        /\ command = "none" /\ result["restore"] = "none"
    BY <1>6 DEF Damage
  <2>2. \A gs \in Damaged(stored.frames) : Len(gs) <= Len(stored.frames) /\ Len(gs) \in Nat
    BY DamagedLength, DamagedFrames, LenProperties DEF PathInv, Sealed, Streams
  <2>3. Len(stored'.frames) <= Len(original)
    <3>1. Len(original) \in Nat /\ Len(stored.frames) \in Nat
      BY LenProperties DEF PathInv, Sealed, Streams
    <3>2. CASE enc
      BY <1>6, <2>2, <3>1, <3>2 DEF Damage, DamagedStreams, PathInv, Sealed, Streams
    <3>3. CASE ~enc
      BY <1>6, <2>2, <3>1, <3>3 DEF Damage, PathInv, Sealed, Streams
    <3> QED
      BY <3>2, <3>3
  <2>4. ~enc => stored'.header = stored.header
    BY <1>6 DEF Damage, PathInv, Sealed, Streams
  <2> QED
    BY <1>6, <2>1, <2>3, <2>4 DEF Damage
<1> QED
  BY <1>1, <1>2, <1>3, <1>4, <1>5, <1>6, StoredStays

\* After a restore that succeeded nothing runs that would touch what it was made of.
LEMMA RestoredIsWholeStep ==
    ASSUME PathInv, Order, Results, Archived, Restored, RestoredIsWhole, [Next]_vars
    PROVE  RestoredIsWhole'
<1> USE DEF RestoredIsWhole
<1>1. CASE EndCommand
  <2>1. CASE command = "restore" /\ stage = "ok" /\ far = "ok"
    <3>1. /\ stage # "off" /\ pigz = "ok" /\ tar = "ok" /\ got = fed /\ fed \in Nat
          /\ Len(taken) = Len(Delivered) /\ ~(enc /\ DecryptFails(stored))
          /\ Len(taken) > fed /\ taken[fed + 1] = Trailer(fed)
          /\ \A i \in 1..fed : taken[i] = Chunk(i)
          /\ \A i \in 1..Len(taken) : taken[i] = Delivered[i]
      BY <2>1 DEF Restored, Expanded
    <3>2. Len(Delivered) \in Nat /\ fed < Len(Delivered)
      BY <3>1, DeliveredContent DEF PathInv
    <3>3. Delivered[fed + 1] = Trailer(fed) /\ \A i \in 1..fed : Delivered[i] = Chunk(i)
      BY <3>1, <3>2
    <3>4. stored # NoArchive /\ original = Whole
      BY <2>1 DEF Archived, Results
    <3>5. fed = Chunks /\ stored = Encrypt(original)
      BY <3>1, <3>2, <3>3, <3>4, WholeDelivered
    <3> QED
      BY <1>1, <3>1, <3>5 DEF EndCommand
  <2>2. CASE ~(command = "restore" /\ stage = "ok" /\ far = "ok")
    BY <1>1, <2>2 DEF EndCommand, Results
  <2> QED
    BY <2>1, <2>2
<1>2. CASE ~EndCommand /\ result'["restore"] = "ok"
  <2>1. result["restore"] = "ok"
    BY <1>2, StoredStays DEF StartBackup, StartRestore, GiveUp, Uploaded, Damage, Results
  <2>2. command = "none" /\ stage = "off" /\ dump = "off" /\ far # "run"
    BY <2>1 DEF Results, Archived, Order
  <2>3. UNCHANGED <<stored, original>>
    BY <1>2, <2>1, <2>2, StoredStays DEF StartBackup, StartRestore, GiveUp, Uploaded, Damage
  <2>4. UNCHANGED got
    <3>1. ~(StartArchive \/ StartRestore)
      BY <2>1, <2>2 DEF StartArchive, StartRestore
    <3>2. ~(PigzCompresses \/ TarExtracts)
      BY <2>2 DEF PigzCompresses, TarExtracts, Backing, Restoring
    <3>3. (DumpStep \/ ServerChanges) /\ UNCHANGED <<commandVars, legVars>> => UNCHANGED got
      BY DEF legVars
    <3>4. StartBackup \/ EndCommand \/ GiveUp \/ TarReturned \/ PigzReturned => UNCHANGED got
      BY DEF StartBackup, EndCommand, GiveUp, TarReturned, PigzReturned, StageReturns, legVars
    <3>5. TarReads \/ TarFinishes \/ PigzFinishes \/ PigzBroken \/ FarTakes \/ Uploaded => UNCHANGED got
      BY DEF TarReads, TarFinishes, PigzFinishes, PigzBroken, FarTakes, Uploaded
    <3>6. FarGives \/ FarFinishes \/ PigzExpands \/ PigzAccepts \/ PigzRejects \/ TarEnds => UNCHANGED got
      BY DEF FarGives, FarFinishes, PigzExpands, PigzAccepts, PigzRejects, TarEnds
    <3>7. FarFails \/ ToolDies \/ PipelineCancels \/ ContextEnds \/ KillTar \/ KillPigz \/ ClosePipes
            \/ Damage \/ UNCHANGED vars => UNCHANGED got
      BY DEF FarFails, ToolDies, PipelineCancels, ContextEnds, KillTar, KillPigz, ClosePipes, Damage,
             vars, legVars
    <3> QED
      BY <3>1, <3>2, <3>3, <3>4, <3>5, <3>6, <3>7 DEF Next, CommandStep
  <2> QED
    BY <2>1, <2>3, <2>4
<1>3. CASE result'["restore"] # "ok"
  BY <1>3
<1> QED
  BY <1>1, <1>2, <1>3

\* Together with what holds of the backup before it, this is inductive.
LEMMA RestoredHolds == Spec => [](Archived /\ Restored /\ RestoredIsWhole)
<1>1. Init => Archived /\ Restored /\ RestoredIsWhole
  BY DEF Init, Archived, Restored, RestoredIsWhole, NoArchive
<1>2. PathInv /\ Order /\ (Backed /\ Results) /\ (Archived /\ Restored /\ RestoredIsWhole) /\ [Next]_vars
        => (Archived /\ Restored /\ RestoredIsWhole)'
  BY ArchivedStep, RestoredStep, RestoredIsWholeStep
<1> QED
  BY <1>1, <1>2, PathInvariant, OrderHolds, WholeHolds, PTL DEF Spec

\* A restore that reports success has extracted the whole archive, and the archive
\* was as the backup had stored it, for any length, any damage and any failures:
\* the frames that Decrypt does not miss, pigz does (restore/operation.go: extract).
THEOREM RestoreIsWhole == Spec => []RestoredIsWhole
BY RestoredHolds, PTL

----------------------------------------------------------------------------
(***************************************************************************)
(* The types, in three parts: the dump, the control of the commands, and   *)
(* what flows between the tools, which no pipe holds too much of.          *)
(***************************************************************************)
ControlTyped ==
    /\ enc \in BOOLEAN
    /\ deadline \in BOOLEAN
    /\ lost \in SUBSET Databases
    /\ stage \in {"off", "tar", "pigz"} \cup Ended
    /\ {tar, pigz} \subseteq {"off", "run", "ok", "failed"}
    /\ far \in {"off", "run"} \cup Ended
    /\ hoseEnd \in {"no", "end", "error"}

FlowTyped ==
    /\ got \in 0..Chunks /\ fed \in got..(got + PipeSize) /\ fed <= Chunks
    /\ hose \in Item \cup {NoItem, Garbled}

TakenBounded == Len(taken) <= Chunks + 1

\* The steps of the dump change its own state.
LEMMA DumpTypedStep ==
    ASSUME DumpTypeOK, DumpStep \/ ServerChanges
    PROVE  DumpTypeOK'
<1> USE DumpAssumption DEF DumpTypeOK, GoOn, Fails, Fault
<1>1. CASE MakeTempdir
  BY <1>1 DEF MakeTempdir
<1>2. CASE WriteCredentials
  BY <1>2 DEF WriteCredentials
<1>3. CASE ToolSucceeds
  BY <1>3 DEF ToolSucceeds
<1>4. CASE ListDatabases
  BY <1>4 DEF ListDatabases
<1>5. CASE DumpDatabase
  BY <1>5 DEF DumpDatabase
<1>6. CASE AllDumped
  BY <1>6 DEF AllDumped
<1>7. CASE Prepare
  BY <1>7 DEF Prepare
<1>8. CASE OperationFails
  BY <1>8 DEF OperationFails
<1>9. CASE ToolFails
  <2>1. faults' \in 0..MaxFaults
    BY <1>9 DEF ToolFails
  <2>2. creds' \in BOOLEAN
    BY <1>9 DEF ToolFails
  <2> QED
    BY <1>9, <2>1, <2>2 DEF ToolFails
<1>10. CASE LogicalFails
  BY <1>10 DEF LogicalFails
<1>11. CASE ServerChanges
  BY <1>11 DEF ServerChanges
<1> QED
  BY <1>1, <1>2, <1>3, <1>4, <1>5, <1>6, <1>7, <1>8, <1>9, <1>10, <1>11 DEF DumpStep

\* The other steps leave the dump, or clean up behind it.
LEMMA DumpTypedElsewhere ==
    ASSUME DumpTypeOK, [Next]_vars, ~(DumpStep \/ ServerChanges)
    PROVE  DumpTypeOK'
<1> USE DumpAssumption DEF DumpTypeOK, dumpVars, Fails, Fault
<1>1. CASE UNCHANGED <<dumpVars, done, faults>>
  BY <1>1
<1>2. CASE StartBackup
  BY <1>2 DEF StartBackup, GoOn
<1>3. CASE StartArchive \/ StartRestore
  BY <1>3 DEF StartArchive, StartRestore, StartTools
<1>4. CASE EndCommand \/ GiveUp
  BY <1>4 DEF EndCommand, GiveUp, RemoveTempdir, GoOn
<1>5. CASE Uploaded \/ FarFails \/ ToolDies
  BY <1>5 DEF Uploaded, FarFails, ToolDies
<1>6. CASE PipelineCancels \/ ContextEnds
  BY <1>6 DEF PipelineCancels, ContextEnds
<1>7. TarReads \/ TarFinishes \/ PigzCompresses \/ PigzFinishes \/ PigzBroken \/ FarTakes
        => UNCHANGED <<dumpVars, done, faults>>
  BY DEF TarReads, TarFinishes, PigzCompresses, PigzFinishes, PigzBroken, FarTakes, Backing
<1>8. FarGives \/ FarFinishes \/ PigzExpands \/ PigzAccepts \/ PigzRejects \/ TarExtracts \/ TarEnds
        => UNCHANGED <<dumpVars, done, faults>>
  BY DEF FarGives, FarFinishes, PigzExpands, PigzAccepts, PigzRejects, TarExtracts, TarEnds, Restoring
<1>9. TarReturned \/ PigzReturned \/ KillTar \/ KillPigz \/ ClosePipes \/ Damage \/ UNCHANGED vars
        => UNCHANGED <<dumpVars, done, faults>>
  BY DEF TarReturned, PigzReturned, StageReturns, KillTar, KillPigz, ClosePipes, Damage, vars
<1> QED
  BY <1>1, <1>2, <1>3, <1>4, <1>5, <1>6, <1>7, <1>8, <1>9 DEF Next, CommandStep

\* Each tool, stage and stream is in one of its states.
LEMMA ControlTypedStep ==
    ASSUME DumpTypeOK, ControlTyped, [Next]_vars
    PROVE  ControlTyped'
<1> USE DEF ControlTyped, Ended
<1>1. CASE UNCHANGED <<enc, deadline, lost, stage, tar, pigz, far, hoseEnd>>
  BY <1>1
<1>2. CASE StartBackup \/ StartRestore \/ StartArchive
  BY <1>2 DEF StartBackup, StartRestore, StartArchive, StartTools, commandVars, legVars
<1>3. CASE EndCommand \/ GiveUp
  BY <1>3 DEF EndCommand, GiveUp, legVars
<1>4. CASE TarFinishes \/ PigzFinishes \/ PigzBroken
  BY <1>4 DEF TarFinishes, PigzFinishes, PigzBroken, Backing, commandVars
<1>5. CASE Uploaded
  BY <1>5 DEF Uploaded, DumpTypeOK
<1>6. CASE FarFinishes \/ PigzAccepts \/ PigzRejects \/ TarEnds
  BY <1>6 DEF FarFinishes, PigzAccepts, PigzRejects, TarEnds, Restoring, commandVars
<1>7. CASE TarReturned \/ PigzReturned
  BY <1>7 DEF TarReturned, PigzReturned, StageReturns, commandVars
<1>8. CASE FarFails \/ ToolDies \/ KillTar \/ KillPigz \/ ClosePipes
  BY <1>8 DEF FarFails, ToolDies, KillTar, KillPigz, ClosePipes, commandVars
<1> DEFINE Frame == UNCHANGED <<enc, deadline, lost, stage, tar, pigz, far, hoseEnd>>
<1>9. (DumpStep \/ ServerChanges) /\ UNCHANGED <<commandVars, legVars>> => Frame
  BY DEF commandVars, legVars
<1>10. TarReads \/ PigzCompresses \/ FarTakes \/ FarGives \/ PigzExpands \/ TarExtracts => Frame
  BY DEF TarReads, PigzCompresses, FarTakes, FarGives, PigzExpands, TarExtracts, Backing, Restoring,
         commandVars
<1>11. PipelineCancels \/ ContextEnds \/ Damage \/ UNCHANGED vars => Frame
  BY DEF PipelineCancels, ContextEnds, Damage, vars, commandVars, legVars
<1> QED
  BY <1>1, <1>2, <1>3, <1>4, <1>5, <1>6, <1>7, <1>8, <1>9, <1>10, <1>11 DEF Next, CommandStep

\* No tool reads more than was written, nor writes what the kernel pipe cannot hold.
LEMMA FlowTypedStep ==
    ASSUME PathInv, Archived, FlowTyped, [Next]_vars
    PROVE  FlowTyped'
<1> USE PathAssumption DEF FlowTyped
<1>1. CASE UNCHANGED <<fed, got, hose>>
  BY <1>1
<1>2. CASE StartRestore \/ StartArchive
  BY <1>2 DEF StartRestore, StartArchive, StartTools
<1>3. CASE TarReads
  BY <1>3 DEF TarReads, Backing
<1>4. CASE PigzCompresses \/ PigzFinishes
  BY <1>4 DEF PigzCompresses, PigzFinishes, Backing, Item
<1>5. CASE FarTakes
  BY <1>5 DEF FarTakes, Backing
<1>6. CASE FarGives
  <2>1. Len(taken) + 1 \in 1..Len(Delivered)
    BY <1>6, DeliveredContent, LenProperties DEF FarGives, PathInv, Flow
  <2>2. hose' \in Item \cup {Garbled}
    BY <1>6, <2>1, DeliveredItem DEF FarGives, PathInv, Archived
  <2> QED
    BY <1>6, <2>2 DEF FarGives
<1>7. CASE PigzExpands
  <2>1. fed + 1 <= Chunks
    <3>1. Chunk(fed + 1) \in Item
      <4>1. Chunk(fed + 1) \in [kind : {"chunk", "trailer", "none"}, n : Int]
        BY DEF Chunk
      <4> QED
        BY <1>7, <4>1, GarbledAssumption DEF PigzExpands, Chunk, NoItem
    <3>2. PICK i \in 1..Chunks : Chunk(fed + 1) = Chunk(i)
      BY <3>1 DEF Item, Chunk, Trailer
    <3>3. fed + 1 = i
      BY <3>2 DEF Chunk
    <3> QED
      BY <3>3
  <2> QED
    BY <1>7, <2>1 DEF PigzExpands
<1>8. CASE PigzAccepts \/ PigzRejects
  BY <1>8 DEF PigzAccepts, PigzRejects
<1>9. CASE TarExtracts
  BY <1>9 DEF TarExtracts
<1> DEFINE Frame == UNCHANGED <<fed, got, hose>>
<1>10. (DumpStep \/ ServerChanges) /\ UNCHANGED <<commandVars, legVars>> => Frame
  BY DEF legVars
<1>11. StartBackup \/ EndCommand \/ GiveUp \/ TarReturned \/ PigzReturned => Frame
  BY DEF StartBackup, EndCommand, GiveUp, TarReturned, PigzReturned, StageReturns, legVars
<1>12. TarFinishes \/ PigzBroken \/ Uploaded \/ FarFinishes \/ TarEnds => Frame
  BY DEF TarFinishes, PigzBroken, Uploaded, FarFinishes, TarEnds
<1>13. FarFails \/ ToolDies \/ PipelineCancels \/ ContextEnds \/ KillTar \/ KillPigz \/ ClosePipes
         \/ Damage \/ UNCHANGED vars => Frame
  BY DEF FarFails, ToolDies, PipelineCancels, ContextEnds, KillTar, KillPigz, ClosePipes, Damage,
         vars, legVars
<1> QED
  BY <1>1, <1>2, <1>3, <1>4, <1>5, <1>6, <1>7, <1>8, <1>9, <1>10, <1>11, <1>12, <1>13
     DEF Next, CommandStep

\* The far end takes no more than pigz makes, and gives no more than was stored.
LEMMA TakenStep ==
    ASSUME PathInv, Order, FlowTyped, Backed, Archived, TakenBounded, [Next]_vars
    PROVE  TakenBounded'
<1> USE PathAssumption DEF TakenBounded
<1>1. CASE UNCHANGED taken
  BY <1>1
<1>2. CASE StartRestore \/ StartArchive
  BY <1>2 DEF StartRestore, StartArchive, StartTools
<1>3. CASE FarTakes
  <2>1. stage # "off" /\ command = "backup" /\ taken' = Append(taken, hose) /\ hose # NoItem
    BY <1>3 DEF FarTakes, Backing, Order
  <2>2. taken' = IF pigz = "ok" THEN Gzip(got) ELSE Blocks(got)
    BY <2>1 DEF Backed, Written
  <2>3. Len(Gzip(got)) = got + 1 /\ Len(Blocks(got)) = got
    BY DEF Gzip, Blocks, FlowTyped
  <2> QED
    BY <2>2, <2>3 DEF FlowTyped
<1>4. CASE FarGives
  <2>1. taken' = Append(taken, hose') /\ Len(taken) < Len(Delivered) /\ Len(taken) \in Nat
    BY <1>4, LenProperties DEF FarGives, PathInv, Flow
  <2>5. hose' \in Content
    BY <1>4, <2>1, DeliveredContent DEF FarGives, PathInv
  <2>2. taken \in Seq(Content) /\ Len(taken) \in Nat /\ Len(Append(taken, hose')) = Len(taken) + 1
    BY <2>1, <2>5, OneMore DEF PathInv, Flow
  <2>3. Len(Delivered) \in 0..Len(stored.frames) /\ Len(stored.frames) \in Nat
    BY DeliveredFrames, LenProperties DEF PathInv, Sealed, Streams
  <2>4. Len(stored.frames) <= Len(original) /\ Len(original) \in {0, Chunks + 1}
    BY DEF Archived, Whole, Gzip
  <2> QED
    BY <2>1, <2>2, <2>3, <2>4
<1>5. (DumpStep \/ ServerChanges) /\ UNCHANGED <<commandVars, legVars>> => UNCHANGED taken
  BY DEF legVars
<1>6. StartBackup \/ EndCommand \/ GiveUp \/ TarReturned \/ PigzReturned => UNCHANGED taken
  BY DEF StartBackup, EndCommand, GiveUp, TarReturned, PigzReturned, StageReturns, legVars
<1>7. TarReads \/ TarFinishes \/ PigzCompresses \/ PigzFinishes \/ PigzBroken \/ Uploaded
        => UNCHANGED taken
  BY DEF TarReads, TarFinishes, PigzCompresses, PigzFinishes, PigzBroken, Uploaded
<1>8. FarFinishes \/ PigzExpands \/ PigzAccepts \/ PigzRejects \/ TarExtracts \/ TarEnds
        => UNCHANGED taken
  BY DEF FarFinishes, PigzExpands, PigzAccepts, PigzRejects, TarExtracts, TarEnds
<1>9. FarFails \/ ToolDies \/ PipelineCancels \/ ContextEnds \/ KillTar \/ KillPigz \/ ClosePipes
         \/ Damage \/ UNCHANGED vars => UNCHANGED taken
  BY DEF FarFails, ToolDies, PipelineCancels, ContextEnds, KillTar, KillPigz, ClosePipes, Damage,
         vars, legVars
<1> QED
  BY <1>1, <1>2, <1>3, <1>4, <1>5, <1>6, <1>7, <1>8, <1>9 DEF Next, CommandStep

\* Every variable of the data path stays in its type, for any length of the archive
\* and of the kernel's pipe: tar never writes more than that pipe holds.
THEOREM PathTypeCorrect == Spec => []TypeOK
<1> DEFINE Types == DumpTypeOK /\ ControlTyped /\ FlowTyped /\ TakenBounded
<1>1. Init => Types
  <2> SUFFICES ASSUME Init PROVE Types
    OBVIOUS
  <2>1. DumpTypeOK
    <3>1. faults \in 0..MaxFaults
      BY DumpAssumption DEF Init
    <3>2. method \in Methods /\ secret \in BOOLEAN /\ server \in SUBSET Databases
      BY DEF Init, DumpInit
    <3>3. tempdir \in BOOLEAN /\ creds \in BOOLEAN /\ done \in BOOLEAN
      BY DEF Init, DumpInit
    <3>4. /\ dump = "off" /\ lasting \in SUBSET Databases /\ todo \in SUBSET Databases
          /\ dumped \in SUBSET Databases
      BY DEF Init, DumpInit
    <3> QED
      BY <3>1, <3>2, <3>3, <3>4 DEF DumpTypeOK
  <2>2. ControlTyped /\ FlowTyped /\ TakenBounded
    BY PathAssumption DEF Init, ControlTyped, FlowTyped, TakenBounded
  <2> QED
    BY <2>1, <2>2
<1>2. PathInv /\ Order /\ (Backed /\ Results) /\ (Archived /\ Restored /\ RestoredIsWhole) /\ Types
        /\ [Next]_vars => Types'
  <2> SUFFICES ASSUME PathInv, Order, Backed, Results, Archived, Types, [Next]_vars PROVE Types'
    OBVIOUS
  <2>1. DumpTypeOK'
    BY DumpTypedStep, DumpTypedElsewhere
  <2> QED
    BY <2>1, ControlTypedStep, FlowTypedStep, TakenStep
<1>3. PathInv /\ Results /\ Archived /\ Types => TypeOK
  <2> SUFFICES ASSUME PathInv, Results, Archived, Types PROVE TypeOK
    OBVIOUS
  <2>1. \A i \in DOMAIN original : original[i] \in Item
    BY PathAssumption DEF Archived, Whole, Gzip, Item
  <2>2. /\ stored.frames \in Seq(Frames(original))
        /\ DOMAIN stored.frames = 1..Len(stored.frames)
        /\ stored.header \in {"none", "good", "cut", "changed"}
    BY LenProperties DEF PathInv, Sealed, Streams
  <2>3. \A i \in DOMAIN stored.frames : stored.frames[i].data \in Item \cup {Garbled}
    <3> SUFFICES ASSUME NEW i \in DOMAIN stored.frames
                 PROVE  stored.frames[i].data \in Item \cup {Garbled}
      OBVIOUS
    <3>1. stored.frames[i] \in Frames(original)
      BY <2>2, ElementOfSeq
    <3> QED
      BY <2>1, <3>1 DEF Frames, Seal
  <2> QED
    BY <2>1, <2>2, <2>3 DEF TypeOK, ControlTyped, FlowTyped, TakenBounded, Results, Ended
<1> QED
  BY <1>1, <1>2, <1>3, PathInvariant, OrderHolds, WholeHolds, RestoredHolds, PTL DEF Spec
============================================================================
