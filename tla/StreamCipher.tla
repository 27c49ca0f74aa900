---------------------------- MODULE StreamCipher ----------------------------
(***************************************************************************)
(* internal/encryption: a stream is a header (magic, version, salt, nonce   *)
(* prefix) and one frame per chunk of plaintext.  Frame i is sealed under   *)
(* the nonce prefix and the number i, with the salt as additional data, so  *)
(* it opens at place i behind its own header and nowhere else.  There is no *)
(* frame that says the stream is over.                                     *)
(***************************************************************************)
EXTENDS Integers, FiniteSets, Sequences, SequencesExt, FiniteSetsExt

CONSTANT Garbled  \* what a frame holds of which a byte is missing or changed

\* A wrong nonce: the prefix alone, the same for every frame.
OpensUnnumbered(header, f, i) == header = "good" /\ f.data # Garbled

\* aead.Seal and aead.Open of the frame at place i.
Seal(i, x) == [idx |-> i, data |-> x]
Opens(header, f, i) == header = "good" /\ f.idx = i /\ f.data # Garbled

\* Encrypt.
Encrypt(s) == [header |-> "good", frames |-> [i \in DOMAIN s |-> Seal(i, s[i])]]

\* How many frames Decrypt opens before the first that does not open.
Opened(c) ==
    Max({n \in 0..Len(c.frames) : \A i \in 1..n : Opens(c.header, c.frames[i], i)})

\* What Decrypt has written when it returns, and whether it returns an error.  A
\* header that is cut is one; one that was changed opens no frame.
Decrypted(c) == [i \in 1..Opened(c) |-> c.frames[i].data]
DecryptFails(c) == c.header = "cut" \/ Opened(c) < Len(c.frames)

----------------------------------------------------------------------------
Garble(fs, i) == [fs EXCEPT ![i] = [idx |-> fs[i].idx, data |-> Garbled]]
Swap(fs, i, j) == [fs EXCEPT ![i] = fs[j], ![j] = fs[i]]

\* What may become of stored bytes: they are cut between two frames or inside one,
\* a byte changes, a frame is lost, or two change places.
Damaged(fs) ==
    {SubSeq(fs, 1, n) : n \in 0..(Len(fs) - 1)}
    \cup {Garble(SubSeq(fs, 1, n), n) : n \in 1..Len(fs)}
    \cup {Garble(fs, i) : i \in 1..Len(fs)}
    \cup {RemoveAt(fs, i) : i \in 1..Len(fs)}
    \cup ({Swap(fs, i, j) : i, j \in 1..Len(fs)} \ {fs})

DamagedStreams(c) ==
    [header : {c.header}, frames : Damaged(c.frames)]
    \cup {[header |-> "cut", frames |-> <<>>], [c EXCEPT !.header = "changed"]}
=============================================================================
