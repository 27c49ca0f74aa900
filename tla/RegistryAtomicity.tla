------------------------- MODULE RegistryAtomicity -------------------------
(***************************************************************************)
(* As long as the lock excludes, which with a file system or s3 it always  *)
(* does, RegistryService implements AtomicRegistry: every step of a call   *)
(* is the instant at which the call takes effect, its start, its answer,   *)
(* or nothing that a caller can see.                                       *)
(***************************************************************************)
EXTENDS RegistryServiceProofs

\* A call takes effect in the step that leaves the phases before "unlock", and
\* answers "ok" only when it has.
EffectKnown ==
    \A p \in Clients :
        /\ phase[p] \notin {"unlock", "done"} => took[p] = FALSE
        /\ phase[p] \in {"unlock", "done"} /\ outcome[p] = "ok" => took[p] = TRUE

\* The answer is still unset before the call is done with the registry.
LEMMA EffectFrame ==
    ASSUME Typed, EffectKnown, NEW p \in Clients, NEW c,
           phase' = [phase EXCEPT ![p] = c],
           \A q \in Clients \ {p} : took'[q] = took[q] /\ outcome'[q] = outcome[q],
           c \notin {"unlock", "done"} => took'[p] = FALSE,
           c \in {"unlock", "done"} /\ outcome'[p] = "ok" => took'[p] = TRUE
    PROVE  EffectKnown'
BY DEF Typed, ServiceTypeOK, EffectKnown

\* A step within the working phases that leaves the answer alone.
LEMMA EffectMoves ==
    ASSUME Typed, EffectKnown, NEW p \in Clients, NEW c,
           phase[p] \notin {"unlock", "done"}, c \notin {"unlock", "done"},
           phase' = [phase EXCEPT ![p] = c], UNCHANGED <<outcome, took>>
    PROVE  EffectKnown'
<1>1. took'[p] = FALSE
  BY DEF EffectKnown
<1>2. \A q \in Clients \ {p} : took'[q] = took[q] /\ outcome'[q] = outcome[q]
  OBVIOUS
<1> QED
  BY <1>1, <1>2, EffectFrame

\* A step that ends the work with an answer: "ok" only with the effect.
LEMMA EffectFinishes ==
    ASSUME Typed, EffectKnown, NEW p \in Clients, NEW c, NEW r,
           phase[p] \notin {"unlock", "done"}, Finish(p, r, c),
           took' = took \/ took' = [took EXCEPT ![p] = TRUE],
           c \in {"unlock", "done"}, r = "ok" => took' = [took EXCEPT ![p] = TRUE]
    PROVE  EffectKnown'
<1>1. phase' = [phase EXCEPT ![p] = c] /\ outcome'[p] = r
  BY DEF Finish, Typed, ServiceTypeOK
<1>2. \A q \in Clients \ {p} : took'[q] = took[q] /\ outcome'[q] = outcome[q]
  BY DEF Finish, Typed, ServiceTypeOK
<1>3. r = "ok" => took'[p] = TRUE
  BY DEF Typed, ServiceTypeOK
<1> QED
  BY <1>1, <1>2, <1>3, EffectFrame

LEMMA EffectLoaded ==
    ASSUME Typed, EffectKnown, NEW p \in Clients, NEW reg,
           phase[p] \notin {"unlock", "done"},
           LoadDone(p, reg) \/ AppendTo(p, reg) \/ MarkIn(p, reg)
    PROVE  EffectKnown'
<1>1. CASE LoadDone(p, reg)
  <2>1. Finish(p, "ok", "unlock") /\ took' = [took EXCEPT ![p] = TRUE]
    BY <1>1 DEF LoadDone
  <2> QED
    BY <2>1, EffectFinishes
<1>2. CASE AppendTo(p, reg) /\ CanAppend(reg, arg[p])
  <2>1. phase' = [phase EXCEPT ![p] = "upload"] /\ UNCHANGED <<outcome, took>>
    BY <1>2 DEF AppendTo
  <2> QED
    BY <2>1, EffectMoves
<1>3. CASE AppendTo(p, reg) /\ ~CanAppend(reg, arg[p])
  <2>1. Finish(p, "error", "unlock") /\ took' = took
    BY <1>3 DEF AppendTo
  <2> QED
    BY <2>1, EffectFinishes
<1>4. CASE MarkIn(p, reg)
  <2>1. phase' = [phase EXCEPT ![p] = "upload"] /\ UNCHANGED <<outcome, took>>
    BY <1>4 DEF MarkIn
  <2> QED
    BY <2>1, EffectMoves
<1> QED
  BY <1>1, <1>2, <1>3, <1>4

LEMMA EffectCallStep ==
    ASSUME Typed, EffectKnown, NEW p \in Clients, CallStep(p)
    PROVE  EffectKnown'
<1>1. CASE AcquireLock(p) \/ StatLock(p) \/ RenameLock(p)
  <2>1. PICK c \in {"rename", "download"} : phase' = [phase EXCEPT ![p] = c]
    BY <1>1 DEF AcquireLock, StatLock, RenameLock
  <2>2. phase[p] \in {"lock", "rename"} /\ UNCHANGED <<outcome, took>>
    BY <1>1 DEF AcquireLock, StatLock, RenameLock
  <2> QED
    BY <2>1, <2>2, EffectMoves
<1>2. CASE LockFails(p) \/ CallFails(p) \/ ParseFails(p) \/ ReplaceFails(p)
  <2>1. PICK c \in {"unlock", "done"} : Finish(p, "error", c)
    BY <1>2 DEF LockFails, CallFails, ParseFails, ReplaceFails
  <2>2. \A q \in Clients \ {p} : took'[q] = took[q]
    BY <1>2 DEF LockFails, CallFails, ParseFails, ReplaceFails, Typed, ServiceTypeOK
  <2>3. outcome'[p] = "error"
    BY <2>1 DEF Finish, Typed, ServiceTypeOK
  <2>4. \A q \in Clients \ {p} : took'[q] = took[q] /\ outcome'[q] = outcome[q]
    BY <2>1, <2>2 DEF Finish, Typed, ServiceTypeOK
  <2> QED
    BY <2>1, <2>3, <2>4, EffectFrame DEF Finish
<1>3. CASE ReleaseLock(p) \/ UnlockFails(p)
  <2>1. /\ phase[p] = "unlock" /\ phase' = [phase EXCEPT ![p] = "done"]
        /\ took' = took /\ outcome' = outcome
    BY <1>3 DEF ReleaseLock, UnlockFails
  <2>2. outcome'[p] = "ok" => took'[p] = TRUE
    BY <2>1 DEF EffectKnown
  <2> QED
    BY <2>1, <2>2, EffectFrame
<1>4. CASE DownloadFound(p)
  BY <1>4, EffectLoaded DEF DownloadFound
<1>5. CASE DownloadMissing(p)
  <2>1. CASE phase' = [phase EXCEPT ![p] = "list"] /\ UNCHANGED <<outcome, took>>
    BY <1>5, <2>1, EffectMoves DEF DownloadMissing
  <2> QED
    BY <1>5, <2>1, EffectLoaded DEF DownloadMissing
<1>6. CASE ListObjects(p)
  <2>1. CASE LoadDone(p, {})
    BY <1>6, <2>1, EffectLoaded DEF ListObjects
  <2>2. CASE phase' = [phase EXCEPT ![p] = "upload"] /\ UNCHANGED <<outcome, took>>
    BY <1>6, <2>2, EffectMoves DEF ListObjects
  <2>3. CASE Finish(p, "error", "unlock") /\ UNCHANGED took
    BY <2>3, EffectFrame DEF Finish, Typed, ServiceTypeOK
  <2> QED
    BY <1>6, <2>1, <2>2, <2>3 DEF ListObjects
<1>7. CASE UploadRegistry(p) \/ UploadAmbiguous(p) \/ RenameTemp(p)
  <2>1. /\ phase[p] \in {"upload", "replace"} /\ took' = [took EXCEPT ![p] = TRUE]
        /\ Finish(p, "ok", "unlock") \/ Finish(p, "error", "unlock")
    BY <1>7 DEF UploadRegistry, UploadAmbiguous, RenameTemp
  <2> QED
    BY <2>1, EffectFinishes
<1>8. CASE StoreTemp(p) \/ TempStored(p)
  <2>1. PICK c \in {"store", "replace"} : phase' = [phase EXCEPT ![p] = c]
    BY <1>8 DEF StoreTemp, TempStored
  <2>2. phase[p] \in {"upload", "store"} /\ UNCHANGED <<outcome, took>>
    BY <1>8 DEF StoreTemp, TempStored
  <2> QED
    BY <2>1, <2>2, EffectMoves
<1> QED
  BY <1>1, <1>2, <1>3, <1>4, <1>5, <1>6, <1>7, <1>8 DEF CallStep

LEMMA EffectStep ==
    ASSUME Typed, EffectKnown, [ServiceNext]_serviceVars
    PROVE  EffectKnown'
<1>1. CASE UNCHANGED <<phase, outcome, took>>
  BY <1>1 DEF EffectKnown
<1>2. CASE UNCHANGED serviceVars \/ ObjectsChange
           \/ \E p \in Clients : Cancel(p) \/ Renew(p)
  BY <1>1, <1>2 DEF serviceVars, call, ObjectsChange, Cancel, Renew
<1>3. ASSUME NEW p \in Clients, NEW o, NEW e, Invoke(p, o, e)
      PROVE  EffectKnown'
  BY <1>3, EffectFrame DEF Invoke, EffectKnown
<1>4. ASSUME NEW p \in Clients, CallStep(p)
      PROVE  EffectKnown'
  BY <1>4, EffectCallStep
<1>5. ASSUME NEW p \in Clients, Return(p) \/ Crash(p)
      PROVE  EffectKnown'
  <2>1. Forget(p)
    BY <1>5 DEF Return, Crash
  <2>2. took'[p] = FALSE /\ outcome'[p] = "error"
    BY <2>1 DEF Forget, Typed, ServiceTypeOK
  <2>3. \A q \in Clients \ {p} : took'[q] = took[q] /\ outcome'[q] = outcome[q]
    BY <2>1 DEF Forget, Typed, ServiceTypeOK
  <2> QED
    BY <2>1, <2>2, <2>3, EffectFrame DEF Forget
<1> QED
  BY <1>2, <1>3, <1>4, <1>5 DEF ServiceNext

----------------------------------------------------------------------------
\* Steps that only move a call on, somewhere its caller cannot see.
LEMMA SilentStep ==
    ASSUME Typed, EffectKnown, NEW p \in Clients, NEW c \in Phases \ {"idle", "done"},
           phase[p] \notin {"idle", "done"}, took[p] = FALSE,
           phase' = [phase EXCEPT ![p] = c],
           UNCHANGED <<store, op, arg, took>>,
           \A q \in Clients \ {p} : buf'[q] = buf[q] /\ outcome'[q] = outcome[q]
    PROVE  UNCHANGED Atomic!vars
<1>1. \A q \in Clients : (phase'[q] \in {"idle", "done"}) = (phase[q] \in {"idle", "done"})
  BY DEF Typed, ServiceTypeOK
<1>2. \A q \in Clients : phase[q] \in {"idle", "done"} => phase'[q] = phase[q]
  BY DEF Typed, ServiceTypeOK
<1>3. \A q \in Clients : q # p => buf'[q] = buf[q] /\ outcome'[q] = outcome[q]
  OBVIOUS
<1>4. phase'[p] # "done" /\ phase[p] # "done"
  BY DEF Typed, ServiceTypeOK
<1>5. \A q \in Clients : (IF took'[q] THEN buf'[q] ELSE {}) = (IF took[q] THEN buf[q] ELSE {})
  BY <1>3
<1>6. \A q \in Clients : (IF phase'[q] = "done" THEN outcome'[q] ELSE "error")
                            = (IF phase[q] = "done" THEN outcome[q] ELSE "error")
  BY <1>1, <1>2, <1>3, <1>4
<1>7. \A q \in Clients : (IF phase'[q] \in {"idle", "done"} THEN phase'[q] ELSE "pending")
                            = (IF phase[q] \in {"idle", "done"} THEN phase[q] ELSE "pending")
  BY <1>1, <1>2
<1> QED
  BY <1>5, <1>6, <1>7 DEF Atomic!vars

\* The start of a call.
LEMMA InvokeIsStart ==
    ASSUME Typed, EffectKnown, NEW p \in Clients, NEW o, NEW e, Invoke(p, o, e),
           \/ o \in {"load", "recover"} /\ e = NoEntry
           \/ o \in {"append", "mark"} /\ e \in Entry
    PROVE  Atomic!Start(p)
<1>1. phase[p] = "idle" /\ phase' = [phase EXCEPT ![p] = "lock"]
  BY DEF Invoke
<1>2. phase'[p] = "lock" /\ \A q \in Clients \ {p} : phase'[q] = phase[q]
  BY <1>1 DEF Typed, ServiceTypeOK
<1>3. [q \in Clients |-> IF phase'[q] \in {"idle", "done"} THEN phase'[q] ELSE "pending"]
        = [[q \in Clients |-> IF phase[q] \in {"idle", "done"} THEN phase[q] ELSE "pending"]
              EXCEPT ![p] = "pending"]
  BY <1>2
<1>4. \A q \in Clients : (IF phase'[q] = "done" THEN outcome'[q] ELSE "error")
                            = (IF phase[q] = "done" THEN outcome[q] ELSE "error")
  BY <1>1, <1>2 DEF Invoke
<1>5. e \in Entry => e \in Atomic!Entry
  BY DEF Entry, Atomic!Entry, Statuses, Atomic!Statuses
<1>6. /\ op' = [op EXCEPT ![p] = o]
      /\ arg' = [arg EXCEPT ![p] = e]
  BY DEF Invoke
<1> QED
  BY <1>1, <1>3, <1>4, <1>5, <1>6 DEF Invoke, storage, Atomic!Start

\* The instance repeats the definitions of RegistryDomain.
LEMMA SameContents ==
    ASSUME NEW s PROVE Atomic!Contents(s) = Contents(s)
BY DEF Contents, Atomic!Contents, NoRegistry, Atomic!NoRegistry

LEMMA SameMarked ==
    ASSUME NEW reg, NEW e PROVE Atomic!Marked(reg, e) = Marked(reg, e)
BY DEF Marked, Atomic!Marked, IDOf, Atomic!IDOf

LEMMA SameCanAppend ==
    ASSUME NEW reg, NEW e PROVE Atomic!CanAppend(reg, e) = CanAppend(reg, e)
BY DEF CanAppend, Atomic!CanAppend, IDOf, Atomic!IDOf, FileOf, Atomic!FileOf

LEMMA SameRebuilt ==
    ASSUME NEW F
    PROVE  /\ Atomic!Rebuilt(F) = Rebuilt(F)
           /\ Atomic!Valid(Rebuilt(F)) = Valid(Rebuilt(F))
           /\ Atomic!Files = Files
<1>1. Atomic!Rebuilt(F) = Rebuilt(F)
  BY DEF Rebuilt, Atomic!Rebuilt, NewEntry, Atomic!NewEntry
<1>2. Atomic!Valid(Rebuilt(F)) = Valid(Rebuilt(F))
  BY DEF Valid, Atomic!Valid, IDOf, Atomic!IDOf, FileOf, Atomic!FileOf
<1> QED
  BY <1>1, <1>2 DEF Files, Atomic!Files

\* What a save writes is what its operation does to the registry.
LEMMA WriteIsEffect ==
    ASSUME NEW p \in Clients, phase[p] \in Writing, CurrentFor(p), store' = buf[p]
    PROVE  Atomic!Effect(op[p], arg[p])
<1>1. CASE /\ op[p] = "append" /\ CanAppend(Contents(store), arg[p])
           /\ buf[p] = Contents(store) \cup {arg[p]}
  BY <1>1, SameContents, SameCanAppend DEF Atomic!Effect
<1>2. CASE op[p] = "mark" /\ buf[p] = Marked(Contents(store), arg[p])
  BY <1>2, SameContents, SameMarked DEF Atomic!Effect
<1>3. ASSUME op[p] = "recover", store = NoRegistry, NEW F \in SUBSET Files,
             F # {}, Valid(Rebuilt(F)), buf[p] = Rebuilt(F)
      PROVE  Atomic!Effect(op[p], arg[p])
  <2>1. /\ F \in SUBSET Atomic!Files /\ Atomic!Valid(Atomic!Rebuilt(F))
        /\ store' = Atomic!Rebuilt(F)
    BY <1>3, SameRebuilt
  <2>2. store = Atomic!NoRegistry
    BY <1>3 DEF NoRegistry, Atomic!NoRegistry
  <2> QED
    BY <1>3, <2>1, <2>2 DEF Atomic!Effect
<1> QED
  BY <1>1, <1>2, <1>3 DEF CurrentFor

\* A call that leaves its working phases with its effect is that effect.
LEMMA TakesEffect ==
    ASSUME Typed, EffectKnown, NEW p \in Clients,
           phase[p] \notin {"idle", "unlock", "done"},
           phase' = [phase EXCEPT ![p] = "unlock"],
           took' = [took EXCEPT ![p] = TRUE],
           buf' = [buf EXCEPT ![p] = Contents(store')],
           UNCHANGED <<op, arg>>,
           \A q \in Clients \ {p} : outcome'[q] = outcome[q],
           Atomic!Effect(op[p], arg[p])
    PROVE  Atomic!TakeEffect(p)
<1>1. phase'[p] = "unlock" /\ \A q \in Clients \ {p} : phase'[q] = phase[q]
  BY DEF Typed, ServiceTypeOK
<1>2. /\ took[p] = FALSE /\ took'[p] = TRUE /\ buf'[p] = Contents(store')
      /\ \A q \in Clients \ {p} : took'[q] = took[q] /\ buf'[q] = buf[q]
  BY DEF Typed, ServiceTypeOK, EffectKnown
<1>3. \A q \in Clients : (IF phase'[q] \in {"idle", "done"} THEN phase'[q] ELSE "pending")
                            = (IF phase[q] \in {"idle", "done"} THEN phase[q] ELSE "pending")
  BY <1>1
<1>4. \A q \in Clients : (IF phase'[q] = "done" THEN outcome'[q] ELSE "error")
                            = (IF phase[q] = "done" THEN outcome[q] ELSE "error")
  BY <1>1
<1>5. [q \in Clients |-> IF took'[q] THEN buf'[q] ELSE {}]
        = [[q \in Clients |-> IF took[q] THEN buf[q] ELSE {}] EXCEPT ![p] = Contents(store')]
  BY <1>2
<1>6. ~took[p] /\ Atomic!Contents(store') = Contents(store')
  BY <1>2, SameContents
<1>7. UNCHANGED <<[q \in Clients |-> IF phase[q] \in {"idle", "done"} THEN phase[q] ELSE "pending"],
                  op, arg,
                  [q \in Clients |-> IF phase[q] = "done" THEN outcome[q] ELSE "error"]>>
  BY <1>3, <1>4
<1>8. [q \in Clients |-> IF phase[q] \in {"idle", "done"} THEN phase[q] ELSE "pending"][p] = "pending"
  OBVIOUS
<1> QED
  BY <1>5, <1>6, <1>7, <1>8 DEF Atomic!TakeEffect

\* The lock is released, or was never got: the caller gets its answer.
LEMMA Responds ==
    ASSUME Typed, EffectKnown, NEW p \in Clients, NEW r \in {"ok", "error"},
           phase[p] \notin {"idle", "done"},
           phase' = [phase EXCEPT ![p] = "done"],
           UNCHANGED <<store, op, arg, took, buf>>,
           \A q \in Clients \ {p} : outcome'[q] = outcome[q],
           outcome'[p] = r, r = "ok" => took[p] = TRUE
    PROVE  Atomic!Respond(p, r)
<1>1. phase'[p] = "done" /\ \A q \in Clients \ {p} : phase'[q] = phase[q]
  BY DEF Typed, ServiceTypeOK
<1>2. [q \in Clients |-> IF phase'[q] \in {"idle", "done"} THEN phase'[q] ELSE "pending"]
        = [[q \in Clients |-> IF phase[q] \in {"idle", "done"} THEN phase[q] ELSE "pending"]
              EXCEPT ![p] = "done"]
  BY <1>1
<1>3. [q \in Clients |-> IF phase'[q] = "done" THEN outcome'[q] ELSE "error"]
        = [[q \in Clients |-> IF phase[q] = "done" THEN outcome[q] ELSE "error"]
              EXCEPT ![p] = r]
  BY <1>1
<1> QED
  BY <1>2, <1>3 DEF Atomic!Respond

\* The caller takes the answer, or dies.
LEMMA ForgetEnds ==
    ASSUME Typed, NEW p \in Clients, phase[p] # "idle", Forget(p), store' = store
    PROVE  Atomic!End(p)
<1>1. /\ phase'[p] = "idle" /\ took'[p] = FALSE
      /\ \A q \in Clients \ {p} : /\ phase'[q] = phase[q] /\ took'[q] = took[q]
                                  /\ buf'[q] = buf[q] /\ outcome'[q] = outcome[q]
  BY DEF Forget, Typed, ServiceTypeOK
<1>2. [q \in Clients |-> IF phase'[q] \in {"idle", "done"} THEN phase'[q] ELSE "pending"]
        = [[q \in Clients |-> IF phase[q] \in {"idle", "done"} THEN phase[q] ELSE "pending"]
              EXCEPT ![p] = "idle"]
  BY <1>1
<1>3. [q \in Clients |-> IF phase'[q] = "done" THEN outcome'[q] ELSE "error"]
        = [[q \in Clients |-> IF phase[q] = "done" THEN outcome[q] ELSE "error"]
              EXCEPT ![p] = "error"]
  BY <1>1
<1>4. [q \in Clients |-> IF took'[q] THEN buf'[q] ELSE {}]
        = [[q \in Clients |-> IF took[q] THEN buf[q] ELSE {}] EXCEPT ![p] = {}]
  BY <1>1
<1> QED
  BY <1>2, <1>3, <1>4 DEF Forget, Atomic!End, Atomic!Idle

\* An operation on what it has loaded: a Load has its effect, the others wait
\* for the upload, and an append of a duplicate only has its answer.
LEMMA LoadedStep ==
    ASSUME Typed, EffectKnown, NEW p \in Clients,
           phase[p] \in {"download", "list"}, UNCHANGED <<store, op, arg>>,
           LoadDone(p, Contents(store)) \/ AppendTo(p, Contents(store))
              \/ MarkIn(p, Contents(store))
    PROVE  Atomic!TakeEffect(p) \/ UNCHANGED Atomic!vars
<1> USE DEF Typed
<1>1. took[p] = FALSE
  BY DEF EffectKnown
<1>2. CASE LoadDone(p, Contents(store))
  <2>1. Atomic!Effect(op[p], arg[p])
    BY <1>2 DEF LoadDone, Atomic!Effect
  <2>2. \A q \in Clients \ {p} : outcome'[q] = outcome[q]
    BY <1>2 DEF LoadDone, Finish, ServiceTypeOK
  <2> QED
    BY <1>2, <2>1, <2>2, TakesEffect DEF LoadDone, Finish
<1>3. CASE AppendTo(p, Contents(store)) \/ MarkIn(p, Contents(store))
  <2>1. PICK c \in {"upload", "unlock"} : phase' = [phase EXCEPT ![p] = c]
    BY <1>3 DEF AppendTo, MarkIn, Finish
  <2>2. /\ took' = took
        /\ \A q \in Clients \ {p} : buf'[q] = buf[q] /\ outcome'[q] = outcome[q]
    BY <1>3 DEF AppendTo, MarkIn, Finish, ServiceTypeOK
  <2>3. c \in Phases \ {"idle", "done"}
    BY <2>1 DEF Phases, Critical
  <2> QED
    BY <1>1, <2>1, <2>2, <2>3, SilentStep
<1> QED
  BY <1>2, <1>3

LEMMA CallStepRefines ==
    ASSUME Locked, EffectKnown, LockExclusive, NEW p \in Clients, CallStep(p)
    PROVE  Atomic!Next \/ UNCHANGED Atomic!vars
<1> USE DEF Locked, Typed
<1> SUFFICES \/ Atomic!TakeEffect(p) \/ UNCHANGED Atomic!vars
             \/ \E r \in {"ok", "error"} : Atomic!Respond(p, r)
  BY DEF Atomic!Next
<1>1. CASE AcquireLock(p) \/ StatLock(p) \/ RenameLock(p)
  <2>1. PICK c \in {"rename", "download"} : phase' = [phase EXCEPT ![p] = c]
    BY <1>1 DEF AcquireLock, StatLock, RenameLock
  <2>2. /\ phase[p] \in {"lock", "rename"}
        /\ UNCHANGED <<store, op, arg, buf, outcome, took>>
    BY <1>1 DEF AcquireLock, StatLock, RenameLock, storage
  <2>3. took[p] = FALSE
    BY <2>2 DEF EffectKnown
  <2> QED
    BY <2>1, <2>2, <2>3, SilentStep DEF Phases, Critical
<1>2. CASE StoreTemp(p) \/ TempStored(p)
  <2>1. PICK c \in {"store", "replace"} : phase' = [phase EXCEPT ![p] = c]
    BY <1>2 DEF StoreTemp, TempStored
  <2>2. phase[p] \in {"upload", "store"} /\ UNCHANGED <<op, arg, buf, outcome, took>>
    BY <1>2 DEF StoreTemp, TempStored
  <2>3. store' = store
    BY <1>2, TornIsTold DEF StoreTemp, TempStored, TempOwned
  <2>4. took[p] = FALSE
    BY <2>2 DEF EffectKnown
  <2> QED
    BY <2>1, <2>2, <2>3, <2>4, SilentStep DEF Phases, Critical
<1>3. CASE LockFails(p)
  <2>1. /\ phase[p] \in {"lock", "rename"} /\ Finish(p, "error", "done")
        /\ UNCHANGED <<store, op, arg, buf, took>>
    BY <1>3 DEF LockFails
  <2>2. /\ outcome'[p] = "error"
        /\ \A q \in Clients \ {p} : outcome'[q] = outcome[q]
    BY <2>1 DEF Finish, ServiceTypeOK
  <2>3. Atomic!Respond(p, "error")
    BY <2>1, <2>2, Responds DEF Finish
  <2> QED
    BY <2>3
<1>4. CASE DownloadFound(p)
  <2>1. Contents(store) = store
    BY <1>4 DEF DownloadFound, Contents
  <2> QED
    BY <1>4, <2>1, LoadedStep DEF DownloadFound, storage
<1>5. CASE DownloadMissing(p)
  <2>1. Contents(store) = {} /\ phase[p] = "download" /\ UNCHANGED <<store, op, arg>>
    BY <1>5 DEF DownloadMissing, Contents, storage
  <2>2. CASE phase' = [phase EXCEPT ![p] = "list"] /\ UNCHANGED <<buf, outcome, took>>
    <3>1. took[p] = FALSE
      BY <2>1 DEF EffectKnown
    <3> QED
      BY <2>1, <2>2, <3>1, SilentStep DEF Phases, Critical
  <2>3. CASE LoadDone(p, {}) \/ AppendTo(p, {}) \/ MarkIn(p, {})
    BY <2>1, <2>3, LoadedStep
  <2> QED
    BY <1>5, <2>2, <2>3 DEF DownloadMissing
<1>6. CASE ListObjects(p)
  <2>1. /\ Contents(store) = {} /\ phase[p] = "list" /\ UNCHANGED <<store, op, arg>>
        /\ took[p] = FALSE
    BY <1>6 DEF ListObjects, Contents, storage, Current, CurrentFor, EffectKnown
  <2>2. CASE LoadDone(p, {})
    BY <2>1, <2>2, LoadedStep
  <2>3. CASE /\ buf' = [buf EXCEPT ![p] = Rebuilt(Stored)]
             /\ phase' = [phase EXCEPT ![p] = "upload"] /\ UNCHANGED <<outcome, took>>
    <3>1. \A q \in Clients \ {p} : buf'[q] = buf[q] /\ outcome'[q] = outcome[q]
      BY <2>3 DEF ServiceTypeOK
    <3> QED
      BY <2>1, <2>3, <3>1, SilentStep DEF Phases, Critical
  <2>4. CASE Finish(p, "error", "unlock") /\ UNCHANGED <<buf, took>>
    <3>1. \A q \in Clients \ {p} : buf'[q] = buf[q] /\ outcome'[q] = outcome[q]
      BY <2>4 DEF Finish, ServiceTypeOK
    <3> QED
      BY <2>1, <2>4, <3>1, SilentStep DEF Finish, Phases, Critical
  <2> QED
    BY <1>6, <2>2, <2>3, <2>4 DEF ListObjects
<1>7. CASE /\ UploadRegistry(p) \/ UploadAmbiguous(p) \/ RenameTemp(p) \/ ReplaceFails(p)
           /\ took' = [took EXCEPT ![p] = TRUE]
  <2>1. /\ phase[p] \in Writing /\ phase' = [phase EXCEPT ![p] = "unlock"]
        /\ UNCHANGED <<op, arg, buf>>
    BY <1>7 DEF UploadRegistry, UploadAmbiguous, RenameTemp, ReplaceFails, Finish, Writing
  <2>2. took[p] = FALSE /\ took'[p] = TRUE
    BY <1>7, <2>1 DEF EffectKnown, Writing, ServiceTypeOK
  <2>3. store' = buf[p]
    BY <1>7, <2>2 DEF UploadRegistry, UploadAmbiguous, RenameTemp, ReplaceFails, TempOwned
  <2>4. \A q \in Clients \ {p} : outcome'[q] = outcome[q]
    BY <1>7
       DEF UploadRegistry, UploadAmbiguous, RenameTemp, ReplaceFails, Finish, ServiceTypeOK
  <2>5. Atomic!Effect(op[p], arg[p])
    BY <2>1, <2>3, WriteIsEffect DEF Current
  <2>6. Contents(store') = buf[p]
    BY <2>3, EntriesAreARegistry DEF ServiceTypeOK
  <2>7. buf' = [buf EXCEPT ![p] = Contents(store')]
    BY <2>1, <2>6 DEF ServiceTypeOK
  <2>8. phase[p] \notin {"idle", "unlock", "done"}
    BY <2>1 DEF Writing
  <2> QED
    BY <1>7, <2>1, <2>4, <2>5, <2>7, <2>8, TakesEffect
<1>8. CASE CallFails(p) \/ ParseFails(p) \/ (ReplaceFails(p) /\ took' = took)
  <2>1. /\ phase[p] \in {"download", "list", "upload", "store", "replace"}
        /\ Finish(p, "error", "unlock")
        /\ UNCHANGED <<op, arg, buf, took>>
    BY <1>8 DEF CallFails, ParseFails, ReplaceFails
  <2>2. /\ took[p] = FALSE
        /\ \A q \in Clients \ {p} : outcome'[q] = outcome[q]
    BY <2>1 DEF Finish, ServiceTypeOK, EffectKnown
  <2>3. store' = store
    BY <1>8, <2>2 DEF CallFails, ParseFails, ReplaceFails, storage, ServiceTypeOK
  <2> QED
    BY <2>1, <2>2, <2>3, SilentStep DEF Finish, Phases, Critical
<1>10. UploadRegistry(p) \/ UploadAmbiguous(p) \/ RenameTemp(p) \/ ReplaceFails(p) =>
           took' = [took EXCEPT ![p] = TRUE] \/ (ReplaceFails(p) /\ took' = took)
  BY DEF UploadRegistry, UploadAmbiguous, RenameTemp, ReplaceFails
<1>9. CASE ReleaseLock(p) \/ UnlockFails(p)
  <2>1. /\ phase[p] = "unlock" /\ phase' = [phase EXCEPT ![p] = "done"]
        /\ UNCHANGED <<store, op, arg, buf, outcome, took>>
    BY <1>9 DEF ReleaseLock, UnlockFails, storage
  <2>2. PICK r \in {"ok", "error"} : outcome[p] = r /\ (r = "ok" => took[p] = TRUE)
    BY <2>1 DEF EffectKnown, ServiceTypeOK
  <2>3. Atomic!Respond(p, r)
    BY <2>1, <2>2, Responds
  <2> QED
    BY <2>2, <2>3
<1> QED
  BY <1>1, <1>2, <1>3, <1>4, <1>5, <1>6, <1>7, <1>8, <1>9, <1>10 DEF CallStep

LEMMA StepRefines ==
    ASSUME Locked, EffectKnown, LockExclusive, [ServiceNext]_serviceVars
    PROVE  [Atomic!Next]_Atomic!vars
<1>1. CASE UNCHANGED <<store, phase, op, arg, buf, outcome, took>>
  BY <1>1 DEF Atomic!vars
<1>2. CASE UNCHANGED serviceVars \/ ObjectsChange
           \/ \E p \in Clients : Cancel(p) \/ Renew(p)
  BY <1>1, <1>2 DEF serviceVars, storage, call, ObjectsChange, Cancel, Renew
<1>3. ASSUME NEW p \in Clients, NEW o \in {"load", "recover"}, Invoke(p, o, NoEntry)
      PROVE  Atomic!Next
  BY <1>3, InvokeIsStart DEF Locked, Atomic!Next
<1>4. ASSUME NEW p \in Clients, NEW o \in {"append", "mark"}, NEW e \in Entry, Invoke(p, o, e)
      PROVE  Atomic!Next
  BY <1>4, InvokeIsStart DEF Locked, Atomic!Next
<1>5. NewEntries \in SUBSET Entry /\ Ready(Entry) \in SUBSET Entry
  BY DEF NewEntries, Ready
<1>6. ASSUME NEW p \in Clients, CallStep(p)
      PROVE  [Atomic!Next]_Atomic!vars
  BY <1>6, CallStepRefines
<1>7. ASSUME NEW p \in Clients, Return(p) \/ Crash(p)
      PROVE  Atomic!Next
  <2>1. phase[p] # "idle" /\ Forget(p) /\ store' = store
    BY <1>7 DEF Return, Crash, storage
  <2> QED
    BY <2>1, ForgetEnds DEF Locked, Atomic!Next
<1> QED
  BY <1>2, <1>3, <1>4, <1>5, <1>6, <1>7 DEF ServiceNext

LEMMA InitRefines == ServiceInit => Atomic!Init /\ EffectKnown
<1> SUFFICES ASSUME ServiceInit PROVE Atomic!Init /\ EffectKnown
  OBVIOUS
<1>1. store = Atomic!NoRegistry
  BY DEF ServiceInit, NoRegistry, Atomic!NoRegistry
<1> QED
  BY <1>1 DEF ServiceInit, Atomic!Init, EffectKnown

\* The abstract specification is implemented: while the lock excludes, every call
\* of Load, Append and MarkDeleted acts in one instant, at most once, and "ok"
\* means that it did, although it is a read, a change and a write of a file.
THEOREM AtomicWhileExclusive == ServiceSpec => ([]LockExclusive => CallsAreAtomic)
<1>1. ServiceInit => Atomic!Init
  BY InitRefines
<1>2. ServiceInit => Typed /\ EffectKnown
  BY TypedInit, InitRefines
<1>3. Typed /\ EffectKnown /\ [ServiceNext]_serviceVars => (Typed /\ EffectKnown)'
  BY TypedStep, EffectStep
<1>4. ServiceSpec => ([]LockExclusive => []Locked)
  BY LockedWhileExclusive
<1>5. Locked /\ EffectKnown /\ LockExclusive /\ [ServiceNext]_serviceVars
         => [Atomic!Next]_Atomic!vars
  BY StepRefines
<1> QED
  BY <1>1, <1>2, <1>3, <1>4, <1>5, PTL DEF ServiceSpec, CallsAreAtomic, Atomic!Spec

\* With a file system or s3 that is always so: whatever fails, is cancelled or
\* crashes, the service is an atomic registry.
THEOREM CallsActAtomically ==
    ASSUME Backend # "ftp"
    PROVE  ServiceSpec => CallsAreAtomic
<1>1. ServiceSpec => []LockExclusive
  BY LockIsExclusive
<1> QED
  BY <1>1, AtomicWhileExclusive, PTL
============================================================================
