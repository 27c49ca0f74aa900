------------------------------ MODULE Pipeline ------------------------------
(***************************************************************************)
(* pkg/pipeline: stages, each a goroutine, joined by io.Pipes.  Stage i      *)
(* reads pipe i-1 (the source for i = 1) and writes pipe i; a last           *)
(* goroutine, number Last, copies pipe Last-1 to the destination.            *)
(*                                                                         *)
(* An io.Pipe has no buffer: a write is over when the reader has taken it,  *)
(* or when the pipe is closed.  The stages are those of backup and restore: *)
(* they may write before they read (the header of an encrypted stream),     *)
(* write one chunk or none for each that they read, and write what is left  *)
(* at the end of their input; they look at the context now and then, fail   *)
(* for reasons of their own, and end well only after the end of their       *)
(* input.                                                                   *)
(***************************************************************************)
EXTENDS Integers, FiniteSets

CONSTANTS
    Stages,      \* the number of stages
    Chunks,      \* how much the source holds
    MaxFaults    \* bound: failures of a stage, the source or the destination

ASSUME PipelineAssumption ==
    /\ Stages \in Nat
    /\ Chunks \in Nat
    /\ MaxFaults \in Nat

Last == Stages + 1
Stage == 1..Stages
Workers == 1..Last
\* errCh is made with room for one error of each worker.
Capacity == Stages + 1

VARIABLES
    caller,    \* the caller's context is done
    ctx,       \* the pipeline's own context is cancelled
    worker,    \* per worker: what it is doing
    source,    \* the chunks that are left in the source
    closed,    \* per pipe: "no", closed at the "end" or with an "error"
    watching,  \* per pipe: the goroutine that closes it when the context is done
    errCh,     \* the workers whose errors are in the channel
    run,       \* "running" or "returned"
    answer,    \* the workers whose errors Run returns
    failed,    \* history: the workers that have failed
    faults

vars == <<caller, ctx, worker, source, closed, watching, errCh, run, answer, failed, faults>>

\* Working on the input, after its end, and after the stage's function has returned.
Busy == {"read", "write", "sent"}
Ending == {"flush", "flushed", "end"}
Doing == Busy \cup Ending \cup {"close", "report", "cancel", "done"}

TypeOK ==
    /\ caller \in BOOLEAN
    /\ ctx \in BOOLEAN
    /\ worker \in [Workers -> Doing]
    /\ source \in 0..Chunks
    /\ closed \in [Stage -> {"no", "end", "error"}]
    /\ watching \in [Stage -> BOOLEAN]
    /\ errCh \in SUBSET Workers
    /\ run \in {"running", "returned"}
    /\ answer \in SUBSET Workers
    /\ failed \in SUBSET Workers
    /\ faults \in 0..MaxFaults

Init ==
    /\ caller = FALSE
    /\ ctx = FALSE
    /\ worker \in [Workers -> {"read", "write"}] /\ worker[Last] = "read"
    /\ source = Chunks
    /\ closed = [i \in Stage |-> "no"]
    /\ watching = [i \in Stage |-> TRUE]
    /\ errCh = {}
    /\ run = "running"
    /\ answer = {}
    /\ failed = {}
    /\ faults = 0

Done == caller \/ ctx

Become(i, w) == worker' = [worker EXCEPT ![i] = w]

\* The worker ends with an error.
Fail(i) ==
    /\ failed' = failed \cup {i}
    /\ Become(i, IF i = Last THEN "report" ELSE "close")
    /\ UNCHANGED <<caller, ctx, source, closed, watching, errCh, run, answer>>

\* closeWith, at most once.
ClosePipe(i, how) ==
    closed' = IF closed[i] = "no" THEN [closed EXCEPT ![i] = how] ELSE closed

----------------------------------------------------------------------------
\* What a worker does after it has read a chunk.
AfterRead(i) == IF i = Last THEN {"read"} ELSE {"read", "write"}

\* A wrong source that is read past its end.
ReadSourceAgain ==
    /\ worker[1] = "read"
    /\ source >= 0
    /\ source' = source - 1
    /\ \E w \in AfterRead(1) : Become(1, w)
    /\ UNCHANGED <<caller, ctx, closed, watching, errCh, run, answer, failed, faults>>

\* The first worker reads the source.
ReadSource ==
    /\ worker[1] = "read"
    /\ source > 0
    /\ source' = source - 1
    /\ \E w \in AfterRead(1) : Become(1, w)
    /\ UNCHANGED <<caller, ctx, closed, watching, errCh, run, answer, failed, faults>>

\* Another worker takes the chunk its pipe's writer offers, whose write is over.
ReadPipe(i) ==
    /\ worker[i] = "read"
    /\ closed[i - 1] = "no"
    /\ worker[i - 1] \in {"sent", "flushed"}
    /\ \E w \in AfterRead(i) :
          worker' = [worker EXCEPT ![i - 1] = IF @ = "sent" THEN "read" ELSE "end", ![i] = w]
    /\ UNCHANGED <<caller, ctx, source, closed, watching, errCh, run, answer, failed, faults>>

\* The worker reads the end of its input; a stage may have a last chunk to write.
ReadEnd(i) ==
    /\ worker[i] = "read"
    /\ IF i = 1 THEN source = 0 ELSE closed[i - 1] = "end"
    /\ \E w \in IF i = Last THEN {"end"} ELSE {"flush", "end"} : Become(i, w)
    /\ UNCHANGED <<caller, ctx, source, closed, watching, errCh, run, answer, failed, faults>>

\* Nil is returned, and the deferred close of a stage ends its pipe.
End(i) ==
    /\ worker[i] = "end"
    /\ Become(i, "done")
    /\ IF i = Last THEN UNCHANGED closed ELSE ClosePipe(i, "end")
    /\ UNCHANGED <<caller, ctx, source, watching, errCh, run, answer, failed, faults>>

\* Its input was closed with an error, and so the worker ends with one.
ReadError(i) ==
    /\ worker[i] = "read"
    /\ closed[i - 1] = "error"
    /\ Fail(i)
    /\ UNCHANGED faults

\* A stage offers a chunk to the reader of its pipe.
Offer(i) ==
    /\ worker[i] \in {"write", "flush"}
    /\ closed[i] = "no"
    /\ Become(i, IF worker[i] = "write" THEN "sent" ELSE "flushed")
    /\ UNCHANGED <<caller, ctx, source, closed, watching, errCh, run, answer, failed, faults>>

\* Its pipe was closed under the writer.
WriteError(i) ==
    /\ worker[i] \in {"write", "sent", "flush", "flushed"}
    /\ closed[i] # "no"
    /\ Fail(i)
    /\ UNCHANGED faults

\* A stage sees that the context is done.
NoticeDone(i) ==
    /\ i \in Stage
    /\ worker[i] \in {"read", "write", "flush"}
    /\ Done
    /\ Fail(i)
    /\ UNCHANGED faults

\* The stage's own work, the source or the destination fails.
Break(i) ==
    /\ worker[i] \in {"read", "write", "flush"}
    /\ faults < MaxFaults
    /\ faults' = faults + 1
    /\ Fail(i)

\* A wrong end of a failed stage: its deferred close is the only one.
CloseFailedNil(i) ==
    /\ worker[i] = "close"
    /\ ClosePipe(i, "end")
    /\ Become(i, "report")
    /\ UNCHANGED <<caller, ctx, source, watching, errCh, run, answer, failed, faults>>

\* A failed stage closes its pipe with its error ...
CloseFailed(i) ==
    /\ worker[i] = "close"
    /\ ClosePipe(i, "error")
    /\ Become(i, "report")
    /\ UNCHANGED <<caller, ctx, source, watching, errCh, run, answer, failed, faults>>

\* A wrong report that leaves out what follows from the cancelled context.
ReportOwnErrors(i) ==
    /\ worker[i] = "report"
    /\ Cardinality(errCh) < Capacity
    /\ errCh' = IF Done THEN errCh ELSE errCh \cup {i}
    /\ Become(i, "cancel")
    /\ UNCHANGED <<caller, ctx, source, closed, watching, run, answer, failed, faults>>

\* ... sends the error ...
Report(i) ==
    /\ worker[i] = "report"
    /\ Cardinality(errCh) < Capacity
    /\ errCh' = errCh \cup {i}
    /\ Become(i, "cancel")
    /\ UNCHANGED <<caller, ctx, source, closed, watching, run, answer, failed, faults>>

\* A wrong end of a failed stage: the others are not cancelled.
CancelNobody(i) ==
    /\ worker[i] = "cancel"
    /\ Become(i, "done")
    /\ UNCHANGED <<caller, ctx, source, closed, watching, errCh, run, answer, failed, faults>>

\* ... and cancels the whole pipeline.
CancelAll(i) ==
    /\ worker[i] = "cancel"
    /\ ctx' = TRUE
    /\ Become(i, "done")
    /\ UNCHANGED <<caller, source, closed, watching, errCh, run, answer, failed, faults>>

\* The watcher of a pipe closes it with the context's error.
Watch(i) ==
    /\ watching[i]
    /\ Done
    /\ watching' = [watching EXCEPT ![i] = FALSE]
    /\ ClosePipe(i, "error")
    /\ UNCHANGED <<caller, ctx, worker, source, errCh, run, answer, failed, faults>>

\* wg.Wait returns, the errors are joined, and the deferred cancel ends the watchers.
Return ==
    /\ run = "running"
    /\ \A i \in Workers : worker[i] = "done"
    /\ run' = "returned"
    /\ answer' = errCh
    /\ ctx' = TRUE
    /\ UNCHANGED <<caller, worker, source, closed, watching, errCh, failed, faults>>

\* A signal or a timeout.
CallerCancels ==
    /\ ~caller
    /\ run = "running"
    /\ caller' = TRUE
    /\ UNCHANGED <<ctx, worker, source, closed, watching, errCh, run, answer, failed, faults>>

WorkerStep(i) ==
    \/ i = 1 /\ ReadSource
    \/ i > 1 /\ (ReadPipe(i) \/ ReadError(i))
    \/ ReadEnd(i) \/ End(i) \/ NoticeDone(i) \/ Break(i) \/ Report(i) \/ CancelAll(i)
    \/ /\ i \in Stage
       /\ Offer(i) \/ WriteError(i) \/ CloseFailed(i)

Next ==
    \/ \E i \in Workers : WorkerStep(i)
    \/ \E i \in Stage : Watch(i)
    \/ Return
    \/ CallerCancels

Spec == Init /\ [][Next]_vars

\* Every goroutine that can go on does; the caller need not ever cancel.
Fairness ==
    /\ \A i \in Workers : WF_vars(WorkerStep(i))
    /\ \A i \in Stage : WF_vars(Watch(i))
    /\ WF_vars(Return)

FairSpec == Spec /\ Fairness

----------------------------------------------------------------------------
\* The source has been read to its end, and the workers up to i have done all their
\* work and ended well: none of them still holds a chunk.
Whole(i) ==
    /\ source = 0
    /\ \A k \in 1..i : worker[k] = "done" /\ k \notin failed

\* A pipe that is closed without an error has carried everything: no failure and no
\* cancellation, in any order with the ends of the streams, passes for an end.  The
\* upload registers its archive when it reads an end, before Run has an answer.
EndMeansWhole == \A i \in Stage : closed[i] = "end" => Whole(i)

\* Run answers nil only when everything has arrived and every stage has ended well,
\* whoever cancels, and whatever the cancellation made of the other stages.
NilMeansWhole == run = "returned" /\ answer = {} => Whole(Last)

\* Run returns: a failing stage leaves nobody blocked on a pipe, though no reader
\* ever closes its end and no one cancels from outside; the watchers end as well.
RunReturns == <>(run = "returned" /\ \A i \in Stage : ~watching[i])
=============================================================================
