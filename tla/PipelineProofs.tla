--------------------------- MODULE PipelineProofs ---------------------------
(***************************************************************************)
(* The safety of the pipeline for any number of stages, any source and any  *)
(* number of failures.                                                      *)
(***************************************************************************)
EXTENDS Pipeline, TLAPS

\* Where a worker is tells whether it has failed, and whether its error is in errCh.
FailuresEnd ==
    \A i \in Workers :
        /\ worker[i] \in Busy \cup Ending => i \notin failed
        /\ worker[i] \in {"close", "report", "cancel"} => i \in failed
        /\ worker[i] \in {"cancel", "done"} /\ i \in failed => i \in errCh

\* Who is about to end well, or has, has seen the end of its input.
GoodEndsSawEnd ==
    \A i \in Workers :
        worker[i] \in Ending \cup {"done"} /\ i \notin failed =>
            IF i = 1 THEN source = 0 ELSE closed[i - 1] = "end"

\* What Run answers is what was in the channel when all had ended.
AnswerIsFinal ==
    run = "returned" => answer = errCh /\ \A i \in Workers : worker[i] = "done"

IInv == TypeOK /\ FailuresEnd /\ GoodEndsSawEnd /\ EndMeansWhole /\ AnswerIsFinal

LEMMA WorkerFacts ==
    /\ Last \in Nat \ {0}
    /\ Stage = Workers \ {Last}
    /\ \A i \in Workers : i \in Nat \ {0} /\ (i # 1 => i - 1 \in Stage /\ i - 1 \in Workers)
    /\ \A i \in Stage : i \in Workers /\ i # Last /\ i + 1 \in Workers
    /\ \A i \in Workers : \A k \in 1..i : k \in Workers
    /\ 1 \in Workers /\ Last \in Workers
BY PipelineAssumption DEF Last, Stage, Workers

LEMMA InitIInv == Init => IInv
<1> SUFFICES ASSUME Init PROVE IInv
    OBVIOUS
<1>1. TypeOK
  <2>1. /\ caller \in BOOLEAN /\ ctx \in BOOLEAN /\ watching \in [Stage -> BOOLEAN]
    BY DEF Init, Doing, Busy
  <2>2. /\ source \in 0..Chunks /\ faults \in 0..MaxFaults
    BY PipelineAssumption DEF Init
  <2>3. /\ worker \in [Workers -> Doing]
        /\ closed \in [Stage -> {"no", "end", "error"}]
        /\ run \in {"running", "returned"}
        /\ errCh \in SUBSET Workers /\ answer \in SUBSET Workers /\ failed \in SUBSET Workers
    BY DEF Init, Doing, Busy
  <2> QED
    BY <2>1, <2>2, <2>3 DEF TypeOK
<1>2. FailuresEnd /\ GoodEndsSawEnd
    BY DEF Init, FailuresEnd, GoodEndsSawEnd, Busy, Ending
<1>3. EndMeansWhole /\ AnswerIsFinal
    BY DEF Init, EndMeansWhole, AnswerIsFinal
<1> QED
    BY <1>1, <1>2, <1>3 DEF IInv

LEMMA NextIInv == IInv /\ [Next]_vars => IInv'
<1> SUFFICES ASSUME IInv, [Next]_vars PROVE IInv'
    OBVIOUS
<1> USE WorkerFacts DEF IInv, Doing, Busy, Ending
<1>1. ASSUME ReadSource PROVE IInv'
  <2>1. TypeOK'
    <3>1. source' \in 0..Chunks
      BY <1>1, PipelineAssumption DEF ReadSource, TypeOK
    <3>2. worker' \in [Workers -> Doing]
      BY <1>1 DEF ReadSource, AfterRead, Become, TypeOK
    <3> QED
      BY <1>1, <3>1, <3>2 DEF ReadSource, TypeOK
  <2>2. FailuresEnd'
    BY <1>1 DEF ReadSource, AfterRead, Become, TypeOK, FailuresEnd
  <2>3. GoodEndsSawEnd'
    BY <1>1 DEF ReadSource, AfterRead, Become, TypeOK, FailuresEnd, GoodEndsSawEnd
  <2>4. EndMeansWhole'
    BY <1>1 DEF ReadSource, AfterRead, Become, TypeOK, FailuresEnd, GoodEndsSawEnd, EndMeansWhole, Whole
  <2>5. AnswerIsFinal'
    BY <1>1 DEF ReadSource, AfterRead, Become, TypeOK, AnswerIsFinal
  <2> QED
    BY <2>1, <2>2, <2>3, <2>4, <2>5
<1>2. ASSUME NEW i \in Workers \ {1}, ReadPipe(i) PROVE IInv'
  <2>1. TypeOK'
    BY <1>2 DEF ReadPipe, AfterRead, TypeOK
  <2>2. FailuresEnd'
    BY <1>2 DEF ReadPipe, AfterRead, TypeOK, FailuresEnd
  <2>3. GoodEndsSawEnd'
    BY <1>2 DEF ReadPipe, AfterRead, TypeOK, FailuresEnd, GoodEndsSawEnd
  <2>4. EndMeansWhole'
    BY <1>2 DEF ReadPipe, AfterRead, TypeOK, FailuresEnd, GoodEndsSawEnd, EndMeansWhole, Whole
  <2>5. AnswerIsFinal'
    BY <1>2 DEF ReadPipe, AfterRead, TypeOK, AnswerIsFinal
  <2> QED
    BY <2>1, <2>2, <2>3, <2>4, <2>5
<1>3. ASSUME NEW i \in Workers, ReadEnd(i) PROVE IInv'
  <2>1. TypeOK'
    BY <1>3 DEF ReadEnd, Become, TypeOK
  <2>2. FailuresEnd'
    BY <1>3 DEF ReadEnd, Become, TypeOK, FailuresEnd
  <2>3. GoodEndsSawEnd'
    BY <1>3 DEF ReadEnd, Become, TypeOK, FailuresEnd, GoodEndsSawEnd
  <2>4. EndMeansWhole'
    BY <1>3 DEF ReadEnd, Become, TypeOK, FailuresEnd, GoodEndsSawEnd, EndMeansWhole, Whole
  <2>5. AnswerIsFinal'
    BY <1>3 DEF ReadEnd, Become, TypeOK, AnswerIsFinal
  <2> QED
    BY <2>1, <2>2, <2>3, <2>4, <2>5
<1>4. ASSUME NEW i \in Workers, End(i) PROVE IInv'
  <2>1. TypeOK'
    BY <1>4 DEF End, Become, ClosePipe, TypeOK
  <2>2. FailuresEnd'
    BY <1>4 DEF End, Become, ClosePipe, TypeOK, FailuresEnd
  <2>3. GoodEndsSawEnd'
    BY <1>4 DEF End, Become, ClosePipe, TypeOK, FailuresEnd, GoodEndsSawEnd
  <2>4. EndMeansWhole'
    BY <1>4 DEF End, Become, ClosePipe, TypeOK, FailuresEnd, GoodEndsSawEnd, EndMeansWhole, Whole
  <2>5. AnswerIsFinal'
    BY <1>4 DEF End, Become, ClosePipe, TypeOK, AnswerIsFinal
  <2> QED
    BY <2>1, <2>2, <2>3, <2>4, <2>5
<1>5. ASSUME NEW i \in Workers \ {1}, ReadError(i) PROVE IInv'
  <2>1. TypeOK'
    BY <1>5 DEF ReadError, Fail, Become, TypeOK
  <2>2. FailuresEnd'
    BY <1>5 DEF ReadError, Fail, Become, TypeOK, FailuresEnd
  <2>3. GoodEndsSawEnd'
    BY <1>5 DEF ReadError, Fail, Become, TypeOK, FailuresEnd, GoodEndsSawEnd
  <2>4. EndMeansWhole'
    BY <1>5 DEF ReadError, Fail, Become, TypeOK, FailuresEnd, GoodEndsSawEnd, EndMeansWhole, Whole
  <2>5. AnswerIsFinal'
    BY <1>5 DEF ReadError, Fail, Become, TypeOK, AnswerIsFinal
  <2> QED
    BY <2>1, <2>2, <2>3, <2>4, <2>5
<1>6. ASSUME NEW i \in Stage, Offer(i) PROVE IInv'
  <2>1. TypeOK'
    BY <1>6 DEF Offer, Become, TypeOK
  <2>2. FailuresEnd'
    BY <1>6 DEF Offer, Become, TypeOK, FailuresEnd
  <2>3. GoodEndsSawEnd'
    BY <1>6 DEF Offer, Become, TypeOK, FailuresEnd, GoodEndsSawEnd
  <2>4. EndMeansWhole'
    BY <1>6 DEF Offer, Become, TypeOK, FailuresEnd, GoodEndsSawEnd, EndMeansWhole, Whole
  <2>5. AnswerIsFinal'
    BY <1>6 DEF Offer, Become, TypeOK, AnswerIsFinal
  <2> QED
    BY <2>1, <2>2, <2>3, <2>4, <2>5
<1>7. ASSUME NEW i \in Stage, WriteError(i) PROVE IInv'
  <2>1. TypeOK'
    BY <1>7 DEF WriteError, Fail, Become, TypeOK
  <2>2. FailuresEnd'
    BY <1>7 DEF WriteError, Fail, Become, TypeOK, FailuresEnd
  <2>3. GoodEndsSawEnd'
    BY <1>7 DEF WriteError, Fail, Become, TypeOK, FailuresEnd, GoodEndsSawEnd
  <2>4. EndMeansWhole'
    BY <1>7 DEF WriteError, Fail, Become, TypeOK, FailuresEnd, GoodEndsSawEnd, EndMeansWhole, Whole
  <2>5. AnswerIsFinal'
    BY <1>7 DEF WriteError, Fail, Become, TypeOK, AnswerIsFinal
  <2> QED
    BY <2>1, <2>2, <2>3, <2>4, <2>5
<1>8. ASSUME NEW i \in Workers, NoticeDone(i) PROVE IInv'
  <2>1. TypeOK'
    BY <1>8 DEF NoticeDone, Fail, Become, TypeOK
  <2>2. FailuresEnd'
    BY <1>8 DEF NoticeDone, Fail, Become, TypeOK, FailuresEnd
  <2>3. GoodEndsSawEnd'
    BY <1>8 DEF NoticeDone, Fail, Become, TypeOK, FailuresEnd, GoodEndsSawEnd
  <2>4. EndMeansWhole'
    BY <1>8 DEF NoticeDone, Fail, Become, TypeOK, FailuresEnd, GoodEndsSawEnd, EndMeansWhole, Whole
  <2>5. AnswerIsFinal'
    BY <1>8 DEF NoticeDone, Fail, Become, TypeOK, AnswerIsFinal
  <2> QED
    BY <2>1, <2>2, <2>3, <2>4, <2>5
<1>9. ASSUME NEW i \in Workers, Break(i) PROVE IInv'
  <2>1. TypeOK'
    <3>1. faults' \in 0..MaxFaults
      BY <1>9, PipelineAssumption DEF Break, TypeOK
    <3>2. /\ worker' \in [Workers -> Doing]
          /\ failed' \in SUBSET Workers
      BY <1>9 DEF Break, Fail, Become, TypeOK
    <3> QED
      BY <1>9, <3>1, <3>2 DEF Break, Fail, TypeOK
  <2>2. FailuresEnd'
    BY <1>9 DEF Break, Fail, Become, TypeOK, FailuresEnd
  <2>3. GoodEndsSawEnd'
    BY <1>9 DEF Break, Fail, Become, TypeOK, FailuresEnd, GoodEndsSawEnd
  <2>4. EndMeansWhole'
    BY <1>9 DEF Break, Fail, Become, TypeOK, FailuresEnd, GoodEndsSawEnd, EndMeansWhole, Whole
  <2>5. AnswerIsFinal'
    BY <1>9 DEF Break, Fail, Become, TypeOK, AnswerIsFinal
  <2> QED
    BY <2>1, <2>2, <2>3, <2>4, <2>5
<1>10. ASSUME NEW i \in Stage, CloseFailed(i) PROVE IInv'
  <2>1. TypeOK'
    BY <1>10 DEF CloseFailed, Become, ClosePipe, TypeOK
  <2>2. FailuresEnd'
    BY <1>10 DEF CloseFailed, Become, ClosePipe, TypeOK, FailuresEnd
  <2>3. GoodEndsSawEnd'
    BY <1>10 DEF CloseFailed, Become, ClosePipe, TypeOK, FailuresEnd, GoodEndsSawEnd
  <2>4. EndMeansWhole'
    BY <1>10 DEF CloseFailed, Become, ClosePipe, TypeOK, FailuresEnd, GoodEndsSawEnd, EndMeansWhole, Whole
  <2>5. AnswerIsFinal'
    BY <1>10 DEF CloseFailed, Become, ClosePipe, TypeOK, AnswerIsFinal
  <2> QED
    BY <2>1, <2>2, <2>3, <2>4, <2>5
<1>11. ASSUME NEW i \in Workers, Report(i) PROVE IInv'
  <2>1. TypeOK'
    BY <1>11 DEF Report, Become, TypeOK
  <2>2. FailuresEnd'
    BY <1>11 DEF Report, Become, TypeOK, FailuresEnd
  <2>3. GoodEndsSawEnd'
    BY <1>11 DEF Report, Become, TypeOK, FailuresEnd, GoodEndsSawEnd
  <2>4. EndMeansWhole'
    BY <1>11 DEF Report, Become, TypeOK, FailuresEnd, GoodEndsSawEnd, EndMeansWhole, Whole
  <2>5. AnswerIsFinal'
    BY <1>11 DEF Report, Become, TypeOK, AnswerIsFinal
  <2> QED
    BY <2>1, <2>2, <2>3, <2>4, <2>5
<1>12. ASSUME NEW i \in Workers, CancelAll(i) PROVE IInv'
  <2>1. TypeOK'
    BY <1>12 DEF CancelAll, Become, TypeOK
  <2>2. FailuresEnd'
    BY <1>12 DEF CancelAll, Become, TypeOK, FailuresEnd
  <2>3. GoodEndsSawEnd'
    BY <1>12 DEF CancelAll, Become, TypeOK, FailuresEnd, GoodEndsSawEnd
  <2>4. EndMeansWhole'
    BY <1>12 DEF CancelAll, Become, TypeOK, FailuresEnd, GoodEndsSawEnd, EndMeansWhole, Whole
  <2>5. AnswerIsFinal'
    BY <1>12 DEF CancelAll, Become, TypeOK, AnswerIsFinal
  <2> QED
    BY <2>1, <2>2, <2>3, <2>4, <2>5
<1>13. ASSUME NEW i \in Stage, Watch(i) PROVE IInv'
  <2>1. TypeOK'
    BY <1>13 DEF Watch, ClosePipe, TypeOK
  <2>2. FailuresEnd'
    BY <1>13 DEF Watch, ClosePipe, TypeOK, FailuresEnd
  <2>3. GoodEndsSawEnd'
    BY <1>13 DEF Watch, ClosePipe, TypeOK, FailuresEnd, GoodEndsSawEnd
  <2>4. EndMeansWhole'
    BY <1>13 DEF Watch, ClosePipe, TypeOK, FailuresEnd, GoodEndsSawEnd, EndMeansWhole, Whole
  <2>5. AnswerIsFinal'
    BY <1>13 DEF Watch, ClosePipe, TypeOK, AnswerIsFinal
  <2> QED
    BY <2>1, <2>2, <2>3, <2>4, <2>5
<1>14. ASSUME Return PROVE IInv'
  <2>1. TypeOK'
    BY <1>14 DEF Return, TypeOK
  <2>2. FailuresEnd'
    BY <1>14 DEF Return, TypeOK, FailuresEnd
  <2>3. GoodEndsSawEnd'
    BY <1>14 DEF Return, TypeOK, FailuresEnd, GoodEndsSawEnd
  <2>4. EndMeansWhole'
    BY <1>14 DEF Return, TypeOK, FailuresEnd, GoodEndsSawEnd, EndMeansWhole, Whole
  <2>5. AnswerIsFinal'
    BY <1>14 DEF Return, TypeOK, AnswerIsFinal
  <2> QED
    BY <2>1, <2>2, <2>3, <2>4, <2>5
<1>15. ASSUME CallerCancels PROVE IInv'
  <2>1. TypeOK'
    BY <1>15 DEF CallerCancels, TypeOK
  <2>2. FailuresEnd'
    BY <1>15 DEF CallerCancels, TypeOK, FailuresEnd
  <2>3. GoodEndsSawEnd'
    BY <1>15 DEF CallerCancels, TypeOK, FailuresEnd, GoodEndsSawEnd
  <2>4. EndMeansWhole'
    BY <1>15 DEF CallerCancels, TypeOK, FailuresEnd, GoodEndsSawEnd, EndMeansWhole, Whole
  <2>5. AnswerIsFinal'
    BY <1>15 DEF CallerCancels, TypeOK, AnswerIsFinal
  <2> QED
    BY <2>1, <2>2, <2>3, <2>4, <2>5
<1>16. ASSUME UNCHANGED vars PROVE IInv'
    BY <1>16 DEF vars, TypeOK, FailuresEnd, GoodEndsSawEnd, EndMeansWhole, Whole, AnswerIsFinal
<1> QED
    BY <1>1, <1>2, <1>3, <1>4, <1>5, <1>6, <1>7, <1>8, <1>9, <1>10, <1>11, <1>12, <1>13, <1>14, <1>15, <1>16 DEF Next, WorkerStep

\* What Run returns nil for has arrived as a whole.
LEMMA IInvNil == IInv => NilMeansWhole
<1> SUFFICES ASSUME IInv, run = "returned", answer = {} PROVE Whole(Last)
    BY DEF NilMeansWhole
<1>1. \A i \in Workers : worker[i] = "done" /\ i \notin failed
    BY DEF IInv, AnswerIsFinal, FailuresEnd, Busy, Ending
<1>2. source = 0
  <2>1. CASE Last = 1
    BY <1>1, <2>1, WorkerFacts DEF IInv, GoodEndsSawEnd, Ending
  <2>2. CASE Last # 1
    BY <1>1, <2>2, WorkerFacts DEF IInv, GoodEndsSawEnd, Ending, EndMeansWhole, Whole
  <2> QED
    BY <2>1, <2>2
<1> QED
    BY <1>1, <1>2, WorkerFacts DEF Whole

LEMMA SpecIInv == Spec => []IInv
BY InitIInv, NextIInv, PTL DEF Spec

\* The state is type correct: no worker, pipe or channel leaves its range.
THEOREM PipelineTypeCorrect == Spec => []TypeOK
<1>1. IInv => TypeOK
    BY DEF IInv
<1> QED
    BY <1>1, SpecIInv, PTL

\* pipeline.Run, for every number of stages: a pipe that ends without an error has
\* carried all there was, however failures, cancellation and ends interleave.
THEOREM EndsAreWhole == Spec => []EndMeansWhole
<1>1. IInv => EndMeansWhole
    BY DEF IInv
<1> QED
    BY <1>1, SpecIInv, PTL

\* pipeline.Run, for every number of stages: nil is the answer of a run in which
\* everything has arrived and nobody has failed.
THEOREM NilIsWhole == Spec => []NilMeansWhole
BY SpecIInv, IInvNil, PTL
=============================================================================
