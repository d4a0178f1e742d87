--------------------------- MODULE PipelinesProofs ---------------------------
(***************************************************************************)
(* The safety properties of pkg/pipelines.                                 *)
(*                                                                         *)
(* RunValidation, for any number of tasks: a pass is deserved because what *)
(* a wait saw cannot change any more, and leaves no goroutine behind       *)
(* because the results sent and the goroutines still waiting always add up *)
(* to the TaskRuns listed.                                                 *)
(*                                                                         *)
(* RunWatch, for any number of PipelineRuns and operations: what a watch   *)
(* has counted is the distance from where it started to the last event it  *)
(* delivered.                                                              *)
(***************************************************************************)
EXTENDS RunValidation, RunWatch, FiniteSetTheorems, TLAPS

\* Where the validation is tells what it expects.
PhaseInv ==
  /\ pc = "end" <=> verdict # "none"
  /\ pc = "success" => expected = "success"
  /\ pc = "fail" => expected = "fail"
  /\ pc \in {"started", "list"} => expected \in {"timeout", "cancel"}
  /\ pc \in {"collect", "timedOut"} => expected = "timeout"
  /\ pc \in {"cancel", "cancelled"} => expected = "cancel"
  /\ pc = "join" => expected \in {"timeout", "cancel"}

\* Goroutines are for listed TaskRuns; each of the first loop has sent a result
\* or is still waiting, and when all have been received none is left.
CountInv ==
  /\ pc \in {"exist", "success", "fail", "started", "list"} =>
       listed = {} /\ running = {} /\ errChan = <<>> /\ received = 0
  /\ joining # {} => pc \in {"join", "end"}
  /\ verdict = "none" => ~closed
  /\ verdict = "none" /\ pc = "collect" =>
       Len(errChan) + Cardinality(running) = Cardinality(listed)
  /\ pc \in {"timedOut", "cancel", "cancelled", "join"} => running = {}

\* When the goroutines of the second loop wait, the run has ended as expected,
\* and those that have returned saw their TaskRun cancelled.
JoinInv ==
  pc = "join" =>
    /\ expected = "timeout" => pr = "timedOut"
    /\ expected = "cancel" => pr = "cancelled"
    /\ crashed \/ \A t \in listed \ joining : tr[t] = "cancelled"

\* The inductive invariant.
IInv == TypeOK /\ PhaseInv /\ CountInv /\ JoinInv /\ PassMeansExpected /\ PassLeavesNoGoroutine

-----------------------------------------------------------------------------
\* Sets of tasks are finite; taking one out makes them smaller by one, and a
\* set without elements is empty.
LEMMA TaskSets ==
  ASSUME NEW S \in SUBSET Tasks
  PROVE  /\ IsFiniteSet(S) /\ Cardinality(S) \in Nat
         /\ \A t \in S : Cardinality(S \ {t}) = Cardinality(S) - 1
         /\ Cardinality(S) = 0 => S = {}
<1>1. IsFiniteSet(Tasks)
  BY NAssumption, FS_Interval DEF Tasks
<1>2. IsFiniteSet(S)
  BY <1>1, FS_Subset
<1> QED BY <1>2, FS_CardinalityType, FS_RemoveElement, FS_EmptySet

\* What a poll condition that is satisfied says of the status.
LEMMA Polled ==
  ASSUME NEW s \in Statuses
  PROVE  /\ Succeed(s) = "ok" => s = "succeeded"
         /\ Failed(s) = "ok" => s \in Failures
         /\ \A r \in Failures : FailedWithReason(r, s) = "ok" => s = r
BY DEF Succeed, Failed, FailedWithReason, Failures, Statuses

LEMMA InitInv == Init => IInv
<1> SUFFICES ASSUME Init PROVE IInv
  OBVIOUS
<1>1. TypeOK
  <2>1. errChan \in Seq(BOOLEAN) /\ received \in 0..Len(errChan)
    BY DEF Init
  <2>2. cancelled \in BOOLEAN /\ closed \in BOOLEAN /\ crashed \in BOOLEAN
    BY Zenon DEF Init
  <2>3. /\ pr \in Statuses /\ tr \in [Tasks -> Statuses] /\ expected \in Expected
        /\ pc \in PCs /\ verdict \in {"none", "pass", "fail"}
        /\ listed \subseteq Tasks /\ running \subseteq Tasks /\ joining \subseteq Tasks
    BY DEF Init, Statuses, PCs
  <2> QED BY <2>1, <2>2, <2>3 DEF TypeOK
<1>2. PhaseInv
  BY DEF Init, PhaseInv
<1>3. CountInv
  BY DEF Init, CountInv
<1>4. JoinInv /\ PassMeansExpected /\ PassLeavesNoGoroutine
  BY DEF Init, JoinInv, PassMeansExpected, PassLeavesNoGoroutine
<1> QED BY <1>1, <1>2, <1>3, <1>4 DEF IInv

\* A spec that fails promises nothing.
LEMMA FailStep == ASSUME IInv, FailSpec, UNCHANGED tekton PROVE IInv'
<1> USE DEF FailSpec, tekton
<1>1. TypeOK'
  BY DEF IInv, TypeOK, PCs
<1>2. PhaseInv' /\ JoinInv' /\ PassMeansExpected' /\ PassLeavesNoGoroutine'
  BY DEF IInv, PhaseInv, JoinInv, PassMeansExpected, PassLeavesNoGoroutine
<1>3. CountInv'
  BY DEF IInv, CountInv
<1> QED BY <1>1, <1>2, <1>3 DEF IInv

\* A step to the next wait.
LEMMA GoToStep ==
  ASSUME IInv, NEW p \in PCs, verdict = "none", GoTo(p), UNCHANGED tekton,
         PhaseInv', CountInv', JoinInv'
  PROVE  IInv'
<1>1. TypeOK'
  BY DEF IInv, TypeOK, GoTo, tekton
<1>2. PassMeansExpected' /\ PassLeavesNoGoroutine'
  BY DEF GoTo, PassMeansExpected, PassLeavesNoGoroutine
<1> QED BY <1>1, <1>2 DEF IInv

\* A pass of ValidatePipelineRun for success or failure: no TaskRun was listed.
LEMMA PassStep ==
  ASSUME IInv, Pass, UNCHANGED tekton, PassMeansExpected', running = {}, joining = {}
  PROVE  IInv'
<1>1. TypeOK'
  BY DEF IInv, TypeOK, Pass, tekton, PCs
<1>2. PhaseInv' /\ JoinInv' /\ PassLeavesNoGoroutine' /\ CountInv'
  BY DEF IInv, PhaseInv, JoinInv, CountInv, PassLeavesNoGoroutine, Pass
<1> QED BY <1>1, <1>2 DEF IInv

-----------------------------------------------------------------------------
\* Tekton's steps: a status that has ended stays.
LEMMA TektonStep == ASSUME IInv, Tekton PROVE IInv'
<1>1. TypeOK'
  BY DEF IInv, TypeOK, Tekton, RunStep, TaskStep, valid, result, Statuses, Failures
<1>2. /\ UNCHANGED <<valid, result>>
      /\ pr \in Failures \cup {"succeeded"} => pr' = pr
      /\ \A t \in Tasks : tr[t] = "cancelled" => tr'[t] = "cancelled"
  BY DEF IInv, TypeOK, Tekton, RunStep, TaskStep, valid, result, Statuses, Failures
<1>3. PhaseInv' /\ CountInv' /\ PassLeavesNoGoroutine'
  BY <1>2 DEF IInv, PhaseInv, CountInv, PassLeavesNoGoroutine, valid, result
<1>4. JoinInv'
  BY <1>2 DEF IInv, TypeOK, JoinInv, valid, result, Failures
<1>5. PassMeansExpected'
  BY <1>2 DEF IInv, TypeOK, PassMeansExpected, valid, result, Failures
<1> QED BY <1>1, <1>3, <1>4, <1>5 DEF IInv

\* A goroutine of the first loop: the sum of the results and of those waiting
\* stays.
LEMMA SendStep == ASSUME IInv, NEW t \in Tasks, SendResult(t) PROVE IInv'
<1>1. /\ t \in running /\ ~crashed /\ running' = running \ {t} /\ crashed' = closed
      /\ UNCHANGED <<tekton, expected, pc, listed, received, closed, joining, verdict>>
  BY DEF SendResult
<1>2. PICK ok \in BOOLEAN : errChan' = IF closed THEN errChan ELSE Append(errChan, ok)
  BY DEF SendResult
<1>3. TypeOK'
  <2>1. errChan' \in Seq(BOOLEAN) /\ Len(errChan') >= Len(errChan)
    <3>1. errChan \in Seq(BOOLEAN) /\ Len(errChan) \in Nat
      BY DEF IInv, TypeOK
    <3>2. CASE closed
      BY <1>2, <3>1, <3>2
    <3>3. CASE ~closed
      BY <1>2, <3>1, <3>3
    <3> QED BY <3>2, <3>3
  <2>2. received' \in 0..Len(errChan')
    BY <1>1, <2>1 DEF IInv, TypeOK
  <2>3. crashed' \in BOOLEAN
    BY <1>1, Zenon DEF IInv, TypeOK
  <2> QED BY <1>1, <2>1, <2>2, <2>3 DEF IInv, TypeOK, tekton
<1>4. PhaseInv'
  BY <1>1 DEF IInv, PhaseInv
<1>5. CountInv'
  <2>1. pc \notin {"exist", "success", "fail", "started", "list"}
    BY <1>1 DEF IInv, CountInv
  <2>2. verdict = "none" => ~closed
    BY DEF IInv, CountInv
  <2>3. Cardinality(running') = Cardinality(running) - 1 /\ Cardinality(running) \in Nat
    BY <1>1, TaskSets DEF IInv, TypeOK
  <2>4. verdict = "none" /\ pc = "collect" => Len(errChan') = Len(errChan) + 1
    BY <1>2, <2>2 DEF IInv, TypeOK
  <2>5. Len(errChan) \in Nat /\ Cardinality(listed) \in Nat
    BY TaskSets DEF IInv, TypeOK
  <2>6. verdict' = "none" /\ pc' = "collect" =>
          Len(errChan') + Cardinality(running') = Cardinality(listed')
    BY <1>1, <2>3, <2>4, <2>5 DEF IInv, CountInv
  <2> QED BY <1>1, <2>1, <2>6 DEF IInv, CountInv
<1>6. pc # "join"
  BY <1>1 DEF IInv, CountInv
<1>7. JoinInv'
  BY <1>1, <1>6 DEF JoinInv
<1>8. PassMeansExpected'
  BY <1>1 DEF IInv, PassMeansExpected, tekton
<1>9. PassLeavesNoGoroutine'
  BY <1>1 DEF IInv, PassLeavesNoGoroutine
<1> QED BY <1>3, <1>4, <1>5, <1>7, <1>8, <1>9 DEF IInv

\* A goroutine of the second loop: it saw the cancellation, or the process ends.
LEMMA JoinStep == ASSUME IInv, NEW t \in Tasks, JoinTaskRun(t) PROVE IInv'
<1>1. /\ t \in joining /\ ~crashed /\ joining' = joining \ {t}
      /\ UNCHANGED <<tekton, expected, pc, listed, running, errChan, received, closed, verdict>>
  BY DEF JoinTaskRun
<1>2. crashed' \in BOOLEAN /\ (~crashed' => FailedWithReason("cancelled", tr[t]) = "ok")
  BY DEF JoinTaskRun
<1>3. ~crashed' => tr[t] = "cancelled"
  BY <1>2, Polled DEF IInv, TypeOK, Failures
<1>4. TypeOK'
  BY <1>1, <1>2 DEF IInv, TypeOK, tekton
<1>5. PhaseInv' /\ CountInv'
  BY <1>1 DEF IInv, PhaseInv, CountInv
<1>6. JoinInv'
  BY <1>1, <1>3 DEF IInv, JoinInv, tekton
<1>7. PassMeansExpected' /\ PassLeavesNoGoroutine'
  BY <1>1 DEF IInv, PassMeansExpected, PassLeavesNoGoroutine, tekton
<1> QED BY <1>4, <1>5, <1>6, <1>7 DEF IInv

-----------------------------------------------------------------------------
\* The waits before the TaskRuns are listed.
LEMMA EarlyStep ==
  ASSUME IInv, AwaitExistence \/ AwaitSuccess \/ AwaitFailure \/ AwaitStarted
  PROVE  IInv'
<1>1. CASE FailSpec /\ UNCHANGED tekton
  BY <1>1, FailStep
<1>2. CASE AwaitExistence /\ ~FailSpec
  <2> DEFINE p == CASE expected = "success" -> "success"
                    [] expected = "fail" -> "fail"
                    [] expected \in {"timeout", "cancel"} -> "started"
  <2>1. At("exist") /\ GoTo(p) /\ UNCHANGED tekton
    BY <1>2 DEF AwaitExistence, AwaitRun
  <2>2. /\ p \in {"success", "fail", "started"}
        /\ p = "success" => expected = "success"
        /\ p = "fail" => expected = "fail"
        /\ p = "started" => expected \in {"timeout", "cancel"}
    BY DEF IInv, TypeOK, Expected
  <2> HIDE DEF p
  <2>3. p \in PCs
    BY <2>2 DEF PCs
  <2>4. PhaseInv' /\ CountInv' /\ JoinInv'
    BY <2>1, <2>2 DEF IInv, PhaseInv, CountInv, JoinInv, GoTo, At
  <2> QED BY <2>1, <2>3, <2>4, GoToStep DEF At
<1>3. CASE AwaitSuccess /\ ~FailSpec
  <2>1. At("success") /\ Succeed(pr) = "ok" /\ Pass /\ UNCHANGED tekton
    BY <1>3 DEF AwaitSuccess
  <2>2. pr = "succeeded" /\ expected = "success" /\ running = {} /\ joining = {}
    BY <2>1, Polled DEF IInv, TypeOK, PhaseInv, CountInv, At
  <2>3. PassMeansExpected'
    BY <2>1, <2>2 DEF PassMeansExpected, Pass, tekton
  <2> QED BY <2>1, <2>2, <2>3, PassStep
<1>4. CASE AwaitFailure /\ ~FailSpec
  <2>1. At("fail") /\ Failed(pr) = "ok" /\ Pass /\ UNCHANGED tekton
    BY <1>4 DEF AwaitFailure
  <2>2. pr \in Failures /\ expected = "fail" /\ running = {} /\ joining = {}
    BY <2>1, Polled DEF IInv, TypeOK, PhaseInv, CountInv, At
  <2>3. PassMeansExpected'
    BY <2>1, <2>2 DEF PassMeansExpected, Pass, tekton
  <2> QED BY <2>1, <2>2, <2>3, PassStep
<1>5. CASE AwaitStarted /\ ~FailSpec
  <2>1. At("started") /\ GoTo("list") /\ UNCHANGED tekton
    BY <1>5 DEF AwaitStarted, AwaitRun
  <2>2. PhaseInv' /\ CountInv' /\ JoinInv'
    BY <2>1 DEF IInv, PhaseInv, CountInv, JoinInv, GoTo, At
  <2> QED BY <2>1, <2>2, GoToStep DEF At, PCs
<1>6. UNCHANGED tekton
  BY DEF AwaitExistence, AwaitSuccess, AwaitFailure, AwaitStarted, AwaitRun
<1> QED BY <1>1, <1>2, <1>3, <1>4, <1>5, <1>6

\* The List: a goroutine for each TaskRun, and no result yet.
LEMMA ListStep == ASSUME IInv, ListTaskRuns PROVE IInv'
<1>1. CASE FailSpec /\ UNCHANGED tekton
  BY <1>1, FailStep
<1>2. CASE ~FailSpec
  <2>1. /\ At("list") /\ listed' = Existing
        /\ running' = IF expected = "timeout" THEN Existing ELSE {}
        /\ pc' = IF expected = "timeout" THEN "collect" ELSE "cancel"
        /\ UNCHANGED <<expected, errChan, received, closed, joining, verdict, crashed, tekton>>
    BY <1>2 DEF ListTaskRuns
  <2>2. Existing \in SUBSET Tasks /\ Cardinality(Existing) \in Nat
    BY TaskSets DEF Existing
  <2>3. TypeOK'
    BY <2>1, <2>2 DEF IInv, TypeOK, PCs, tekton
  <2>4. PhaseInv' /\ JoinInv' /\ PassMeansExpected' /\ PassLeavesNoGoroutine'
    BY <2>1 DEF IInv, PhaseInv, JoinInv, PassMeansExpected, PassLeavesNoGoroutine, At
  <2>5. Len(errChan) = 0 /\ joining = {} /\ ~closed
    BY <2>1 DEF IInv, CountInv, At
  <2>6. CountInv'
    BY <2>1, <2>2, <2>5 DEF CountInv
  <2> QED BY <2>3, <2>4, <2>6 DEF IInv
<1> QED BY <1>1, <1>2 DEF ListTaskRuns

\* The results are taken out; when all have been, nobody of the first loop is
\* left.
LEMMA CollectStep == ASSUME IInv, ReceiveResult \/ AllRunning PROVE IInv'
<1>1. CASE FailSpec /\ UNCHANGED tekton
  BY <1>1, FailStep
<1>2. CASE ReceiveResult /\ ~FailSpec
  <2>1. /\ At("collect") /\ received < Len(errChan) /\ received' = received + 1
        /\ UNCHANGED <<expected, pc, listed, running, errChan, closed, joining, verdict, crashed, tekton>>
    BY <1>2 DEF ReceiveResult, NextResult
  <2>2. TypeOK'
    BY <2>1 DEF IInv, TypeOK, tekton
  <2>3. PhaseInv' /\ JoinInv' /\ PassMeansExpected' /\ PassLeavesNoGoroutine'
    BY <2>1 DEF IInv, PhaseInv, JoinInv, PassMeansExpected, PassLeavesNoGoroutine, At
  <2>4. CountInv'
    BY <2>1 DEF IInv, CountInv, At
  <2> QED BY <2>2, <2>3, <2>4 DEF IInv
<1>3. CASE AllRunning /\ ~FailSpec
  <2>1. At("collect") /\ received = Cardinality(listed) /\ GoTo("timedOut") /\ UNCHANGED tekton
    BY <1>3 DEF AllRunning, CollectedAll
  <2>2. /\ Len(errChan) + Cardinality(running) = Cardinality(listed)
        /\ received <= Len(errChan) /\ Len(errChan) \in Nat
    BY <2>1 DEF IInv, TypeOK, CountInv, At
  <2>3. Cardinality(running) \in Nat /\ Cardinality(listed) \in Nat
    BY TaskSets DEF IInv, TypeOK
  <2>4. running = {}
    <3>1. Cardinality(running) = 0
      BY <2>1, <2>2, <2>3
    <3> QED BY <3>1, TaskSets DEF IInv, TypeOK
  <2>5. PhaseInv' /\ CountInv' /\ JoinInv'
    BY <2>1, <2>4 DEF IInv, PhaseInv, CountInv, JoinInv, GoTo, At
  <2> QED BY <2>1, <2>5, GoToStep DEF At, PCs
<1>4. UNCHANGED tekton
  BY DEF ReceiveResult, AllRunning
<1> QED BY <1>1, <1>2, <1>3, <1>4

\* The end of the run, the cancellation before it, and the second loop.
LEMMA AwaitEndStep ==
  ASSUME IInv, \/ AwaitTimedOut
               \/ AwaitCancelled
  PROVE  IInv'
<1>1. CASE FailSpec /\ UNCHANGED tekton
  BY <1>1, FailStep
<1>2. CASE ~FailSpec
  <2>1. /\ UNCHANGED <<expected, listed, running, errChan, received, closed, verdict, crashed, tekton>>
        /\ joining' = listed /\ pc' = "join" /\ verdict = "none"
    BY <1>2 DEF AwaitTimedOut, AwaitCancelled, AwaitEnd, At
  <2>2. /\ pc = "timedOut" => FailedWithReason("timedOut", pr) = "ok"
        /\ pc = "cancelled" => FailedWithReason("cancelled", pr) = "ok"
        /\ pc \in {"timedOut", "cancelled"}
    BY <1>2 DEF AwaitTimedOut, AwaitCancelled, AwaitEnd, At
  <2>3. /\ pc = "timedOut" => pr = "timedOut" /\ expected = "timeout"
        /\ pc = "cancelled" => pr = "cancelled" /\ expected = "cancel"
    BY <2>2, Polled DEF IInv, TypeOK, PhaseInv, Failures
  <2>4. TypeOK'
    BY <2>1 DEF IInv, TypeOK, PCs, tekton
  <2>5. PhaseInv' /\ CountInv'
    BY <2>1, <2>2, <2>3 DEF IInv, PhaseInv, CountInv
  <2>6. JoinInv' /\ PassMeansExpected' /\ PassLeavesNoGoroutine'
    BY <2>1, <2>2, <2>3 DEF JoinInv, PassMeansExpected, PassLeavesNoGoroutine, tekton
  <2> QED BY <2>4, <2>5, <2>6 DEF IInv
<1>3. UNCHANGED tekton
  BY DEF AwaitTimedOut, AwaitCancelled, AwaitEnd
<1> QED BY <1>1, <1>2, <1>3

LEMMA CancelStep == ASSUME IInv, CancelRun PROVE IInv'
<1>1. CASE FailSpec /\ UNCHANGED cancelled
  BY <1>1, FailStep DEF CancelRun, tekton
<1>2. CASE cancelled' = TRUE /\ GoTo("cancelled")
  <2>1. At("cancel") /\ UNCHANGED <<pr, tr>>
    BY DEF CancelRun
  <2>2. TypeOK'
    BY <1>2, <2>1 DEF IInv, TypeOK, GoTo, PCs
  <2>3. PhaseInv' /\ CountInv'
    BY <1>2, <2>1 DEF IInv, PhaseInv, CountInv, GoTo, At
  <2>4. JoinInv' /\ PassMeansExpected' /\ PassLeavesNoGoroutine'
    BY <1>2, <2>1 DEF JoinInv, PassMeansExpected, PassLeavesNoGoroutine, GoTo, At
  <2> QED BY <2>2, <2>3, <2>4 DEF IInv
<1> QED BY <1>1, <1>2 DEF CancelRun

\* wg.Wait returns: every listed TaskRun was seen cancelled.
LEMMA JoinedStep == ASSUME IInv, Joined PROVE IInv'
<1>1. CASE FailSpec
  <2>1. UNCHANGED tekton
    BY DEF Joined
  <2> QED BY <1>1, <2>1, FailStep
<1>2. CASE Pass
  <2>1. At("join") /\ joining = {} /\ UNCHANGED tekton
    BY DEF Joined
  <2>2. running = {} /\ expected \in {"timeout", "cancel"} /\ ~crashed
    BY <2>1 DEF IInv, PhaseInv, CountInv, At
  <2>3. PassMeansExpected'
    BY <1>2, <2>1, <2>2 DEF IInv, JoinInv, PassMeansExpected, Pass, At, tekton
  <2> QED BY <1>2, <2>1, <2>2, <2>3, PassStep
<1> QED BY <1>1, <1>2 DEF Joined

LEMMA NextInv == IInv /\ [Next]_vars => IInv'
<1> SUFFICES ASSUME IInv, [Next]_vars PROVE IInv'
  OBVIOUS
<1>1. CASE UNCHANGED vars
  BY <1>1 DEF vars, tekton, valid, result, IInv, TypeOK, PhaseInv, CountInv, JoinInv,
              PassMeansExpected, PassLeavesNoGoroutine
<1>2. CASE Tekton
  BY <1>2, TektonStep
<1>3. CASE Validation
  BY <1>3, EarlyStep, ListStep, CollectStep, AwaitEndStep, CancelStep, JoinedStep, SendStep, JoinStep
     DEF Validation
<1> QED BY <1>1, <1>2, <1>3 DEF Next

LEMMA Invariance == Spec => []IInv
<1> QED BY InitInv, NextInv, PTL DEF Spec

-----------------------------------------------------------------------------
\* Type correctness; a result is taken out only after it was sent.
THEOREM TypeCorrect == Spec => []TypeOK
<1>1. IInv => TypeOK
  BY DEF IInv
<1> QED BY <1>1, Invariance, PTL

\* A validation that passes saw the run end as expected, and every listed
\* TaskRun cancelled after a timeout or a cancellation (pipelines.go:97-118,
\* 135-150).
THEOREM PassesAreDeserved == Spec => []PassMeansExpected
<1>1. IInv => PassMeansExpected
  BY DEF IInv
<1> QED BY <1>1, Invariance, PTL

\* A validation that passes leaves no goroutine that could send on the closed
\* channel or fail a later spec (pipelines.go:77-91, 103-114).
THEOREM PassesLeaveNoGoroutine == Spec => []PassLeavesNoGoroutine
<1>1. IInv => PassLeavesNoGoroutine
  BY DEF IInv
<1> QED BY <1>1, Invariance, PTL

-----------------------------------------------------------------------------
(* RunWatch.                                                               *)

Counting == stage \in {"sleep", "read"}

\* A watch is open while its operation sleeps or reads, and has counted what it
\* has delivered, which is what is read; the List comes between the begin and the
\* watch.
WatchCountInv ==
  /\ open => Counting
  /\ stage # "idle" => op \in {"watch", "assertNone"}
  /\ stage # "idle" => start <= last /\ outcome = None
  /\ stage = "list" => op = "assertNone"
  /\ stage \in {"open", "sleep", "read"} /\ op = "assertNone" => start <= version /\ version <= last
  /\ stage \in {"list", "open"} => count = 0
  /\ Counting => WatchFrom <= cursor /\ cursor <= last /\ count = cursor - WatchFrom
  /\ op = "assertNone" /\ outcome = "read" => value = cursor - version

\* The inductive invariant.
WatchInv == WatchTypeOK /\ WatchCountInv /\ NoFalseAlarm

-----------------------------------------------------------------------------
\* Initially nothing runs.
LEMMA WatchInitInv == WatchInit => WatchInv
<1> SUFFICES ASSUME WatchInit PROVE WatchInv
  OBVIOUS
<1>1. last \in 0..MaxRuns /\ MaxRuns \in Nat /\ MaxReads \in Nat
  BY BoundsAssumption DEF WatchInit, Runs
<1>2. WatchTypeOK
  <2>1. open \in BOOLEAN
    BY DEF WatchInit
  <2>2. last \in Nat /\ 0 \in 0..MaxRuns /\ 0 \in 0..last /\ 0 \in 0..MaxReads
    BY <1>1
  <2> QED BY <1>1, <2>1, <2>2, Zenon DEF WatchInit, WatchTypeOK, Runs
<1>3. WatchCountInv
  BY DEF WatchInit, WatchCountInv, Counting
<1>4. NoFalseAlarm
  BY DEF WatchInit, NoFalseAlarm, None
<1> QED BY <1>2, <1>3, <1>4 DEF WatchInv

\* Every step of the operations, of the API server and of the namespace keeps
\* the invariant.
LEMMA WatchNextInv == WatchInv /\ [WatchNext]_watchVars => WatchInv'
<1> SUFFICES ASSUME WatchInv, [WatchNext]_watchVars PROVE WatchInv'
  OBVIOUS
<1> USE BoundsAssumption DEF WatchInv, WatchTypeOK, WatchCountInv, NoFalseAlarm, Counting, Runs, None, WatchFrom
<1>1. CASE CreateRun
  BY <1>1 DEF CreateRun, local
<1>2. CASE WatchForPipelineRun
  BY <1>2 DEF WatchForPipelineRun, Begin
<1>3. CASE AssertForNoNewPipelineRunCreation
  BY <1>3 DEF AssertForNoNewPipelineRunCreation, Begin
<1>4. CASE ExpectFails
  BY <1>4 DEF ExpectFails
<1>5. CASE List
  BY <1>5 DEF List
<1>6. CASE OpenWatch
  BY <1>6 DEF OpenWatch
<1>7. CASE Deliver
  BY <1>7 DEF Deliver, CountAdded
<1>8. CASE CloseWatch
  BY <1>8 DEF CloseWatch
<1>9. CASE Wake
  BY <1>9 DEF Wake
<1>10. CASE Read
  <2>1. WatchTypeOK'
    <3>1. open' \in BOOLEAN
      BY <1>10 DEF Read
    <3>2. count \in 0..MaxRuns
      OBVIOUS
    <3> QED BY <1>10, <3>1, <3>2 DEF Read
  <2>2. WatchCountInv'
    BY <1>10 DEF Read
  <2>3. op = "assertNone" => count <= last - start
    BY <1>10 DEF Read
  <2>4. NoFalseAlarm'
    BY <1>10, <2>3 DEF Read
  <2> QED BY <2>1, <2>2, <2>4
<1>11. CASE UNCHANGED watchVars
  BY <1>11 DEF watchVars, local
<1> QED BY <1>1, <1>2, <1>3, <1>4, <1>5, <1>6, <1>7, <1>8, <1>9, <1>10, <1>11 DEF WatchNext

LEMMA WatchInvariance == WatchSpec => []WatchInv
<1> QED BY WatchInitInv, WatchNextInv, PTL DEF WatchSpec

-----------------------------------------------------------------------------
\* Type correctness; in particular no more runs are counted than exist.
THEOREM WatchTypeCorrect == WatchSpec => []WatchTypeOK
<1>1. WatchInv => WatchTypeOK
  BY DEF WatchInv
<1> QED BY <1>1, WatchInvariance, PTL

\* AssertForNoNewPipelineRunCreation never fails for a run from before it
\* (pipelines.go:245-264), whenever runs appear, events arrive and the watch
\* ends.
THEOREM NoFalseAlarms == WatchSpec => []NoFalseAlarm
<1>1. WatchInv => NoFalseAlarm
  BY DEF WatchInv
<1> QED BY <1>1, WatchInvariance, PTL

\* The count the assertion reads is that of the runs created after its List, up
\* to the last one the API server has sent, whether the watch goes on or has
\* ended (pipelines.go:245-260).
THEOREM NothingFallsBetween == WatchSpec => []NoGap
<1>1. WatchInv => NoGap
  BY DEF WatchInv, WatchCountInv, NoGap
<1> QED BY <1>1, WatchInvariance, PTL
=============================================================================
