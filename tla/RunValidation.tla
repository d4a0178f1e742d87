---------------------------- MODULE RunValidation ----------------------------
(***************************************************************************)
(* pkg/pipelines: ValidatePipelineRun and the four validations it picks    *)
(* from, on top of the poll conditions of pkg/wait, against a PipelineRun  *)
(* that Tekton drives at its own pace.  A wait samples the status at times *)
(* of its own choosing: it may miss a state, see an error, or time out     *)
(* after APITimeout.                                                       *)
(***************************************************************************)
EXTENDS Naturals, Sequences, FiniteSets

CONSTANT N    \* tasks of the pipeline: TaskRuns 1 .. N

ASSUME NAssumption == N \in Nat

Tasks == 1 .. N

VARIABLES
  \* Tekton
  pr,         \* status of the PipelineRun
  tr,         \* status of each TaskRun
  cancelled,  \* opc pipelinerun cancel has been called
  \* the validation
  expected,   \* the status the test expects
  pc,         \* where the validation is
  listed,     \* taskrunList.Items; their order is that of the messages only
  running,    \* goroutines of the first loop: waiting for Running
  errChan,    \* their results, oldest first: TRUE for a nil error
  received,   \* results taken out
  closed,     \* the deferred close(errChan) has run
  joining,    \* goroutines of the second loop: waiting for cancellation
  verdict,    \* "none", "pass" or "fail"
  \* history
  crashed     \* a goroutine panicked with nobody to recover it

tekton == <<pr, tr, cancelled>>
valid  == <<expected, pc, listed, running, errChan, received, closed, joining>>
result == <<verdict, crashed>>
vars   == <<tekton, valid, result>>

Failures == {"failed", "timedOut", "cancelled"}
Statuses == {"absent", "new", "running", "succeeded"} \cup Failures
Expected == {"success", "fail", "timeout", "cancel"}
PCs      == {"exist", "success", "fail", "started", "list", "collect", "timedOut",
             "cancel", "cancelled", "join", "end"}

\* Variables have their types; a result can be taken out only after it was sent.
TypeOK ==
  /\ pr \in Statuses
  /\ tr \in [Tasks -> Statuses]
  /\ cancelled \in BOOLEAN
  /\ expected \in Expected
  /\ pc \in PCs
  /\ listed \subseteq Tasks
  /\ running \subseteq Tasks /\ joining \subseteq Tasks
  /\ errChan \in Seq(BOOLEAN)
  /\ received \in 0 .. Len(errChan)
  /\ closed \in BOOLEAN /\ crashed \in BOOLEAN
  /\ verdict \in {"none", "pass", "fail"}

Init ==
  /\ pr = "absent"
  /\ tr = [t \in Tasks |-> "absent"]
  /\ cancelled = FALSE
  /\ expected \in Expected
  /\ pc = "exist"
  /\ listed = {} /\ running = {} /\ joining = {}
  /\ errChan = <<>> /\ received = 0 /\ closed = FALSE
  /\ verdict = "none"
  /\ crashed = FALSE

-----------------------------------------------------------------------------
(* The poll conditions of pkg/wait: "ok", "err" or "more".  A status that  *)
(* cannot be read is an error.                                             *)

Succeed(s) ==
  IF s = "succeeded" THEN "ok" ELSE IF s \in Failures \cup {"absent"} THEN "err" ELSE "more"

Failed(s) ==
  IF s \in Failures THEN "ok" ELSE IF s \in {"succeeded", "absent"} THEN "err" ELSE "more"

\* Mutant: any failure will do.
AnyFailure(reason, s) == Failed(s)

FailedWithReason(reason, s) ==
  IF s = reason THEN "ok"
    ELSE IF s \in Failures \cup {"succeeded", "absent"} THEN "err" ELSE "more"

Running(s) ==
  IF s = "running" THEN "ok"
    ELSE IF s \in Failures \cup {"succeeded", "absent"} THEN "err" ELSE "more"

-----------------------------------------------------------------------------
(* The validation, one action per call that waits.                         *)

At(p) == pc = p /\ verdict = "none" /\ ~crashed

\* Fail: the spec ends here, deferred calls run.
FailSpec ==
  /\ verdict' = "fail"
  /\ pc' = "end"
  /\ closed' = (closed \/ (expected = "timeout" /\ pc \in {"collect", "timedOut", "join"}))
  /\ UNCHANGED <<expected, listed, running, errChan, received, joining, crashed>>

GoTo(p) ==
  /\ pc' = p
  /\ UNCHANGED <<expected, listed, running, errChan, received, closed, joining, verdict, crashed>>

\* A wait for the PipelineRun succeeds when its condition does.  It may fail at
\* any time: by the condition, by an API error or by its timeout.
AwaitRun(outcome, next) ==
  /\ \/ outcome = "ok" /\ GoTo(next)
     \/ FailSpec
  /\ UNCHANGED tekton

\* ValidatePipelineRun: poll until the run exists, then dispatch.
AwaitExistence ==
  /\ At("exist")
  /\ AwaitRun(IF pr = "absent" THEN "more" ELSE "ok",
              CASE expected = "success" -> "success"
                [] expected = "fail" -> "fail"
                [] expected \in {"timeout", "cancel"} -> "started")

Pass ==
  /\ verdict' = "pass"
  /\ pc' = "end"
  /\ closed' = (closed \/ expected = "timeout")
  /\ UNCHANGED <<expected, listed, running, errChan, received, joining, crashed>>

AwaitSuccess ==
  /\ At("success")
  /\ \/ Succeed(pr) = "ok" /\ Pass
     \/ FailSpec
  /\ UNCHANGED tekton

AwaitFailure ==
  /\ At("fail")
  /\ \/ Failed(pr) = "ok" /\ Pass
     \/ FailSpec
  /\ UNCHANGED tekton

AwaitStarted == At("started") /\ AwaitRun(Running(pr), "list")

Existing == {t \in Tasks : tr[t] # "absent"}

\* List the TaskRuns and, for a timeout, start a goroutine for each.
ListTaskRuns ==
  /\ At("list")
  /\ \/ /\ listed' = Existing
        /\ running' = IF expected = "timeout" THEN Existing ELSE {}
        /\ pc' = IF expected = "timeout" THEN "collect" ELSE "cancel"
        /\ UNCHANGED <<expected, errChan, received, closed, joining, verdict, crashed>>
     \/ FailSpec
  /\ UNCHANGED tekton

\* A goroutine of the first loop sends its result; the buffer has room for
\* all of them.  Sending on the closed channel panics.
SendResult(t) ==
  /\ ~crashed
  /\ t \in running
  /\ \E ok \in BOOLEAN :
       /\ ok => Running(tr[t]) = "ok"
       /\ errChan' = IF closed THEN errChan ELSE Append(errChan, ok)
  /\ crashed' = closed
  /\ running' = running \ {t}
  /\ UNCHANGED <<tekton, expected, pc, listed, received, closed, joining, verdict>>

\* Mutants: the loop stops one short; the loop wants one result too many.
CollectedAllButOne == received + 1 >= Cardinality(listed)
NeverCollected == FALSE

CollectedAll == received = Cardinality(listed)

NextResult == received + 1

\* <-errChan; a failure ends the spec, and its message names the TaskRun at the
\* position of the result, not the one that was waited for.
ReceiveResult ==
  /\ At("collect")
  /\ ~CollectedAll
  /\ received < Len(errChan)
  /\ IF errChan[received + 1]
       THEN /\ received' = NextResult
            /\ UNCHANGED <<expected, pc, listed, running, errChan, closed, joining, verdict, crashed>>
       ELSE FailSpec
  /\ UNCHANGED tekton

AllRunning ==
  /\ At("collect")
  /\ CollectedAll
  /\ GoTo("timedOut")
  /\ UNCHANGED tekton

\* Wait for the run to fail as expected, then start the second goroutines.
AwaitEnd(reason) ==
  /\ \/ /\ FailedWithReason(reason, pr) = "ok"
        /\ joining' = listed
        /\ pc' = "join"
        /\ UNCHANGED <<expected, listed, running, errChan, received, closed, verdict, crashed>>
     \/ FailSpec
  /\ UNCHANGED tekton

AwaitTimedOut == At("timedOut") /\ AwaitEnd("timedOut")

\* opc pipelinerun cancel, MustSucceed.
CancelRun ==
  /\ At("cancel")
  /\ \/ cancelled' = TRUE /\ GoTo("cancelled")
     \/ FailSpec /\ UNCHANGED cancelled
  /\ UNCHANGED <<pr, tr>>

AwaitCancelled == At("cancelled") /\ AwaitEnd("cancelled")

\* A goroutine of the second loop returns, or calls Fail with no GinkgoRecover
\* above it: the panic ends the process.
JoinTaskRun(t) ==
  /\ ~crashed
  /\ t \in joining
  /\ \E ok \in BOOLEAN :
       /\ ok => FailedWithReason("cancelled", tr[t]) = "ok"
       /\ crashed' = ~ok
  /\ joining' = joining \ {t}
  /\ UNCHANGED <<tekton, expected, pc, listed, running, errChan, received, closed, verdict>>

\* wg.Wait returns.  The timeout validation then gets the PipelineRun once more,
\* which may fail.
Joined ==
  /\ At("join")
  /\ joining = {}
  /\ \/ Pass
     \/ expected = "timeout" /\ FailSpec
  /\ UNCHANGED tekton

Validation ==
  \/ AwaitExistence \/ AwaitSuccess \/ AwaitFailure \/ AwaitStarted \/ ListTaskRuns
  \/ ReceiveResult \/ AllRunning \/ AwaitTimedOut \/ CancelRun \/ AwaitCancelled \/ Joined
  \/ \E t \in Tasks : SendResult(t) \/ JoinTaskRun(t)

-----------------------------------------------------------------------------
(* Tekton.  A status that says finished never changes.                     *)

RunStep ==
  /\ \/ pr = "absent" /\ pr' = "new"
     \/ pr = "new" /\ pr' = "running"
     \/ pr = "running" /\ (\A t \in Tasks : tr[t] = "succeeded") /\ pr' = "succeeded"
     \/ pr = "running" /\ (\E t \in Tasks : tr[t] = "failed") /\ pr' = "failed"
     \/ pr \in {"new", "running"} /\ pr' = "timedOut"
     \/ pr \in {"new", "running"} /\ cancelled /\ pr' = "cancelled"
  /\ UNCHANGED <<tr, cancelled, valid, result>>

TaskStep(t) ==
  /\ \/ tr[t] = "absent" /\ pr = "running" /\ tr' = [tr EXCEPT ![t] = "new"]
     \/ tr[t] = "new" /\ tr' = [tr EXCEPT ![t] = "running"]
     \/ tr[t] = "running" /\ \E s \in {"succeeded", "failed"} : tr' = [tr EXCEPT ![t] = s]
     \/ /\ tr[t] \in {"new", "running"}
        /\ pr \in {"timedOut", "cancelled"}
        /\ tr' = [tr EXCEPT ![t] = "cancelled"]
  /\ UNCHANGED <<pr, cancelled, valid, result>>

Tekton == RunStep \/ \E t \in Tasks : TaskStep(t)

Next == Validation \/ Tekton

Spec == Init /\ [][Next]_vars

\* Every wait has a timeout and goroutines are scheduled; Tekton owes nothing.
FairSpec == Spec /\ WF_vars(Validation)

-----------------------------------------------------------------------------
(* Properties.                                                             *)

\* A validation that passes saw the run end as expected, and for a timeout or
\* a cancellation every listed TaskRun was cancelled (pipelines.go:97-118,
\* 135-150), whatever was missed between two polls.
PassMeansExpected ==
  verdict = "pass" =>
    /\ expected = "success" => pr = "succeeded"
    /\ expected = "fail" => pr \in Failures
    /\ expected = "timeout" => pr = "timedOut"
    /\ expected = "cancel" => pr = "cancelled"
    /\ expected \in {"timeout", "cancel"} => \A t \in listed : tr[t] = "cancelled"

\* A validation that passes leaves no goroutine behind: all results were
\* received before errChan is closed (pipelines.go:77-91, 103-114).
PassLeavesNoGoroutine == verdict = "pass" => running \cup joining = {}

\* A validation comes to a verdict: no receive and no wg.Wait blocks for ever.
ValidationEnds == <>(verdict # "none" \/ crashed)

\* A TaskRun that does not reach its state makes the spec fail (the Fail calls
\* at pipelines.go:89 and 110); it does not end the test process.
FailureIsReported == ~crashed
=============================================================================
