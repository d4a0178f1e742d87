------------------------------ MODULE RunWatch ------------------------------
(***************************************************************************)
(* pkg/pipelines: WatchForPipelineRun and AssertForNoNewPipelineRunCreation *)
(* count the ADDED events of a Kubernetes watch in a goroutine, sleep, and *)
(* read the count.  The API server delivers events when it likes and may   *)
(* close the watch.  The goroutine and the reader share the count without  *)
(* synchronisation: the reader loads one word, at any point between two    *)
(* events.                                                                 *)
(*                                                                         *)
(* PipelineRuns are numbered in the order of their creation, and the       *)
(* number of the last one is the resourceVersion of a List.                *)
(***************************************************************************)
EXTENDS Naturals

CONSTANTS
  MaxRuns,   \* bound: PipelineRuns in the namespace
  MaxReads   \* bound: watches opened, one after the other

ASSUME BoundsAssumption == MaxRuns \in Nat /\ MaxReads \in Nat

VARIABLES
  last,     \* PipelineRuns created so far
  op,       \* the running operation: "watch", "assertNone", or "none"
  stage,    \* where it is: "list", "open", "sleep", "read", or "idle"
  start,    \* PipelineRuns that existed when the operation began
  version,  \* resourceVersion of the List
  open,     \* the watch of the running operation is delivering
  cursor,   \* last PipelineRun delivered
  count,    \* len(prnames), or count
  outcome,  \* how the last operation ended: "none", "failed" or "read"
  value,    \* the count it read
  opened    \* operations begun

local == <<op, stage, start, version, open, cursor, count, outcome, value, opened>>
watchVars == <<last, local>>

Runs == 0 .. MaxRuns
None == "none"

\* Variables have their types; no more runs are counted than exist.
WatchTypeOK ==
  /\ last \in Runs
  /\ op \in {"watch", "assertNone", None}
  /\ stage \in {"idle", "list", "open", "sleep", "read"}
  /\ start \in Runs /\ version \in Runs /\ cursor \in Runs
  /\ count \in 0 .. last
  /\ open \in BOOLEAN
  /\ outcome \in {None, "failed", "read"}
  /\ value \in Runs
  /\ opened \in 0 .. MaxReads

WatchInit ==
  /\ last \in Runs
  /\ op = None /\ stage = "idle"
  /\ start = 0 /\ version = 0 /\ cursor = 0 /\ count = 0
  /\ open = FALSE
  /\ outcome = None /\ value = 0
  /\ opened = 0

\* Somebody, the CronJob for example, creates a PipelineRun.
CreateRun ==
  /\ last < MaxRuns
  /\ last' = last + 1
  /\ UNCHANGED local

Begin(o, p) ==
  /\ stage = "idle"
  /\ opened < MaxReads
  /\ opened' = opened + 1
  /\ op' = o /\ stage' = p
  /\ start' = last
  /\ count' = 0
  /\ outcome' = None
  /\ UNCHANGED <<last, version, open, cursor, value>>

WatchForPipelineRun == Begin("watch", "open")

AssertForNoNewPipelineRunCreation == Begin("assertNone", "list")

\* An Expect fails: the spec ends.
ExpectFails ==
  /\ stage \in {"list", "open"}
  /\ stage' = "idle" /\ open' = FALSE
  /\ outcome' = "failed"
  /\ UNCHANGED <<last, op, start, version, cursor, count, value, opened>>

\* PipelineRunClient.List, for its resourceVersion.
List ==
  /\ stage = "list"
  /\ version' = last
  /\ stage' = "open"
  /\ UNCHANGED <<last, op, start, open, cursor, count, outcome, value, opened>>

\* Mutant: the watch starts now.
FromNow == last

\* A watch with a resourceVersion starts after it; one without first sends an
\* ADDED event for every object that exists.
WatchFrom == IF op = "assertNone" THEN version ELSE 0

OpenWatch ==
  /\ stage = "open"
  /\ cursor' = WatchFrom
  /\ open' = TRUE
  /\ stage' = "sleep"
  /\ UNCHANGED <<last, op, start, version, count, outcome, value, opened>>

\* Only ADDED events are counted.
CountAdded == {count + 1}

\* The goroutine receives the next run's event.
Deliver ==
  /\ open
  /\ cursor < last
  /\ cursor' = cursor + 1
  /\ count' \in CountAdded
  /\ UNCHANGED <<last, op, stage, start, version, open, outcome, value, opened>>

\* The API server ends the watch: the channel is closed, the goroutine returns
\* and nobody is told.
CloseWatch ==
  /\ open
  /\ open' = FALSE
  /\ UNCHANGED <<last, op, stage, start, version, cursor, count, outcome, value, opened>>

\* The sleep is over.
Wake ==
  /\ stage = "sleep"
  /\ stage' = "read"
  /\ UNCHANGED <<last, op, start, version, open, cursor, count, outcome, value, opened>>

\* The count is read.  The watch is never stopped; its goroutine goes on but
\* its count is not read again.
Read ==
  /\ stage = "read"
  /\ value' = count
  /\ outcome' = "read"
  /\ stage' = "idle" /\ open' = FALSE
  /\ UNCHANGED <<last, op, start, version, cursor, count, opened>>

WatchNext ==
  \/ CreateRun \/ WatchForPipelineRun \/ AssertForNoNewPipelineRunCreation \/ ExpectFails
  \/ List \/ OpenWatch \/ Deliver \/ CloseWatch \/ Wake \/ Read

WatchSpec == WatchInit /\ [][WatchNext]_watchVars

-----------------------------------------------------------------------------
(* Properties.                                                             *)

\* An assertion never fails because of runs that existed before it: what it
\* counts was created after it began, also when a run appears between the List
\* and the Watch (pipelines.go:245-251).
NoFalseAlarm ==
  op = "assertNone" /\ outcome = "read" => value <= last - start

\* The count AssertForNoNewPipelineRunCreation judges by is that of the runs
\* created after its List, up to the last one the API server has sent: none falls
\* between the List and the Watch, none is counted twice or from before, whether
\* the server goes on with the watch or has ended it (pipelines.go:245-260).
NoGap ==
  op = "assertNone" /\ outcome = "read" => value = cursor - version

\* "asserts that no new PipelineRuns are created in the namespace within a 1-minute
\* observation window" (pipelines.go:242-243), also when the API server ends the
\* watch within that minute: the count that is about to be read is not 0 when runs
\* have been created since the List.
EndedWatchNoticed ==
  op = "assertNone" /\ stage = "read" /\ ~open /\ count = 0 => last = version
=============================================================================
