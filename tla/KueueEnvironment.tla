-------------------------- MODULE KueueEnvironment --------------------------
(***************************************************************************)
(* pkg/tektonkueue: Environment.Setup mutates several clusters, pushing a  *)
(* cleanup before each mutation; Environment.Cleanup runs the cleanups     *)
(* last in, first out, stops at the first error and keeps the rest for a   *)
(* second call, which the test makes once.                                 *)
(*                                                                         *)
(* Plan is the sequence of Setup's mutations by kind: a "namespace" stands *)
(* for whatever createDynamic makes too, a "clusterRole" for its binding,  *)
(* a "policy" for the credential secret, a "run" for the PipelineRun, for  *)
(* which Kueue queues a Workload.  What lives in the namespace goes with   *)
(* it.  The clusters' Kueues and schedulers are independent of each other, *)
(* so one of each stands for all.  Every API call is an action: it may     *)
(* fail, and administrators and controllers act between two calls.         *)
(* RetryOnConflict makes a read-modify-write atomic: it succeeds against   *)
(* the latest version or returns an error.                                 *)
(***************************************************************************)
EXTENDS Naturals, Sequences

CONSTANTS
  Plan,        \* kinds of mutation, in Setup's order
  FwPaths,     \* the two externalFrameworks lists of a Kueue
  Touched,     \* kinds of objects that others touch
  AdminValues, \* scheduler settings others write: "set" among them for a flag,
               \* not for queueName, which the test sets to its fresh prefix
  MaxErrors,   \* bound: failing API calls and waits
  MaxExternal  \* bound: actions of others

Values  == {"v0", "v1", "set"}              \* scheduler settings; the test writes "set"
Awaited == {"kueue", "namespace", "run"}    \* Cleanup waits until they are gone
Checked == {"namespace", "clusterRole"}     \* Setup refuses an existing one
Kinds   == {"kueue", "scheduler", "namespace", "clusterRole", "policy", "run"}

ASSUME PlanAssumption ==
  /\ Plan \in Seq(Kinds)
  /\ \A i, j \in 1 .. Len(Plan) :
       Plan[i] = Plan[j] /\ Plan[i] \in {"kueue", "scheduler", "run"} => i = j
ASSUME BoundAssumption ==
  /\ Touched \subseteq Kinds /\ AdminValues \subseteq Values
  /\ MaxErrors \in Nat /\ MaxExternal \in Nat

VARIABLES
  obj,        \* step -> the object of that name: uid (0: none), mine, terminating
  fw,         \* path -> who put the PipelineRun framework there, or "none"
  sched,      \* the scheduler settings of TektonConfig: value, and who wrote it
  nextUid,
  phase,      \* "setup", "cleanup1", "cleanup2", "clean", "stopped"
  step, pc,   \* Setup: current mutation, next call.  Cleanup: next call of the top.
  snapshot,   \* what ensureKueue read: the Kueue's version and the missing paths
  version,    \* resourceVersion of the Kueue
  cleanups,   \* e.cleanups: step, recorded uid, paths, original scheduler value
  queued,     \* the Workload of the test's run exists
  named,      \* e.workloadName is set
  errors, external

world == <<obj, fw, sched, nextUid, version>>
local == <<phase, step, pc, snapshot, cleanups>>
workload == <<queued, named>>
vars  == <<world, local, workload, errors, external>>

Idx      == 1 .. Len(Plan)
Absent   == [uid |-> 0, mine |-> FALSE, terminating |-> FALSE]
Writers  == {"none", "test", "admin"}
Entry(i, paths, orig) == [step |-> i, uid |-> 0, paths |-> paths, orig |-> orig]

\* Variables have their types; every uid in use was drawn before.
TypeOK ==
  /\ obj \in [Idx -> [uid : 0 .. (nextUid - 1), mine : BOOLEAN, terminating : BOOLEAN]]
  /\ fw \in [FwPaths -> Writers]
  /\ sched \in [value : Values, by : {"test", "admin"}]
  /\ phase \in {"setup", "cleanup1", "cleanup2", "clean", "stopped"}
  /\ step \in 1 .. Len(Plan) + 1
  /\ pc \in {"get", "apply", "wait", "delete"}
  /\ snapshot \in [version : Nat, missing : SUBSET FwPaths]
  /\ cleanups \in Seq([step : Idx, uid : Nat, paths : SUBSET FwPaths, orig : Values])
  /\ nextUid \in Nat /\ version \in Nat /\ errors \in Nat /\ external \in Nat
  /\ queued \in BOOLEAN /\ named \in BOOLEAN

\* Names carry a fresh prefix, so only the Kueue may exist already, with or
\* without the frameworks.
Init ==
  /\ \E installed \in BOOLEAN, present \in SUBSET FwPaths :
       /\ obj = [i \in Idx |-> IF installed /\ Plan[i] = "kueue"
                                 THEN [Absent EXCEPT !.uid = 1] ELSE Absent]
       /\ fw = [p \in FwPaths |-> IF installed /\ p \in present THEN "admin" ELSE "none"]
  /\ sched = [value |-> "v0", by |-> "admin"]
  /\ nextUid = 2
  /\ version = 0
  /\ phase = "setup" /\ step = 1 /\ pc = "get"
  /\ snapshot = [version |-> 0, missing |-> {}]
  /\ cleanups = <<>>
  /\ errors = 0 /\ external = 0
  /\ queued = FALSE /\ named = FALSE

-----------------------------------------------------------------------------
(* Setup.                                                                  *)

InSetup(p) == phase = "setup" /\ step <= Len(Plan) /\ pc = p
Kind == Plan[step]

\* Setup returns an error, or the test is over: the deferred Cleanup starts.
BeginCleanup ==
  /\ phase' = "cleanup1"
  /\ pc' = "get"
  /\ UNCHANGED <<step, snapshot>>

NextStep ==
  /\ step' = step + 1
  /\ pc' = "get"
  /\ UNCHANGED <<phase, snapshot>>

Push(e) == cleanups' = Append(cleanups, e)

\* An API call or a wait of Setup fails without effect.
SetupError ==
  /\ phase = "setup" /\ step <= Len(Plan)
  /\ errors < MaxErrors
  /\ errors' = errors + 1
  /\ BeginCleanup
  /\ UNCHANGED <<world, cleanups, external, workload>>

\* Get, if the helper makes one, and addCleanup.
RegisterOwned ==
  /\ InSetup("get")
  /\ Kind \notin {"kueue", "scheduler"}
  /\ IF Kind \in Checked /\ obj[step].uid # 0
       THEN BeginCleanup /\ UNCHANGED cleanups
       ELSE /\ Push(Entry(step, {}, "v0"))
            /\ pc' = "apply"
            /\ UNCHANGED <<phase, step, snapshot>>
  /\ UNCHANGED <<world, errors, external, workload>>

\* ensureKueue up to addCleanup: create it, add what is missing, or nothing.
ReadKueue ==
  /\ InSetup("get")
  /\ Kind = "kueue"
  /\ LET missing == {p \in FwPaths : fw[p] = "none"}
     IN  IF obj[step].uid # 0 /\ missing = {}
           THEN NextStep /\ UNCHANGED cleanups
           ELSE /\ Push(Entry(step, IF obj[step].uid = 0 THEN {} ELSE missing, "v0"))
                /\ snapshot' = [version |-> version, missing |-> missing]
                /\ pc' = "apply"
                /\ UNCHANGED <<phase, step>>
  /\ UNCHANGED <<world, errors, external, workload>>

\* The API server stores a new object with the test's labels.
Fresh(i) ==
  /\ obj' = [obj EXCEPT ![i] = [uid |-> nextUid, mine |-> TRUE, terminating |-> FALSE]]
  /\ nextUid' = nextUid + 1

CreatesKueue == Kind = "kueue" /\ cleanups[Len(cleanups)].paths = {}

\* Create succeeds and the uid is recorded for the cleanup.
CreateOwned ==
  /\ InSetup("apply")
  /\ Kind \notin {"kueue", "scheduler"} \/ CreatesKueue
  /\ obj[step].uid = 0
  /\ Fresh(step)
  /\ fw' = IF Kind = "kueue" THEN [p \in FwPaths |-> "test"] ELSE fw
  /\ cleanups' = [cleanups EXCEPT ![Len(cleanups)].uid = nextUid]
  /\ IF Kind = "run" THEN pc' = "wait" /\ UNCHANGED <<phase, step, snapshot>> ELSE NextStep
  /\ UNCHANGED <<sched, version, errors, external, workload>>

\* Create returns an error although the object was stored: no uid is recorded.
CreateOwnedUnseen ==
  /\ InSetup("apply")
  /\ Kind \notin {"kueue", "scheduler"} \/ CreatesKueue
  /\ obj[step].uid = 0
  /\ errors < MaxErrors
  /\ errors' = errors + 1
  /\ Fresh(step)
  /\ fw' = IF Kind = "kueue" THEN [p \in FwPaths |-> "test"] ELSE fw
  /\ BeginCleanup
  /\ UNCHANGED <<sched, version, cleanups, external, workload>>

\* Create returns AlreadyExists: somebody was faster.
CreateOwnedExists ==
  /\ InSetup("apply")
  /\ Kind \notin {"kueue", "scheduler"} \/ CreatesKueue
  /\ obj[step].uid # 0
  /\ BeginCleanup
  /\ UNCHANGED <<world, cleanups, errors, external, workload>>

\* ensureKueue's Update is not retried: it fails if the Kueue has changed.
UpdateKueue ==
  /\ InSetup("apply")
  /\ Kind = "kueue" /\ ~CreatesKueue
  /\ IF obj[step].uid # 0 /\ version = snapshot.version
       THEN /\ fw' = [p \in FwPaths |-> IF p \in snapshot.missing THEN "test" ELSE fw[p]]
            /\ version' = version + 1
            /\ NextStep
       ELSE BeginCleanup /\ UNCHANGED <<fw, version>>
  /\ UNCHANGED <<obj, sched, nextUid, cleanups, errors, external, workload>>

\* Mutant: the operator's default is taken for the original.
DefaultAsOriginal == "v1"

\* The settings the first Get returned, copied.
Original == sched.value

\* enableScheduler up to addCleanup: the original settings are remembered.
ReadScheduler ==
  /\ InSetup("get")
  /\ Kind = "scheduler"
  /\ Push(Entry(step, {}, Original))
  /\ pc' = "apply"
  /\ UNCHANGED <<world, phase, step, snapshot, errors, external, workload>>

\* The latest settings are overwritten, the remembered ones may be older.
UpdateScheduler ==
  /\ InSetup("apply")
  /\ Kind = "scheduler"
  /\ sched' = IF sched.value = "set" THEN sched ELSE [value |-> "set", by |-> "test"]
  /\ pc' = "wait"
  /\ UNCHANGED <<obj, fw, nextUid, version, phase, step, snapshot, cleanups,
                 errors, external, workload>>

\* waitForHubWorkload finds the Workload by its owner, or times out.
WaitForHubWorkload ==
  /\ InSetup("wait")
  /\ Kind = "run"
  /\ \/ queued /\ named' = TRUE /\ NextStep
     \/ ~queued /\ UNCHANGED named /\ BeginCleanup
  /\ UNCHANGED <<world, cleanups, queued, errors, external>>

\* waitForTektonConfig succeeds; its timeout is a SetupError.
SchedulerReady ==
  /\ InSetup("wait")
  /\ Kind = "scheduler"
  /\ NextStep
  /\ UNCHANGED <<world, cleanups, errors, external, workload>>

\* Setup and the test body are over.
EndTest ==
  /\ phase = "setup"
  /\ step = Len(Plan) + 1
  /\ BeginCleanup
  /\ UNCHANGED <<world, cleanups, errors, external, workload>>

-----------------------------------------------------------------------------
(* Cleanup.                                                                *)

InCleanup == phase \in {"cleanup1", "cleanup2"}
Top == cleanups[Len(cleanups)]
TopKind == Plan[Top.step]
Running(p) == InCleanup /\ cleanups # <<>> /\ pc = p

\* Mutant: cleanups[:i], the failed cleanup is not kept.
KeptWithoutFailed == SubSeq(cleanups, 1, Len(cleanups) - 1)

\* cleanups[:i+1], what a failing Cleanup leaves for the next call.
Kept == cleanups

\* Mutant: the test retries as long as Cleanup fails.
RetryAlways == "cleanup1"

\* The test calls Cleanup a second time and then gives up.
AfterFailure == IF phase = "cleanup1" THEN "cleanup2" ELSE "stopped"

\* Cleanup returns an error.
CleanupFails ==
  /\ cleanups' = Kept
  /\ phase' = AfterFailure
  /\ pc' = "get"

\* The top cleanup returns nil.
Pop ==
  /\ cleanups' = SubSeq(cleanups, 1, Len(cleanups) - 1)
  /\ pc' = "get"
  /\ UNCHANGED phase

CleanupError ==
  /\ InCleanup /\ cleanups # <<>>
  /\ errors < MaxErrors
  /\ errors' = errors + 1
  /\ CleanupFails
  /\ UNCHANGED <<world, step, snapshot, external, workload>>

OwnedTop == TopKind \notin {"kueue", "scheduler"} \/ (TopKind = "kueue" /\ Top.paths = {})

\* Mutant: NotFound is an error.
GoneIsError == CleanupFails

\* The labels are the test's and the uid is the recorded one, if any.
Owns(o, uid) == o.mine /\ (uid # 0 => o.uid = uid)

\* Get answers NotFound.
AlreadyGone == Pop

GetOwned ==
  /\ Running("get")
  /\ OwnedTop
  /\ LET o == obj[Top.step]
     IN  \/ /\ o.uid = 0 /\ TopKind = "run"
            /\ pc' = "wait" /\ UNCHANGED <<phase, cleanups>>
         \/ o.uid = 0 /\ TopKind # "run" /\ AlreadyGone
         \/ o.uid # 0 /\ ~Owns(o, Top.uid) /\ CleanupFails
         \/ /\ o.uid # 0 /\ Owns(o, Top.uid)
            /\ pc' = "delete" /\ UNCHANGED <<phase, cleanups>>
  /\ UNCHANGED <<world, step, snapshot, errors, external, workload>>

Waits(kind) == kind \in Awaited

\* Delete states no precondition on the uid: what has replaced the object since
\* the Get is deleted.
DeleteOwned ==
  /\ Running("delete")
  /\ obj' = [obj EXCEPT ![Top.step].terminating = (@ \/ obj[Top.step].uid # 0)]
  /\ IF Waits(TopKind) THEN pc' = "wait" /\ UNCHANGED <<phase, cleanups>> ELSE Pop
  /\ UNCHANGED <<fw, sched, nextUid, version, step, snapshot, errors, external, workload>>

\* Delete returns an error although it was carried out.
DeleteOwnedUnseen ==
  /\ Running("delete")
  /\ obj[Top.step].uid # 0
  /\ errors < MaxErrors
  /\ errors' = errors + 1
  /\ obj' = [obj EXCEPT ![Top.step].terminating = TRUE]
  /\ CleanupFails
  /\ UNCHANGED <<fw, sched, nextUid, version, step, snapshot, external, workload>>

\* Mutant: the Workload is not waited for.
RunGone(i) == obj[i].uid = 0

\* NotFound of the object; of a run's Workload too, if its name is known.
Gone(i) == obj[i].uid = 0 /\ (Plan[i] = "run" /\ named => ~queued)

\* waitForNotFound, or waitForExecutionObjectsGone; a timeout is a CleanupError,
\* and inevitable once somebody has put an object of that name there.
ObservedGone ==
  /\ Running("wait")
  /\ OwnedTop
  /\ LET o == obj[Top.step]
     IN  \/ Gone(Top.step) /\ Pop
         \/ o.uid # 0 /\ ~o.terminating /\ CleanupFails
  /\ UNCHANGED <<world, step, snapshot, errors, external, workload>>

\* The frameworks are removed from the paths Setup found them missing in,
\* whoever put them there; a Kueue that is gone is an error.
RestoreKueue ==
  /\ Running("get")
  /\ TopKind = "kueue" /\ Top.paths # {}
  /\ IF obj[Top.step].uid = 0
       THEN CleanupFails /\ UNCHANGED <<fw, version>>
       ELSE /\ fw' = [p \in FwPaths |-> IF p \in Top.paths THEN "none" ELSE fw[p]]
            /\ version' = version + 1
            /\ Pop
  /\ UNCHANGED <<obj, sched, nextUid, step, snapshot, errors, external, workload>>

\* restoreSchedulerFields: a value that is neither the original nor the test's
\* is left alone and reported as a conflict, which makes the cleanup fail.
RestoreScheduler ==
  /\ Running("get")
  /\ TopKind = "scheduler"
  /\ IF sched.value \in {Top.orig, "set"}
       THEN /\ sched' = [value |-> Top.orig, by |-> "admin"]
            /\ pc' = "wait" /\ UNCHANGED <<phase, cleanups>>
       ELSE CleanupFails /\ UNCHANGED sched
  /\ UNCHANGED <<obj, fw, nextUid, version, step, snapshot, errors, external, workload>>

\* waitForTektonConfig succeeds; its timeout, after the restore, is a CleanupError.
SchedulerRestored ==
  /\ Running("wait")
  /\ TopKind = "scheduler"
  /\ Pop
  /\ UNCHANGED <<world, step, snapshot, errors, external, workload>>

CleanupReturns ==
  /\ InCleanup
  /\ cleanups = <<>>
  /\ phase' = "clean"
  /\ UNCHANGED <<world, step, pc, snapshot, cleanups, errors, external, workload>>

-----------------------------------------------------------------------------
(* The cluster and its other users.                                        *)

\* Finalizers have run.
Vanish(i) ==
  /\ obj[i].terminating
  /\ obj' = [obj EXCEPT ![i] = Absent]
  /\ fw' = IF Plan[i] = "kueue" THEN [p \in FwPaths |-> "none"] ELSE fw
  /\ UNCHANGED <<sched, nextUid, version, local, errors, external, workload>>

Outside ==
  /\ phase \notin {"clean", "stopped"}
  /\ external < MaxExternal
  /\ external' = external + 1
  /\ UNCHANGED <<local, errors, workload>>

\* Kueue queues a Workload for the run, ...
QueueWorkload(i) ==
  /\ Plan[i] = "run" /\ obj[i].mine /\ ~obj[i].terminating
  /\ ~queued
  /\ queued' = TRUE
  /\ UNCHANGED <<world, local, named, errors, external>>

\* ... and it goes after the run.
CollectWorkload ==
  /\ queued
  /\ \A i \in Idx : Plan[i] = "run" /\ obj[i].mine => obj[i].terminating
  /\ queued' = FALSE
  /\ UNCHANGED <<world, local, named, errors, external>>

OthersCreate(i) ==
  /\ Outside
  /\ Plan[i] \in Touched \ {"scheduler"}
  /\ obj[i].uid = 0
  /\ obj' = [obj EXCEPT ![i] = [uid |-> nextUid, mine |-> FALSE, terminating |-> FALSE]]
  /\ nextUid' = nextUid + 1
  /\ version' = version + 1
  /\ UNCHANGED <<fw, sched>>

\* Delete and recreate, by a reinstalled operator for example.
OthersReplace(i) ==
  /\ Outside
  /\ Plan[i] \in Touched
  /\ obj[i].uid # 0
  /\ obj' = [obj EXCEPT ![i] = [uid |-> nextUid, mine |-> FALSE, terminating |-> FALSE]]
  /\ fw' = IF Plan[i] = "kueue" THEN [p \in FwPaths |-> "none"] ELSE fw
  /\ nextUid' = nextUid + 1
  /\ version' = version + 1
  /\ UNCHANGED sched

OthersDelete(i) ==
  /\ Outside
  /\ Plan[i] \in Touched
  /\ obj[i].uid # 0
  /\ obj' = [obj EXCEPT ![i] = Absent]
  /\ fw' = IF Plan[i] = "kueue" THEN [p \in FwPaths |-> "none"] ELSE fw
  /\ version' = version + 1
  /\ UNCHANGED <<sched, nextUid>>

OthersAddFramework(i, p) ==
  /\ Outside
  /\ Plan[i] = "kueue" /\ "kueue" \in Touched /\ obj[i].uid # 0
  /\ fw[p] = "none"
  /\ fw' = [fw EXCEPT ![p] = "admin"]
  /\ version' = version + 1
  /\ UNCHANGED <<obj, sched, nextUid>>

OthersSetScheduler(v) ==
  /\ Outside
  /\ "scheduler" \in Touched
  /\ v # sched.value
  /\ sched' = [value |-> v, by |-> "admin"]
  /\ UNCHANGED <<obj, fw, nextUid, version>>

Environment ==
  \/ \E i \in Idx : \/ OthersCreate(i) \/ OthersReplace(i) \/ OthersDelete(i)
                    \/ \E p \in FwPaths : OthersAddFramework(i, p)
  \/ \E v \in AdminValues : OthersSetScheduler(v)

Setup ==
  \/ SetupError \/ RegisterOwned \/ ReadKueue \/ CreateOwned \/ CreateOwnedUnseen
  \/ CreateOwnedExists \/ UpdateKueue \/ ReadScheduler \/ UpdateScheduler
  \/ WaitForHubWorkload \/ SchedulerReady \/ EndTest

Cleanup ==
  \/ CleanupError \/ GetOwned \/ DeleteOwned \/ DeleteOwnedUnseen \/ ObservedGone
  \/ RestoreKueue \/ RestoreScheduler \/ SchedulerRestored \/ CleanupReturns

Finished == phase \in {"clean", "stopped"} /\ UNCHANGED vars

Next ==
  \/ Setup \/ Cleanup \/ Environment \/ Finished
  \/ \E i \in Idx : Vanish(i) \/ QueueWorkload(i)
  \/ CollectWorkload

Spec == Init /\ [][Next]_vars

\* Every call returns, by its answer or its timeout, finalizers run, and what has
\* no owner is collected.
FairSpec ==
  /\ Spec /\ WF_vars(Setup \/ Cleanup)
  /\ WF_vars(\E i \in Idx : Vanish(i)) /\ WF_vars(CollectWorkload)

-----------------------------------------------------------------------------
(* Properties.                                                             *)

Registered(i) == \E k \in 1 .. Len(cleanups) : cleanups[k].step = i

\* An object of the test's that nobody is deleting has a cleanup that will find
\* it, through failed creations, failed cleanups and retries
\* (environment.go:121-136, resources.go:461-486).
NothingForgotten ==
  /\ \A i \in Idx : obj[i].mine /\ ~obj[i].terminating => Registered(i)
  /\ \A i \in Idx : Plan[i] = "kueue" /\ ~Registered(i) => \A p \in FwPaths : fw[p] # "test"
  /\ \A i \in Idx : Plan[i] = "scheduler" /\ ~Registered(i) => sched.by = "admin"

\* When Cleanup has returned nil and nobody else has touched the clusters, no
\* object of the test's is left that nobody is deleting, and the Kueue and the
\* scheduler are as Setup found them (environment.go:120).
CleanMeansRestored ==
  phase = "clean" /\ external = 0 =>
    /\ \A i \in Idx : ~(obj[i].mine /\ ~obj[i].terminating)
    /\ \A p \in FwPaths : fw[p] # "test"
    /\ sched = [value |-> "v0", by |-> "admin"]

\* An earlier cleanup (the scheduler, the Kueue) runs only when the awaited
\* objects set up after it are really gone (environment.go:125-130,
\* workload.go:302-330), the Workload among them once Execute has learnt its name.
Barrier ==
  InCleanup => \A i \in Idx :
    /\ Plan[i] \in Awaited /\ obj[i].mine => Registered(i)
    /\ Plan[i] = "run" /\ named /\ queued => Registered(i)

\* One failing call, in Setup or in Cleanup, never leaves the clusters changed:
\* the second Cleanup completes the first (tests/tektonkueue/workload_test.go:54).
OneErrorSurvived == errors <= 1 /\ external = 0 => phase # "stopped"

\* Cleanup comes to an end whatever others do to the clusters.
CleanupEnds == <>(phase \in {"clean", "stopped"})
=============================================================================
