-------------------------- MODULE NamespaceManager --------------------------
(***************************************************************************)
(* pkg/hooks/hooks.go: one test namespace per container path, created in   *)
(* a suite-level BeforeEach, deleted when the specs move on to another     *)
(* path unless a spec of the path failed, the rest deleted by AfterSuite.  *)
(*                                                                         *)
(* The specs of one Ginkgo process run one after another.  Concurrency     *)
(* comes from an interrupt (Ctrl-C, --timeout): Ginkgo does not wait for a *)
(* node that takes no context, so the goroutine of a BeforeEach it gave up *)
(* on keeps running while AfterEach and AfterSuite are executed.  The      *)
(* manager's mutex is all that orders them.                                *)
(*                                                                         *)
(* Namespace names are drawn at random by the code; here they are numbers  *)
(* taken from a counter, so two draws never collide.                       *)
(***************************************************************************)
EXTENDS Naturals

CONSTANTS
  Containers,   \* container hierarchies, "A > B > C" in the code
  OptOut,       \* those labelled no-auto-namespace
  Ordered,      \* those decorated Ordered: Ginkgo runs their specs in a row
  MaxAttempts,  \* attempts Ginkgo grants a failing spec (--flake-attempts)
  MaxRuns       \* bound: executions of specs, retries included

ASSUME ContainersAssumption == OptOut \subseteq Containers /\ Ordered \subseteq Containers
ASSUME BoundsAssumption == MaxAttempts \in Nat \ {0} /\ MaxRuns \in Nat

VARIABLES
  \* namespaceManager
  mu,                 \* who holds the mutex: "free" or "beforeEach"
  containerToNS,      \* path -> namespace, NoNS where the map has no entry
  containerFailed,    \* path -> has a failure; FALSE where the map has no entry
  lastContainerPath,  \* the path of the last completed BeforeEach, or NoPath
  \* what a test body acts on
  testNS,             \* *namespacePtr and store.Namespace(), assigned together
  clientNS,           \* the namespace sharedClients is scoped to, NoNS for one
                      \* the manager did not draw (TargetNamespace, a static one)
  \* the cluster
  projects,           \* projects that exist
  nextNS,             \* next name to draw
  \* Ginkgo
  phase,              \* where the suite is
  hook,               \* where the BeforeEach goroutine is, "none" when it ended
  spec,               \* the current spec: its path and whether it has failed
  finished,           \* Ordered containers that have been left
  interrupted,
  runs,
  \* history
  deleteCalled,       \* namespaces oc delete project was called for
  failedIn,           \* namespaces whose spec AfterEach saw failed
  lateFailedIn,       \* namespaces whose spec failed after AfterEach
  everCreated,        \* namespaces that have existed
  bodyNS              \* container -> namespaces first attempts of its specs ran in

manager  == <<mu, containerToNS, containerFailed, lastContainerPath>>
scope    == <<testNS, clientNS>>
cluster  == <<projects, nextNS>>
ginkgo   == <<phase, hook, spec, finished, interrupted, runs>>
history  == <<deleteCalled, failedIn, lateFailedIn, everCreated, bodyNS>>
vars     == <<manager, scope, cluster, ginkgo, history>>

NoNS   == 0
NoPath == <<>>

Paths == Containers \X (1 .. MaxAttempts)
NS    == Nat \ {0}

Phases == {"idle", "before", "body", "after", "cleanup", "suite", "done"}
Hooks  == {"none", "switch", "lookup", "create", "waitSA", "export"}

ManagerOK ==
  /\ mu \in {"free", "beforeEach"}
  /\ containerToNS \in [Paths -> Nat]
  /\ containerFailed \in [Paths -> BOOLEAN]
  /\ lastContainerPath \in Paths \cup {NoPath}

ScopeOK == testNS \in Nat /\ clientNS \in Nat

ClusterOK == projects \subseteq NS /\ nextNS \in NS

GinkgoOK ==
  /\ phase \in Phases
  /\ hook \in Hooks
  /\ spec \in [path : Paths \cup {NoPath}, failed : BOOLEAN]
  /\ finished \subseteq Containers
  /\ interrupted \in BOOLEAN
  /\ runs \in Nat

HistoryOK ==
  /\ deleteCalled \subseteq NS
  /\ failedIn \subseteq NS
  /\ lateFailedIn \subseteq NS
  /\ everCreated \subseteq NS
  /\ bodyNS \in [Containers -> SUBSET NS]

\* Every variable has its type; only drawn names are ever created, deleted or
\* recorded, which depends on the hook reaching oc with a registered name.
TypeOK == ManagerOK /\ ScopeOK /\ ClusterOK /\ GinkgoOK /\ HistoryOK

Init ==
  /\ mu = "free"
  /\ containerToNS = [p \in Paths |-> NoNS]
  /\ containerFailed = [p \in Paths |-> FALSE]
  /\ lastContainerPath = NoPath
  /\ testNS = NoNS
  /\ clientNS = NoNS
  /\ projects = {}
  /\ nextNS = 1
  /\ phase = "idle"
  /\ hook = "none"
  /\ spec = [path |-> NoPath, failed |-> FALSE]
  /\ finished = {}
  /\ interrupted = FALSE
  /\ runs = 0
  /\ deleteCalled = {}
  /\ failedIn = {}
  /\ lateFailedIn = {}
  /\ everCreated = {}
  /\ bodyNS = [c \in Containers |-> {}]

-----------------------------------------------------------------------------
(* Scheduling of specs, and the hook's first statements up to Lock.        *)

\* BeforeEach takes the lock and will treat the spec as path p.
EnterBeforeEach(p) ==
  /\ runs < MaxRuns
  /\ mu = "free"
  /\ mu' = "beforeEach"
  /\ phase' = "before"
  /\ hook' = "switch"
  /\ spec' = [path |-> p, failed |-> FALSE]
  /\ runs' = runs + 1
  /\ UNCHANGED <<containerToNS, containerFailed, lastContainerPath, scope,
                 cluster, interrupted, history>>

\* Ginkgo starts a spec of container c.  An Ordered container is left for good.
StartSpec(c) ==
  /\ phase = "idle"
  /\ ~interrupted
  /\ c \notin finished
  /\ ~(spec.failed /\ spec.path[2] < MaxAttempts)
  /\ finished' = IF spec.path # NoPath /\ spec.path[1] \in Ordered /\ spec.path[1] # c
                   THEN finished \cup {spec.path[1]} ELSE finished
  /\ EnterBeforeEach(<<c, 1>>)

\* Ginkgo runs a failed spec again; CurrentSpecReport().NumAttempts grows.
RetrySpec ==
  /\ phase = "idle"
  /\ ~interrupted
  /\ spec.failed /\ spec.path[2] < MaxAttempts
  /\ UNCHANGED finished
  /\ EnterBeforeEach(<<spec.path[1], spec.path[2] + 1>>)

-----------------------------------------------------------------------------
(* The BeforeEach hook, mutex held.                                        *)

\* oc delete project, errors ignored: the call is made, the project may stay.
DeleteProjectIgnoreErrors(S) ==
  /\ deleteCalled' = deleteCalled \cup S
  /\ \E gone \in SUBSET S : projects' = projects \ gone

\* BeforeEach leaves the last path for another one and the map knows the last.
LeavesPath ==
  /\ lastContainerPath # NoPath
  /\ lastContainerPath # spec.path
  /\ containerToNS[lastContainerPath] # NoNS

\* Mutants: failures are ignored; the delete call is missing.
DeletedEvenIfFailed == {containerToNS[lastContainerPath]}
NothingDeleted == {}

\* The namespace of the path that is left, unless a spec of the path failed.
DeletedOnLeaving ==
  IF containerFailed[lastContainerPath] THEN {} ELSE {containerToNS[lastContainerPath]}

\* Mutant: delete(containerToNS, last) is missing.
ForgetFlagOnly ==
  /\ containerFailed' = [containerFailed EXCEPT ![lastContainerPath] = FALSE]
  /\ UNCHANGED containerToNS

\* Both map entries of the path that is left are dropped.
ForgetPath ==
  /\ containerToNS' = [containerToNS EXCEPT ![lastContainerPath] = NoNS]
  /\ containerFailed' = [containerFailed EXCEPT ![lastContainerPath] = FALSE]

SwitchContainer ==
  /\ hook = "switch"
  /\ IF LeavesPath
       THEN DeleteProjectIgnoreErrors(DeletedOnLeaving) /\ ForgetPath
       ELSE UNCHANGED <<containerToNS, containerFailed, projects, deleteCalled>>
  /\ hook' = "lookup"
  /\ UNCHANGED <<mu, lastContainerPath, scope, nextNS, phase, spec, finished,
                 interrupted, runs, failedIn, lateFailedIn, everCreated, bodyNS>>

\* The hook returns, normally or in a panic, and its deferred Unlock runs;
\* Ginkgo goes on unless it has already given up on this node.
HookReturns(ok) ==
  /\ mu' = "free"
  /\ hook' = "none"
  /\ IF phase = "before"
       THEN /\ phase' = IF ok THEN "body" ELSE "after"
            /\ spec' = [spec EXCEPT !.failed = ~ok]
       ELSE UNCHANGED <<phase, spec>>
  /\ UNCHANGED <<finished, interrupted, runs>>

\* A container that manages its own namespaces: only the path is remembered.
LookupOptOut ==
  /\ hook = "lookup"
  /\ spec.path[1] \in OptOut
  /\ lastContainerPath' = spec.path
  /\ HookReturns(TRUE)
  /\ UNCHANGED <<containerToNS, containerFailed, scope, cluster, history>>

NeedsNamespace == containerToNS[spec.path] = NoNS

\* A new path draws a name and enters both maps before the project exists.
\* (The nil-clients Fail is unreachable: no spec runs when BeforeSuite failed.)
Lookup ==
  /\ hook = "lookup"
  /\ spec.path[1] \notin OptOut
  /\ IF NeedsNamespace
       THEN /\ containerToNS' = [containerToNS EXCEPT ![spec.path] = nextNS]
            /\ containerFailed' = [containerFailed EXCEPT ![spec.path] = FALSE]
            /\ nextNS' = nextNS + 1
            /\ hook' = "create"
       ELSE /\ UNCHANGED <<containerToNS, containerFailed, nextNS>>
            /\ hook' = "export"
  /\ UNCHANGED <<mu, lastContainerPath, scope, projects, phase, spec, finished,
                 interrupted, runs, history>>

\* Mutant: the exit code of oc new-project is not looked at.
CreateNewProjectUnchecked ==
  /\ hook = "create"
  /\ \E made \in SUBSET {containerToNS[spec.path]} :
       /\ projects' = projects \cup made
       /\ everCreated' = everCreated \cup made
  /\ hook' = "waitSA"
  /\ UNCHANGED <<manager, scope, nextNS, phase, spec, finished, interrupted,
                 runs, deleteCalled, failedIn, lateFailedIn, bodyNS>>

\* oc new-project succeeds.
CreateNewProject ==
  /\ hook = "create"
  /\ projects' = projects \cup {containerToNS[spec.path]}
  /\ everCreated' = everCreated \cup {containerToNS[spec.path]}
  /\ hook' = "waitSA"
  /\ UNCHANGED <<manager, scope, nextNS, phase, spec, finished, interrupted,
                 runs, deleteCalled, failedIn, lateFailedIn, bodyNS>>

\* oc new-project fails, or times out with the project made: MustSucceed fails
\* the spec, the entries made by Lookup stay.
CreateNewProjectFails ==
  /\ hook = "create"
  /\ HookReturns(FALSE)
  /\ \E made \in SUBSET {containerToNS[spec.path]} :
       /\ projects' = projects \cup made
       /\ everCreated' = everCreated \cup made
  /\ UNCHANGED <<containerToNS, containerFailed, lastContainerPath, scope,
                 nextNS, deleteCalled, failedIn, lateFailedIn, bodyNS>>

\* Mutant: the poll has no timeout and the service account never appears.
WaitWithoutTimeout ==
  /\ hook = "waitSA"
  /\ UNCHANGED vars

\* The wait for the pipeline service account ends, found or not: its result is
\* discarded.
WaitForPipelineServiceAccount ==
  /\ hook = "waitSA"
  /\ hook' = "export"
  /\ UNCHANGED <<manager, scope, cluster, phase, spec, finished, interrupted,
                 runs, history>>

\* The body's namespace pointer, the store and the clients get the path's
\* namespace.
ExportNamespace ==
  /\ hook = "export"
  /\ lastContainerPath' = spec.path
  /\ testNS' = containerToNS[spec.path]
  /\ clientNS' = containerToNS[spec.path]
  /\ HookReturns(TRUE)
  /\ bodyNS' = IF phase = "before" /\ spec.path[2] = 1
                 THEN [bodyNS EXCEPT ![spec.path[1]] = @ \cup {containerToNS[spec.path]}]
                 ELSE bodyNS
  /\ UNCHANGED <<containerToNS, containerFailed, cluster, deleteCalled, failedIn,
                 lateFailedIn, everCreated>>

-----------------------------------------------------------------------------
(* The test body, AfterEach, cleanups registered with DeferCleanup.        *)

\* A body re-scopes the shared clients to a namespace of its own.
BodyRescopesClients ==
  /\ phase = "body"
  /\ clientNS # NoNS
  /\ clientNS' = NoNS
  /\ UNCHANGED <<manager, testNS, cluster, ginkgo, history>>

BodyEnds ==
  /\ phase = "body"
  /\ phase' = "after"
  /\ \E failed \in BOOLEAN : spec' = [spec EXCEPT !.failed = failed]
  /\ UNCHANGED <<manager, scope, cluster, hook, finished, interrupted, runs, history>>

\* Ginkgo is told to stop: it fails the running spec, leaves its node behind
\* and starts no other spec.
Interrupt ==
  /\ phase \in {"idle", "before", "body"}
  /\ ~interrupted
  /\ interrupted' = TRUE
  /\ IF phase = "idle"
       THEN UNCHANGED <<phase, spec>>
       ELSE phase' = "after" /\ spec' = [spec EXCEPT !.failed = TRUE]
  /\ UNCHANGED <<manager, scope, cluster, hook, finished, runs, history>>

\* Mutant: containerFailed is written without taking the mutex.
AfterEachUnlocked == TRUE

\* mu.Lock() in AfterEach returns.
AfterEachLocks == mu = "free"

\* The suite-level AfterEach: a failed spec marks its path, under the mutex.
AfterEach ==
  /\ phase = "after"
  /\ spec.failed => AfterEachLocks
  /\ containerFailed' = IF spec.failed THEN [containerFailed EXCEPT ![spec.path] = TRUE]
                          ELSE containerFailed
  /\ failedIn' = IF spec.failed /\ containerToNS[spec.path] # NoNS
                   THEN failedIn \cup {containerToNS[spec.path]} ELSE failedIn
  /\ phase' = "cleanup"
  /\ UNCHANGED <<mu, containerToNS, lastContainerPath, scope, cluster, hook,
                 spec, finished, interrupted, runs, deleteCalled, lateFailedIn,
                 everCreated, bodyNS>>

\* DeferCleanup callbacks run after AfterEach and may fail the spec too.
DeferredCleanup ==
  /\ phase = "cleanup"
  /\ phase' = "idle"
  /\ \/ UNCHANGED <<spec, lateFailedIn>>
     \/ /\ ~spec.failed
        /\ spec' = [spec EXCEPT !.failed = TRUE]
        /\ lateFailedIn' = IF containerToNS[spec.path] # NoNS
                             THEN lateFailedIn \cup {containerToNS[spec.path]}
                             ELSE lateFailedIn
  /\ UNCHANGED <<manager, scope, cluster, hook, finished, interrupted, runs,
                 deleteCalled, failedIn, everCreated, bodyNS>>

-----------------------------------------------------------------------------
(* AfterSuite.                                                             *)

\* No spec is left, or the run was interrupted.
EndSpecs ==
  /\ phase = "idle"
  /\ interrupted \/ ~(spec.failed /\ spec.path[2] < MaxAttempts /\ runs < MaxRuns)
  /\ phase' = "suite"
  /\ UNCHANGED <<manager, scope, cluster, hook, spec, finished, interrupted, runs, history>>

Remaining == {p \in Paths : containerToNS[p] # NoNS}

\* CleanupNamespaces deletes every namespace still in the map whose path has no
\* failure.  It leaves the maps as they are.
CleanupNamespaces ==
  /\ phase = "suite"
  /\ mu = "free"
  /\ DeleteProjectIgnoreErrors(
       {containerToNS[p] : p \in {q \in Remaining : ~containerFailed[q]}})
  /\ phase' = "done"
  /\ UNCHANGED <<manager, scope, nextNS, hook, spec, finished, interrupted,
                 runs, failedIn, lateFailedIn, everCreated, bodyNS>>

BeforeEachHook ==
  \/ SwitchContainer
  \/ LookupOptOut
  \/ Lookup
  \/ CreateNewProject
  \/ CreateNewProjectFails
  \/ WaitForPipelineServiceAccount
  \/ ExportNamespace

Suite ==
  \/ \E c \in Containers : StartSpec(c)
  \/ RetrySpec
  \/ BodyRescopesClients
  \/ BodyEnds
  \/ AfterEach
  \/ DeferredCleanup
  \/ EndSpecs
  \/ CleanupNamespaces

\* The process has nothing left to do.
Terminated ==
  /\ phase = "done"
  /\ hook = "none"
  /\ UNCHANGED vars

Next == BeforeEachHook \/ Suite \/ Interrupt \/ Terminated

Spec == Init /\ [][Next]_vars

(***************************************************************************)
(* Fairness: the hook's calls have timeouts (90 s for oc, 30 s for the     *)
(* service account poll), so a hook step that is enabled is taken; Ginkgo  *)
(* keeps running nodes.  Nothing forces an interrupt.                      *)
(***************************************************************************)
FairSpec == Spec /\ WF_vars(BeforeEachHook) /\ WF_vars(Suite)

-----------------------------------------------------------------------------
(* Properties.                                                             *)

\* Once AfterEach has recorded a failure, oc delete project is never called for
\* the namespace the failing spec ran in: not when the specs move on, not by a
\* retry, not by AfterSuite (hooks.go:45-53, 99-109).
FailedNamespacePreserved == failedIn \cap deleteCalled = {}

\* When the process ends with a failed last spec (the interrupted one, for
\* example) its namespace is still there, even if Ginkgo abandoned the
\* BeforeEach that was registering it: AfterEach marks the path only after the
\* hook has released the mutex (hooks.go:92, 148-149, 188-190).
LastFailurePreserved ==
  (phase = "done" /\ spec.failed /\ spec.path # NoPath)
    => containerToNS[spec.path] \notin deleteCalled \ lateFailedIn

\* No project is forgotten: when the process ends every project that was made
\* has been deleted or is kept for a failure (hooks.go:41-54, 107).
NoNamespaceLeaked == phase = "done" => everCreated \subseteq deleteCalled \cup failedIn

ManagedBody == phase = "body" /\ spec.path[1] \notin OptOut

\* A body that relies on the manager runs in the namespace of its own path, and
\* nobody has asked to delete it, however often the specs of two containers
\* alternate (hooks.go:95-110, 163-166).
BodyNamespaceLive ==
  ManagedBody => testNS = containerToNS[spec.path] /\ testNS \notin deleteCalled

\* "Share that namespace across all It blocks in the Describe" (hooks.go:71).
\* The specs of an Ordered container use one namespace as long as none of them
\* fails; a spec that is retried makes the ones after it use another, because a
\* retry has a path of its own (hooks.go:85-88).
SharedUntilFailure ==
  \A c \in Ordered : \A m, n \in bodyNS[c] :
    m # n => {m, n} \cap (failedIn \cup lateFailedIn) # {}

\* "Create a namespace when entering a new Ordered Describe block" (hooks.go:70):
\* where that failed, the entry made before it stays (hooks.go:148-152) and later
\* specs of the container run in a namespace that does not exist, but never
\* before a spec of the container has been reported as failed there.
MissingProjectReported == ManagedBody => testNS \in everCreated \cup failedIn

\* The suite ends whatever happens to the hook: no step waits for ever on the
\* manager's mutex (hooks.go:42, 92, 188).
SuiteEnds == <>(phase = "done")
=============================================================================
