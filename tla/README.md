# TLA+ models of release-tests-ginkgo

The repository is the end-to-end test framework of OpenShift Pipelines: Go
packages under `pkg/` that create namespaces, install and upgrade operators,
start PipelineRuns and wait for them, reconfigure clusters and forges and put
everything back, and Ginkgo suites under `tests/` that drive them. Its hard
part is the bookkeeping that has to be right while tests fail, are retried or
are interrupted, and while other processes and controllers act on the same
cluster. That bookkeeping is what is modelled here.

Contents: [inventory](#inventory), [modules](#modules), [runs](#runs),
[proofs](#proofs), [findings](#findings), [known limits](#known-limits),
[not modelled](#not-modelled).

## Inventory

| Part | State it keeps | Operations | Hard because | Correct when |
|---|---|---|---|---|
| `pkg/hooks` test namespaces | container path -> namespace, path -> failed, last path, `testNS`, client scope; a mutex | suite-level BeforeEach and AfterEach, `CleanupNamespaces` | retries, alternating containers, failing `oc`, an interrupt that leaves the BeforeEach goroutine behind | namespaces of failed specs survive, none is forgotten, a body runs in a live namespace of its own |
| `pkg/tektonkueue` environment | a stack of cleanup closures with uid, original settings | `Setup`, `Cleanup` (called up to twice) | any API call may fail, also after it was carried out; administrators act in between | nothing test-owned is forgotten, configuration is restored, order is kept |
| `pkg/tektonkueue` workload | run and Workload name | `Execute`: create the PipelineRun, sample the spokes, capture logs | sampling of a moving system | exactly one spoke executes |
| `pkg/pipelines` validation | goroutines, a result channel, a wait group | `ValidatePipelineRun` with four validations | polls miss states; goroutines outlive the spec | a pass is deserved, a failure is reported |
| `pkg/pipelines` watches | a counter shared by goroutine and caller | `WatchForPipelineRun`, `AssertForNoNewPipelineRunCreation` | List and Watch are two calls; the watch may end | what is counted is what was created after the List |
| `pkg/wait` | none | poll conditions and waits | they sample | see validation |
| `pkg/olm` bootstrap | none; the cluster's | `EnsurePrerequisites`, `EnsureOperators`, `EnsureOperator`, `WaitForAPI` | several processes bootstrap one cluster; check-then-create | one subscription per package, one OperatorGroup per namespace |
| `pkg/olm` subscription, `pkg/oc` skip ranges | one Subscription; a JSON file in the repository | subscribe, change channel, uninstall; save, diff and check the ranges | OLM's status lags behind the spec; the file outlives the process and is rewritten in place | an install or upgrade is waited for, an uninstall is complete, the ranges compared are those saved |
| `pkg/manualapprovalgate` | kubeconfigs and dirty marks per user, two results of a `sync.Once` | ensure and delete groups, log in or impersonate, act with opc, wait for tasks | marks are cleared before the login; groups are cluster-scoped; specs go on after a failure | opc acts with the rights the test asked for; a failure stays in its test case |
| `pkg/multicluster` hub environment | snapshot of scheduler, networkPolicy and approval gate; uids of created objects | `Setup`, `SetSchedulerMode`, `EnsureCustomPolicy`, `RemoveCustomPolicyAndRestore`, `Cleanup` | snapshots of several reads; merge patches and typed updates of one object; lost answers | each failed deletion costs one object, a snapshot is restored |
| `pkg/pac` | package variables, temporary files, deferred cleanups | set up and clean up a project on GitLab or GitHub, raise events, wait for PipelineRuns | a dozen calls to two systems, each failing or losing its reply; events overtake each other | a failed setup is undone, cleanup is complete, the run validated is the one meant |
| `pkg/monitoring` mTLS, `pkg/operator` TLS profile | original settings in variables of the container | read, set and restore settings; checks of Services, monitors, pods | the operator follows at its own pace; any command fails | what was changed is restored or reported, what was checked holds |
| `pkg/tlsscanner`, `pkg/triggers`, `pkg/opc`, rest of `pkg/operator` and `pkg/oc` | none | one-shot commands, REST calls, assertions on the cluster | output of tools | a matter of I/O |
| `pkg/store`, `pkg/clients`, `pkg/config`, `pkg/cmd`, `pkg/diagnostics`, `pkg/k8s`, `pkg/openshift`, `pkg/statefulset`, `pkg/testcase` | a map behind a mutex; flags; clients | get/set, construction, single calls | little | little |

How the parts meet: the suites register the hooks; a hook runs `oc`, writes
`testNS` and the store and re-scopes the shared clients; bodies call the other
packages with those clients. The Kueue and multi-cluster suites call the
bootstrap, then their environment's `Setup`, and register `Cleanup` with
`DeferCleanup`, which Ginkgo runs after AfterEach. The cron spec of the
triggers suite uses the two watches. The suites of an upgrade are processes of
their own, which share the Subscription and the skip range file.

## Modules

`M.tla` is the component, `MCM.tla` gives it constants for TLC, `MProofs.tla`
holds its theorems. `OlmProofs` holds those of OperatorBootstrap and
OperatorUpgrade, `PipelinesProofs` those of RunValidation and RunWatch; `MCOlm` and
`MCPipelines` run the same pairs, each behaviour being one of either module. The
mapping of every definition to source lines is in `PROJECT.json`.

**NamespaceManager** (`pkg/hooks/hooks.go`). The variables `containerToNS`,
`containerFailed`, `lastContainerPath`, `mu` are the fields of
`namespaceManager`; `testNS` and `clientNS` what a body acts on; `projects` the
cluster. The BeforeEach hook is a sequence of actions
(`SwitchContainer`, `Lookup` or `LookupOptOut`, `CreateNewProject`,
`WaitForPipelineServiceAccount`, `ExportNamespace`), all under the mutex, so
that an interrupt can strike between any two of them; `AfterEach` and
`CleanupNamespaces` are one action each. A path is a container and an attempt
number, as in the code, where attempts above 1 get a suffix. Ginkgo is external: it
starts specs of any container in any order, but those of an Ordered container
in a row; retries failing specs; runs DeferCleanup callbacks, which may fail,
after AfterEach; on an interrupt it fails the spec, does not wait for its node,
and goes on to AfterEach and AfterSuite. Random names are drawn from a counter.

**KueueEnvironment** (`environment.go`, `resources.go` and, of `workload.go`, the
creation of the PipelineRun and the removal of what executes it). `Plan` is the sequence of Setup's mutations by
kind. Every mutation first looks (where the helper does), then pushes a cleanup,
then applies; the entry's uid is filled in when Create has answered. `Cleanup`
works on the top of the stack: `GetOwned`, `DeleteOwned`, `ObservedGone`, or one
of the two restores; a failure keeps the entry and the test calls Cleanup once
more. A call can fail without effect (`SetupError`, `CleanupError`) or after it
was carried out (`CreateOwnedUnseen`, `DeleteOwnedUnseen`). Kueue makes the run's
Workload (`queued`) and collects it after the run; Cleanup awaits it only when
`waitForHubWorkload` has learned its name (`named`, `Gone`). Other users of the
cluster create, replace and delete objects of the same names and change
settings. Abstractions: one cluster stands for all, as no step relates two; one
scheduler field stands for five that follow the same rule; objects inside the
test namespace go with it; the emptying of a ClusterRoleBinding before its
deletion is left out, because the deletion follows in the same cleanup.

**HubEnvironment** (`multicluster.go` and the specs of
`networkpolicy_multicluster_test.go`). The calls of Setup, of each spec, of each
deferred function and of the restore are written as scripts; an action carries
out the next call. Specs run in order, any of them filtered out, and end at a
failing call. `obj` is what the run creates, `sched`, `np` and `mag` the
configuration. A merge patch keeps the fields it does not name; the typed client
is older than `networkPolicy`, so its Update stores the object without that field
(`StoredByUpdate`), and admission may store an empty one in its place
(`defaulting`, unknown, so both). The operator turns the configuration into
NetworkPolicies whenever it likes. Answers of creations may be lost and others
may replace the Kueue.

**RunValidation** (`pipelines.go`, `wait.go`). A PipelineRun and its TaskRuns
move as Tekton moves them; the validation polls. A poll condition is an operator
from a status to "ok", "err" or "more"; a wait may also fail at any time, by an
API error or its timeout. The goroutines of the timeout validation, their
channel, its deferred `close` and the wait group are modelled one by one, also
after the spec has ended.

**RunWatch** (`pipelines.go`, the two watches). Runs are numbered in order of
creation and the number is the resourceVersion. Delivery, closing of the watch
and the sleep interleave freely. The counter is read without synchronisation;
as one word it is read as some value between two events.

**OperatorBootstrap** (`cluster_bootstrap.go`). Every caller is a process and
every API call an action. Calls may fail at any point, a Create also after it was
carried out. Administrators have acted before the callers start, in any way:
several subscriptions, other names, namespaces and channels. OLM installs a
subscription only where its namespace has one OperatorGroup; CSVs may fail,
recover and fall back; APIs are served some time after the CSV has succeeded.

**PacProject** (`pac.go`, `pac-github.go`, the waits for deployments in
`k8s.go`, and the containers of `tests/pac`). One process runs containers one
after the other; `script` is the sequence of steps of the container that runs.
`local` are the variables of a container, `process` the package variables and
temporary files it shares with the next (a file that `os.Remove` could not remove
is marked `Stale`), `namespace` and `forge` what it has
created, `defers` the stack of deferred cleanups. BeforeAll is one action per
call (`InitClient`, `NewSmeeURL`, `CreateSmeeDeployment`, `ForkProject` with its
retry, `AddWebhook`, `CreateNewRepository`, and on GitHub `CreateRepository`,
`EnsureWebhookSecret` and the rest); GitHub's setup undoes itself call by call
(`Rollback`), GitLab's does not. A call may fail after it was carried out.
The forge, the smee relay and the controller are external: an event that meets a
hook, a relay, a Secret and a Repository CR that agree starts a run, later and in
any order. The latest run is told by its creation time, in seconds: of runs within
one second (`tied`) the first listed is taken. `picks` records which run each spec
has validated.

**ApprovalGate** (`manualapprovalgate.go` and the test cases of `tests/mag`).
`case`, `ns`, `step` are the test case, its namespace and its spec;
`groups` the Groups of the cluster, named by namespace and alias;
`dirty`, `kubeconfigs`, `login` the cache of logins, a login carrying the groups
of the moment it was made; `server` and `mode` the results of the two
`sync.Once`. EnsureGroupMembers is three actions (read, create, patch and mark),
as are a login and the command that follows; a second process works on groups
with the same aliases. The specs of a test case go on after one has failed.
`Passes` and `After` say what a spec does where nothing is cached, by the same
operators (`Ways`, `Respond`, `AsWanted`) as the actions; `Course` is what the
specs of a test case then find.

**ClusterSettings** (`mtls.go`, `tlsprofile.go` and their containers). A
container is a sequence of operations and one of its cleanup; `cfg` holds the
settings, `orig` what they were, `saved` what the code has read. The operator
notices a change at any later time and brings Services, monitors and pods in
line one by one, so `shown` holds all values a part can still be seen with.
**SettingsGuard** is the abstract promise for one setting: nothing is changed
before there is a value to go back to, and a container ends with that value or
with a reported failure. `SettingsKept` says that ClusterSettings implements it
twice, for the pruner and for the TLS profile (`INSTANCE ... WITH`).

**OperatorUpgrade** (`subscription.go`, `olm_skiprange.go`, and the suites of
`tests/olm`, `tests/operator` and `tests/versions` that call them). A campaign is
the order in which the pipeline runs specs; `sub` and `csv` are the Subscription
and the ClusterServiceVersions, `plans` the InstallPlans with and without an
owner, `file` is `testdata/olm/skiprange.json`, which
is truncated and written in two steps. OLM and the catalog act when they like.
Versions are triples of numbers and the substring searches of the code are
spelt out on their digits (`ChannelContains`, `skipRangeContainsVersion`): 1.2 is
found in 1.20.

The modules are not composed (`MCOlm` and `MCPipelines` run two modules each, side by
side): the components share no state but the cluster, in different objects. What they have in common, putting back what was
changed, is stated once in SettingsGuard where one setting is concerned; the
stacks of KueueEnvironment, HubEnvironment and PacProject undo objects in an
order of their own, and their properties say so directly.

## Runs

Passing runs:

| Run | Checks | Instance |
|---|---|---|
| `ns_retries` | `FailedNamespacePreserved`, `LastFailurePreserved`, `NoNamespaceLeaked`, `MissingProjectReported`, `BodyNamespaceLive`, `SuiteEnds` | an Ordered, a plain and an opted-out container; 2 attempts; 4 spec executions; 211 468 states |
| `kueue_others` | `NothingForgotten`, `CleanMeansRestored`, `Barrier`, `OneErrorSurvived`, `CleanupEnds` | one mutation of each of the 6 kinds; 1 failing call; 2 actions of others; 467 997 states |
| `hub_cleanup` | `TypeOK`, `OneErrorOneObject`, `NilMeansDeleted`, `SnapshotRestored` | any selection of the 6 specs; 5 starting clusters; 1 failing call, 1 lost answer, 1 action of others; 761 040 states |
| `pipelines` | `PassMeansExpected`, `PassLeavesNoGoroutine`, `NoGap`, `ValidationsEnd` | a validation of 3 TaskRuns with each expected status, or up to 4 runs and 2 watches one after the other; 66 024 states |
| `olm` | `NoSecondOperator`, `RacesAreBenign`, `WaitingCallersServed`, `BootstrapsEnd`; `FreshInstallIsCurrent`, `UninstallComplete`, `SavedRangesCompared` | 2 callers, one of them with a discovery client, 2 packages in one namespace, 3 possible earlier subscriptions and groups; or campaigns of up to 4 specs over several pairs of catalogs, 1 release, 1 failing call; 446 618 states |
| `pac_projects` | `TypeOK`, `FailedSetupUndone`, `CleanupComplete`, `EventsReachController`, `CommittedIsOurs`, `CheckedRunIsMeant`, `ContainersEnd` | 2 containers with any of 5 scripts, 4 on GitLab and 1 on GitHub; 2 fork attempts; 2 failing calls; 437 457 states |
| `mag_logins` | `CredentialsFit`, `FailureStaysInCase` | 3 test cases in a row out of 5, 2 users, 1 alias; hosted or not; 2 failing commands; 787 598 states |
| `settings_restore` | `RestoredUnlessReported`, `PassedChecksStand`, `SettingsKept` | the two containers, 6 parts, several starting settings; 2 failing commands; 209 807 states |

The four violation runs, `run_crash`, `watch_ended`, `upgrade_stale` and
`skip_patches`, are described under [findings](#findings). Type invariants are proved; TLC checks those of
HubEnvironment and PacProject as well, whose types say more than the rest (how
many objects a script can make, which run a spec may validate).

Why the bounds are enough to see the interesting cases: 4 spec executions allow
A, B, A again and a retry, and the interrupt in any of them. Two actions of
others suffice for "delete, then create anew" at any two points; one error is
what the retry in the test is meant for. Three TaskRuns allow a result received,
one in the channel and one goroutine still waiting. Two callers are all that a
race on a name needs, and two packages in one namespace make them share the
OperatorGroup. In `hub_cleanup` the starting clusters differ in what a restore
can get wrong (no networkPolicy, an empty one, the flag set, the name taken), and
one error with one lost answer reaches every partial Setup. Two PAC containers
let the second meet what the first left in the process; two failures break a
setup and then its undoing; two forks are one retry. The five approval test cases
are one of each shape (two approvers, a stranger, a change of mind, an early
timeout, a change of members); three in a row leave a spoilt cache and then use
it twice, with two commands failing on the way. Two failures in
`settings_restore` hit a spec and the cleanup. Four specs are install, upgrade,
uninstall and install again, or save, diff and version check with one of them
retried; one release suffices to change a catalog between two reads. TC04 of PAC
is run up to its second cancellation, after which it repeats itself. In
`settings_restore` a Describe with a BeforeAll counts as one spec.

`RunValidation` and `RunWatch` may stop when the validation is over or the bound
of operations is used up, so the runs of `MCPipelines` do not check for deadlock.

Fairness. NamespaceManager: the hook (its `oc` calls are killed after 90 s, the
service account poll after 30 s) and Ginkgo go on; nothing forces an interrupt.
KueueEnvironment: each call returns by its answer or its timeout, finalizers run,
and Kueue collects the Workload of a run that is gone. RunValidation: each poll has a timeout and goroutines are
scheduled; Tekton owes nothing. OperatorBootstrap: each caller goes on, as its
waits time out; OLM owes nothing. PacProject: the test's thread goes on and
PipelineRuns end, which checkPipelineStatus needs, as it polls without
a limit; events owe nothing. ClusterSettings, for the liveness part of
`SettingsKept`: the container goes on, as each wait times out; the operator owes
nothing. HubEnvironment, ApprovalGate, OperatorUpgrade and RunWatch have no
liveness property.

## Proofs

Proved with TLAPS, for all values of the constants that satisfy the assumptions
each module names (`ASSUME`). Bounds are natural numbers everywhere. Besides:
a plan is a sequence of known packages (OperatorBootstrap) or of kinds of
mutation with at most one Kueue and one scheduler (KueueEnvironment); containers
read a setting before they set it, restore what they read, and check after each
change what a later check is to rely on (`ContainersAssumption` of
ClusterSettings, with `ReadFirst`, `RestoreRead` and `ChecksFollow`); parts are
of the five kinds there are assertions for (`PartsAssumption`); exactly one
pruner is on at the start (`StartsAssumption`); every catalog has the channels
used, and numbers in versions have at most two digits (OperatorUpgrade); specs
name groups and users of the suite, and a test case passes when every command works
and everybody acts with the groups they are in, which is a matter of the data in it
and says nothing of marks, logins and the groups of other test cases
(`CasesAssumption` and `CourseAssumption` of ApprovalGate; the run computes
`Course` for the five test cases); at least one container runs,
its script is a sequence of the steps there are, and annotations name a label, a
comment or tags; a script raises an event that may start a run only when the run of
the one before has been shown to be there, by a count, by there being a run at all,
or by there being a new one, and validates by name or count the run of the last
such event (`RaisedOneByOne` of PacProject, which reads what an event may start off
the annotations the script gives its files). The specs of HubEnvironment are those of the source,
so it assumes its bounds and starting clusters only. TLC evaluates each
assumption in the runs.

- `NamespaceManagerProofs`: `TypeCorrect`, `FailuresPreserved`,
  `LastFailureSurvives`, `NothingLeaked`, `BodiesHaveLiveNamespace`,
  `OrderedSpecsShare`, `MissingProjectsAreReported`. None is inductive alone: that
  a failed namespace is not deleted depends on the flag beside it agreeing with
  the history, which depends on names being registered once, which depends on
  where the abandoned hook can be. The invariant has layers. `ControlInv`: types;
  the hook holds the mutex while it runs, and outlives its node only until
  AfterEach of a failed spec has got the mutex. `SafetyInv`: names are drawn once
  and filed under one path; the flag of a filed name is up exactly if a spec
  failed in it; nothing filed has been deleted before AfterSuite; everything made
  is filed, deleted or failed. `SharingInv`: an Ordered container that has not
  been left keeps its namespace under the path of first attempts, and a retry
  comes after a failure there. `ReportedInv`: what is filed was made, or a spec
  has failed in it, or its BeforeEach is still under way.
- `OlmProofs`, of OperatorBootstrap: `BootstrapTypeCorrect`,
  `NoSecondOperatorEver`, `RacesNeverFail`, `ReadyAreInstalled`,
  `WaitingCallersAreServed`, and the action property `SubscriptionsReused`. The key
  is `StageInv`: while a caller is between its List and its Create, the only
  subscription of its package that can have appeared is the one it would make
  itself, since every bootstrap derives the same name; the same holds of the
  OperatorGroup. `ProgressInv` and `CallPhaseInv` record what a caller has behind
  it.
- `OlmProofs`, of OperatorUpgrade: `TypeCorrect`, `FreshInstallsAreCurrent`,
  `UninstallsAreComplete`, `DiffsCompareSavedRanges`, `ChecksAlwaysAgree`.
  `CallInv` says which spec a call belongs to; `FreshInv` that a Subscription a
  waiting install has made names nothing its channel has not offered;
  `CalmInv` that a cluster OLM had settled stays so during an uninstall;
  `FileInv` that a whole file holds the ranges of the last successful saves.
- `HubEnvironmentProofs`: `TypeCorrect`, `OneErrorCostsOneObject`,
  `NilMeansAllDeleted`, `SnapshotIsRestored`. `ControlInv`:
  the call under way is one of the script that runs. `UidInv`: an object of the
  run has the uid recorded for it, and none is recorded before its turn.
  `SeenInv`: what deleteOwned's Get has returned is forgotten with its turn.
  `PassedInv`: of the objects that have had their turn, no more are
  left than calls have failed; as each has its turn, this counts all of them at
  the end. `SnapshotInv` and `RestoreInv`: the snapshot is of the cluster as
  found, and what the restore has passed is back.
- `PacProjectProofs`: `TypeCorrect`, `FailedSetupsUndone`, `CleanupsComplete`,
  `EventsReachControllers`, `CommittedAreOurs`, `CheckedRunsAreMeant`, for any
  scripts. `StackInv`: the
  position tells which deferred calls are left and whether the setup has
  succeeded. `SetupInv`: what each call of the setup has left behind, up to the
  call under way. `UndoInv`: until GitHub's setup has succeeded, what it has made
  is recorded as to be undone, and what has been undone is gone or was refused.
  `CleanInv`: the same of the cleanup. `FilesInv`: what is in the temporary files,
  on the branch and on main is of this project, or a file that could not be
  removed. `PickInv` and `MadeInv` are what the
  types need: a spec that validates a run has picked one, and no container makes
  more projects than its share of forks. The last theorem needs a second layer,
  which speaks of a script whose specs have all passed so far: each annotation on
  the disk, the branch and main is one the script has given (`NoteInv`), so an event
  starts a run only if the script was to start one by it; the runs there are all
  that are due, the last one last, or all but that one (`RunsInv`), whose event is
  then the only one on the wire that may start a run (`WireInv`); after a spec that
  shows that all are there, they are (`ShownInv`, which needs `LastInv`, the run a
  GitHub container has seen last, and `PickedInv`, the run under validation). That
  creation times are in seconds does no harm: each event that starts a run comes
  after a spec that has validated the run before to its end, so no two runs that
  both count as latest are of one second (`EndedInv`); a script that raised events
  without validating in between would not satisfy the assumption.
- `KueueEnvironmentProofs`: `TypeCorrect`, `NothingEverForgotten`, `BarrierHolds`,
  `CleanRestores`, `OneErrorIsSurvived`. The stack holds one
  cleanup for each mutation begun, that of the mutation under way on top
  (`StackInv`); the test's objects are those of mutations begun (`ObjInv`); the
  cleanup of a Kueue that was there names every path the test has put its
  framework into (`KueueInv`); what Cleanup knows of its top entry between two calls
  (`TopInv`); an awaited object, and the Workload once its name is known, keeps its
  entry until it is gone, outside Cleanup too (`AwaitedInv`). The last two theorems
  speak of clusters nobody else touches and need a second layer: there each entry
  on the stack finds what its mutation left, so that no check of Cleanup refuses,
  what is waited for is gone or going, the settings are those found or those
  written, and a Cleanup has failed only after a failed call (`AloneInv`); only
  mutations of the plan have written, and a Cleanup that returned nil has emptied
  the stack (`DoneInv`).
- `PipelinesProofs`, of RunValidation: `TypeCorrect`, `PassesAreDeserved`,
  `PassesLeaveNoGoroutine`. `PhaseInv`: where the validation is tells what it
  expects; `CountInv`: results sent and goroutines still waiting add up to the
  TaskRuns listed; `JoinInv`: while it joins its goroutines the PipelineRun has
  ended as expected, and so has each TaskRun whose goroutine is done.
- `PipelinesProofs`, of RunWatch: `WatchTypeCorrect`, `NoFalseAlarms`,
  `NothingFallsBetween`, from `WatchCountInv`: a watch has counted the distance
  from its start to the last event it delivered.
- `ClusterSettingsProofs`: `TypeCorrect`, `SettingsRestored`, `ChecksStand`, and
  the safety half of the refinement, `PrunerGuarded` and `ProfileGuarded`: the
  initial states map to initial states of SettingsGuard and each step to a step or
  a stutter. `ReadInv`: a reading that has been passed has been made;
  `AfterInv`: what the cleanup has restored, and that the guarded settings it
  restores were read; `ValueInv`: a setting neither read nor restored is as it was
  found, one that has been restored as it was read, and one without a value read
  goes back to its default. `ChecksStand` rests on
  `TrackInv`, about the parts with a check that is to stand (`Needed`). When every
  change so far has been followed by a check (`Quiet`), the operator has noticed
  the setting and the part shows nothing else; so between a change and its being
  noticed the part shows the old value only, and no check for the new one can
  pass. Without the assumption that earlier changes were checked this is false:
  the operator may be two changes behind, which is why specs that change a setting
  twice are excepted (TC04).
- `ApprovalGateProofs`: `TypeCorrect`, `CredentialsAlwaysFit`, `GroupsStayApart`,
  `NoCredentialsStay`, `FailuresStayInCase`. `OldInv`: what EnsureGroupMembers read still holds when it
  patches, but for excepted users; `LoginInv`: a cached login names exactly the
  groups of this test case that have its user, unless the user is marked,
  excepted or logging in; `NamesInv`: groups of later test cases do not exist and
  no login names one, which is what makes `LoginInv` survive the next test case.
  `CalmInv`: in a test case in which no command has failed, this holds of every
  user, also of those excepted in an earlier one: their login names groups of the
  earlier namespace only, and the first membership they get here marks them.
  `RunInv`, for `FailuresStayInCase`: in such a test case the task and the members
  of its groups are on the course and the specs so far have all passed
  (`CourseInv`). Cached credentials agree with the groups (`CalmInv`), so the
  approval gate answers as it would to true ones (`TrueCredentials`); the
  kubeconfigs they are read from are on disk (`OnDisk`), and the approvers of a task
  are users and groups of this test case (`ApproversInv`).
Properties that no run lists because the proof covers them: the type
invariants of these modules, `SharedUntilFailure`, `ReadyMeansInstalled`,
`ReusedUnchanged`, `NoFalseAlarm`, `ChecksAgree`, `GroupsApart`,
`NoCredentialsLeft`.

Only model-checked: the liveness properties, that of `SettingsKept` included, which
are outside the prover's reach.

## Findings

Each is the counterexample of a run that states what a comment or message of the
code promises.

| Run | What the code does |
|---|---|
| `run_crash` | `Fail` in a goroutine without `GinkgoRecover`, or a send on the channel closed by an earlier `Fail`, ends the test process instead of failing the spec (`pipelines.go:78-112`; the message at `pipelines.go:110`, and `ecosystem.go:167`, which does defer `GinkgoRecover`). |
| `upgrade_stale` | "updates a subscription channel and waits until the operator is ready" (`subscription.go:53`): the wait takes any `status.installedCSV`, and right after the update that is still the old CSV, long Succeeded. The upgrade spec passes before OLM has begun (`subscription.go:59`). |
| `watch_ended` | "asserts that no new PipelineRuns are created in the namespace within a 1-minute observation window" (`pipelines.go:242-243`): when the API server ends the watch the counting goroutine ends with it, the minute goes on, and what is created in the rest of it is not counted (`pipelines.go:256`). |
| `skip_patches` | "lower bound unchanged, upper bound increased by one patch" (`olm_skiprange.go:106-108`) and "only the channel matching OSP_VERSION had its skipRange upper bound incremented" (`olm_skiprange.go:292-293`): the code compares the last numbers with `>` (`olm_skiprange.go:142`), so that an upper bound that goes from 1.2.0 to 1.2.3 passes. |

## Known limits

Behaviour of the code that the models show, or that was met while modelling, and
that no property forbids.

Hooks, Kueue, hub and pipelines:
- After a retry the later specs of an Ordered container get another namespace
  (`SharedUntilFailure` says when they share one).
- A spec that fails in a DeferCleanup callback is not marked, as AfterEach has run
  already: its namespace is deleted, although `hooks.go:72` says "unless tests
  failed" (`hooks.go:178`).
- The path is filed before `oc new-project`. When that fails, later specs of the
  container run in a namespace that was never made (`hooks.go:148`); at least the
  spec that met the failure is reported (`MissingProjectReported`).
- A spec that opted out also inherits the scope of the clients (`hooks.go:172`).
- A spec that opted out of the hooks sees the `testNS` of an earlier container,
  possibly deleted (`hooks.go:126`).
- A scheduler setting changed between enableScheduler's first Get and its Update
  is overwritten, and Cleanup restores the older value (`environment.go:321-345`).
  `CleanMeansRestored` therefore speaks of clusters nobody else touched.
- A scheduler field changed by somebody else is an error in both Cleanups of
  KueueEnvironment, so everything set up before the scheduler stays
  (`environment.go:341`).
- Delete carries no uid precondition: an object that takes the place of the one
  just checked is deleted (`environment.go:180`, `multicluster.go:576`), although
  `multicluster.go:105` says that "cleanup never removes foreign ones". That the
  check itself refuses foreign objects is plain from the code and not stated as a
  property.
- The cleanup of a PipelineRun awaits its Workload only if `waitForHubWorkload` has
  learned the name (`workload.go:124`, `workload.go:308-322`). If that has failed,
  the Workload may outlive the cleanup, and the scheduler is restored under it,
  which the error text of `workload.go:327` ("execution objects were not deleted
  before scheduler restoration") is there to report. `Barrier` speaks of a Workload
  whose name is known.
- Both Cleanups of the workload test share one context of 20 minutes
  (`workload_test.go:53`): when the first uses it up, each call of the second fails.
  The model gives each call its own timeout.
- An administrator who subscribes a package elsewhere between the List and the
  Create ends up with two subscriptions (`cluster_bootstrap.go:126`).
- `EnsureOperators` does not wait for APIs, and the Kueue workload spec calls one
  at once (`workload_test.go:46`); `WaitingCallersServed` speaks of callers that
  pass a discovery client.
- Every Update of TektonConfig by the typed client drops `spec.networkPolicy`.
  HubEnvironment's Cleanup depends on it: the merge that follows would otherwise
  keep what the specs added (`SnapshotRestored` fails when the client keeps the
  field). Where networkPolicy was absent and admission stores no default, the
  removal that follows has nothing to remove, and Cleanup always reports an error
  and leaves the approval gate alone. KueueEnvironment's Update
  (`environment.go:355`) drops the field too, and nothing restores it there.
- Setup reads the scheduler and then networkPolicy. If the second read fails,
  Cleanup takes the missing value for "there was none" and removes the
  administrator's `spec.networkPolicy` (`multicluster.go:287`); `SnapshotRestored`
  speaks of a completed snapshot.
- TC05 leaves `{disabled: false}`; TC06 saves that, adds its policy and restores by
  a merge, which keeps the entry. The operator creates the NetworkPolicy again, and
  Cleanup drops the entry but not the object (`multicluster.go:331`).
- A scheduler changed by somebody else during the test is overwritten with the
  snapshot (`multicluster.go:350`).
- A Kueue whose Create lost its answer is not known to be the run's own and stays
  (`multicluster.go:411-416`).
- A failing `oc get manualapprovalgate` is taken for a missing gate, whose flag is
  then not restored (`multicluster.go:292-296`).
- When Setup fails before its snapshot, Cleanup fails too (`multicluster.go:343`).
- The failure message of the timeout validation names the TaskRun at the position
  of the result, not the one that failed (`pipelines.go:89`).
- `WatchForPipelineRun` "watches for new PipelineRun creation" (`pipelines.go:216`)
  but opens its watch without a resourceVersion and counts runs that existed before,
  which the comment at `pipelines.go:245-246` describes for the other watch. Its one
  caller ignores the count (`cron_test.go:31`). `NoGap` is about the assertion.
- A poll that misses a short-lived state reports a failure that is not deserved
  (`wait.go:43`).

Pipelines as code:
- `GetPushPipelineNameFromMain` waits by a pause, so it may validate the
  pull_request run as the push run; `CheckedRunIsMeant` speaks of steps that wait
  by name or by count.
- On GitLab a fork is left behind when the setup fails after it, or when the reply
  to it was lost; on GitHub when `Users.Get` fails, as the owner is then unknown.
- `CleanupPAC` returns early when the project cannot be deleted and leaves the
  relay; `CleanupPACGitHub` deletes the webhook Secret even if it existed before.
- A relay deployment or (GitLab) Secret of somebody else is left as it is, so events
  may not reach the controller; a relay that never starts is only logged.
- `checkPipelineStatus` polls without a limit.
- The cleanups ignore the error of `os.Remove` (`pac.go:801`, `pac-github.go:549`): a
  file that stays is committed by the next container unless this generates its own.
  `CommittedIsOurs` excepts such a file.
- A setup call that was carried out but answered with an error leaves what it made:
  the deferred function of the GitHub setup does not know of it (`lost`).

Manual approval gate:
- The mark of a cached kubeconfig is cleared before the login; when that fails,
  nothing marks the user again (`manualapprovalgate.go:679`). `CredentialsFit`
  excepts such users for the rest of the test case.
- A failed assertion inside the `sync.Once` of the API server leaves it done and
  empty for the rest of the process; a failing topology check counts as "not
  hosted" for good. `FailureStaysInCase` excepts both.
- `DeleteGroup` marks nobody, which is harmless: no later test case uses the name.
- A failed login or impersonation leaves an empty temporary file.

Settings:
- `AssertTLSHandshake` takes any failure of the run without a certificate for a
  rejection, and never deletes the copied `metrics-client-certs` Secret; the nginx
  check for an exclusive protocol only looks for its presence.
- Waits may pass on a Ready from before the change. In TC04 the last check may pass
  while the operator still applies the disabling.
- A custom TLS profile is restored as the cluster's default, also when it was
  stricter; `RestoredUnlessReported` allows that and no other profile. The doc of
  `PatchClusterTLSProfile` says that any value but Modern and Intermediate resets the
  profile (`tlsprofile.go:41-43`); in fact Old is written back too.
- A failing `oc get` of a setting is taken for "not set", and false is written in
  the end. `RestoredUnlessReported` allows such a setting to end at its default.
- The first failing Expect of AfterAll leaves the pruner changed (and is reported).
  The mTLS flag is read after a wait that may fail (`mtls_test.go:99`); AfterAll
  then writes false for a value that was never read (the comment at
  `mtls_test.go:104` says otherwise), the third exception of
  `RestoredUnlessReported`.

Operator upgrades:
- `OperatorCleanup` "deletes All related CSVs, subscription & installplan from
  cluster" (`subscription.go:127`). It deletes all CSVs of `openshift-operators`,
  those of other operators too, and no InstallPlan: those are orphaned by the
  deletion of their Subscription, for Kubernetes to collect (`CollectGarbage`), so
  that the function may return while they are still there. `UninstallComplete`
  therefore claims only that none keeps its owner.
- An uninstall while OLM is still at work may leave a CSV (`UninstallComplete`
  therefore asks for a settled cluster); one interrupted after the CSVs are deleted
  leaves a Subscription that names a missing CSV, on which the next install fails.
- A save that fails after the truncation leaves a broken file that each later save
  and diff refuses. If the save before the upgrade never succeeded, the diff
  compares with nothing and passes.
- `isValidOspVersionPatchUpdate` accepts any larger patch (`skip_patches`) and does
  not look at the upper bound's major and minor, so that 1.3.0 may become 1.2.1;
  `ValidateChannelSkipRangeBounds` looks at the lower bound's major only, where the
  doc says "preceding minor version". 1.2 also matches channel 1.20, so that a change
  of that channel may be taken for one of OSP_VERSION. `SavedRangesCompared` says
  which files are compared, by the code's own notion of the channel.
- A CSV that is not found while an upgrade replaces it ends the wait with an error.

## Not modelled

- TLS scanner: one Job created, awaited and deleted; the substance is parsing of
  the tool's output. The opc wrapper, triggers, monitoring queries and most of
  `pkg/operator` and `pkg/oc` run one command or make one call and check its
  result.
- The sampling of the spokes and the log capture of the Kueue workload, which
  only read the clusters; the creation of the approval test users (an htpasswd
  provider set up once), the override of the login mode by
  `MAG_USE_IMPERSONATION` and the checks of messages.
- The counting assertions, cluster task and ecosystem helpers of `pkg/pipelines`;
  `WaitForNewPipelineRunNameByEventType`; the wait conditions for deployments,
  pods and services, which have the form of those modelled.
- The skipping of the upgrade spec when `UPGRADE_CHANNEL` is not set, and the other
  specs of the upgrade suites, which change nothing the modelled ones read.
- The store (a map behind a mutex; its namespace is `testNS`), clients (their
  re-scoping is `clientNS`), flags, command runner, diagnostics, test case
  registry, OpenShift and StatefulSet helpers: construction, single calls, no
  state of their own.
