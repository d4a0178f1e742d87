----------------------- MODULE NamespaceManagerProofs -----------------------
(***************************************************************************)
(* The safety properties of NamespaceManager for any set of containers and *)
(* any number of specs and attempts.  They share one inductive invariant:  *)
(* the maps name each namespace at most once, a namespace in the map has   *)
(* its failures recorded beside it, and it has not been deleted.           *)
(***************************************************************************)
EXTENDS NamespaceManager, TLAPS

\* Where the goroutine of the hook can be, given where Ginkgo is.
HookInv ==
  /\ hook # "none" => mu = "beforeEach"
  /\ phase \notin {"before", "after"} => hook = "none"
  /\ phase = "after" /\ ~spec.failed => hook = "none"
  /\ spec.path = NoPath =>
       ~spec.failed /\ hook = "none" /\ phase \in {"idle", "suite", "done"}

\* From Lookup on, the path is registered.
TargetInv == hook \in {"create", "waitSA", "export"} => containerToNS[spec.path] \in NS

\* Names are drawn once and registered for one path.
NamesInv ==
  /\ \A p \in Paths : containerToNS[p] < nextNS
  /\ \A n \in deleteCalled \cup failedIn : n < nextNS
  /\ \A p, q \in Paths :
       containerToNS[p] = containerToNS[q] /\ containerToNS[p] # NoNS => p = q

\* The flag of a registered namespace is up exactly when a spec failed in it.
FlagInv ==
  \A p \in Paths : containerToNS[p] # NoNS =>
    (containerFailed[p] <=> containerToNS[p] \in failedIn)

\* Until AfterSuite has run, nothing registered has been deleted.
RegisteredInv ==
  phase # "done" => \A p \in Paths : containerToNS[p] \notin deleteCalled

\* A failed spec that AfterEach has treated left its mark.
MarkedInv ==
  phase \in {"cleanup", "idle", "suite", "done"} /\ spec.failed =>
    containerToNS[spec.path] \in failedIn \cup lateFailedIn \cup {NoNS}

\* A project that was made is accounted for.
AccountedInv ==
  \A n \in everCreated :
    \/ n \in deleteCalled \cup failedIn
    \/ phase # "done" /\ \E p \in Paths : containerToNS[p] = n

BodyInv == ManagedBody => testNS = containerToNS[spec.path]


\* Types and control: what the other invariants are proved on top of.
ControlInv == TypeOK /\ HookInv /\ TargetInv

\* Every step keeps the types and the agreement of hook, mutex and phase.
LEMMA NextPreservesControl == ControlInv /\ [Next]_vars => ControlInv'
<1> SUFFICES ASSUME ControlInv, [Next]_vars PROVE ControlInv'
  OBVIOUS
<1> USE ContainersAssumption, BoundsAssumption
<1> USE DEF ControlInv, TypeOK, ManagerOK, GinkgoOK, HookInv, TargetInv, Paths, NS, NoNS,
            Phases, Hooks, manager, scope, cluster, ginkgo, history
<1>1. ASSUME NEW c \in Containers, StartSpec(c) PROVE ControlInv'
  BY <1>1 DEF StartSpec, EnterBeforeEach, NoPath, ScopeOK, ClusterOK, HistoryOK
<1>2. CASE RetrySpec
  BY <1>2 DEF RetrySpec, EnterBeforeEach, NoPath, ScopeOK, ClusterOK, HistoryOK
<1>3. CASE SwitchContainer
  <2>1. CASE LeavesPath
    <3>1. lastContainerPath \in Paths /\ containerToNS[lastContainerPath] \in NS
      BY <2>1 DEF LeavesPath
    <3>2. ManagerOK'
      <4>1. ForgetPath /\ UNCHANGED <<mu, lastContainerPath>>
        BY <1>3, <2>1 DEF SwitchContainer
      <4>2. containerToNS' \in [Paths -> Nat] /\ containerFailed' \in [Paths -> BOOLEAN]
        BY <4>1 DEF ForgetPath
      <4> QED BY <4>1, <4>2
    <3>3. ClusterOK' /\ HistoryOK'
      BY <1>3, <2>1, <3>1 DEF SwitchContainer, DeleteProjectIgnoreErrors, DeletedOnLeaving,
         ClusterOK, HistoryOK
    <3>4. ScopeOK' /\ GinkgoOK' /\ HookInv' /\ TargetInv'
      BY <1>3 DEF SwitchContainer, ScopeOK
    <3> QED BY <3>2, <3>3, <3>4
  <2>2. CASE ~LeavesPath
    BY <1>3, <2>2 DEF SwitchContainer, ScopeOK, ClusterOK, HistoryOK
  <2> QED BY <2>1, <2>2
<1>4. CASE LookupOptOut
  BY <1>4 DEF LookupOptOut, HookReturns, ScopeOK, ClusterOK, HistoryOK
<1>5. CASE Lookup
  <2>1. spec.path \in Paths /\ nextNS \in NS
    BY <1>5 DEF Lookup, ClusterOK
  <2>2. ManagerOK'
    <3>1. CASE NeedsNamespace
      <4>1. containerToNS' = [containerToNS EXCEPT ![spec.path] = nextNS]
        BY <1>5, <3>1 DEF Lookup
      <4>2. /\ containerFailed' = [containerFailed EXCEPT ![spec.path] = FALSE]
            /\ UNCHANGED <<mu, lastContainerPath>>
        BY <1>5, <3>1 DEF Lookup
      <4> QED BY <2>1, <4>1, <4>2
    <3>2. CASE ~NeedsNamespace
      BY <1>5, <3>2 DEF Lookup
    <3> QED BY <3>1, <3>2
  <2>4. TargetInv'
    BY <1>5, <2>1 DEF Lookup, NeedsNamespace
  <2>3. ScopeOK' /\ ClusterOK' /\ GinkgoOK' /\ HistoryOK' /\ HookInv'
    BY <1>5 DEF Lookup, ScopeOK, ClusterOK, HistoryOK
  <2> QED BY <2>2, <2>3, <2>4
<1>6. CASE CreateNewProject
  BY <1>6 DEF CreateNewProject, ScopeOK, ClusterOK, HistoryOK
<1>7. CASE CreateNewProjectFails
  BY <1>7 DEF CreateNewProjectFails, HookReturns, ScopeOK, ClusterOK, HistoryOK
<1>8. CASE WaitForPipelineServiceAccount
  BY <1>8 DEF WaitForPipelineServiceAccount, ScopeOK, ClusterOK, HistoryOK
<1>9. CASE ExportNamespace
  BY <1>9 DEF ExportNamespace, HookReturns, ScopeOK, ClusterOK, HistoryOK
<1>10. CASE BodyRescopesClients
  BY <1>10 DEF BodyRescopesClients, ScopeOK, ClusterOK, HistoryOK
<1>11. CASE BodyEnds
  BY <1>11 DEF BodyEnds, ScopeOK, ClusterOK, HistoryOK
<1>12. CASE Interrupt
  BY <1>12 DEF Interrupt, ScopeOK, ClusterOK, HistoryOK
<1>13. CASE AfterEach
  <2>1. spec.path \in Paths /\ containerToNS[spec.path] \in Nat
    BY <1>13 DEF AfterEach
  <2>2. HistoryOK'
    BY <1>13, <2>1 DEF AfterEach, HistoryOK
  <2>3. ManagerOK' /\ ScopeOK' /\ ClusterOK' /\ GinkgoOK' /\ HookInv' /\ TargetInv'
    BY <1>13, <2>1 DEF AfterEach, AfterEachLocks, ScopeOK, ClusterOK
  <2> QED BY <2>2, <2>3
<1>14. CASE DeferredCleanup
  <2>1. HistoryOK'
    <3>1. spec.path \in Paths /\ containerToNS[spec.path] \in Nat
      BY <1>14 DEF DeferredCleanup
    <3> QED BY <1>14, <3>1 DEF DeferredCleanup, HistoryOK
  <2>2. GinkgoOK' /\ HookInv' /\ TargetInv'
    BY <1>14 DEF DeferredCleanup
  <2>3. ManagerOK' /\ ScopeOK' /\ ClusterOK'
    BY <1>14 DEF DeferredCleanup, ScopeOK, ClusterOK
  <2> QED BY <2>1, <2>2, <2>3
<1>15. CASE EndSpecs
  BY <1>15 DEF EndSpecs, ScopeOK, ClusterOK, HistoryOK
<1>16. CASE CleanupNamespaces
  <2>1. \A p \in Remaining : containerToNS[p] \in NS
    BY DEF Remaining
  <2>2. HistoryOK' /\ ClusterOK'
    BY <1>16, <2>1 DEF CleanupNamespaces, DeleteProjectIgnoreErrors, HistoryOK, ClusterOK
  <2>3. ManagerOK' /\ ScopeOK' /\ GinkgoOK' /\ HookInv' /\ TargetInv'
    BY <1>16 DEF CleanupNamespaces, ScopeOK
  <2> QED BY <2>2, <2>3
<1>17. CASE UNCHANGED vars
 BY <1>17 DEF vars, ScopeOK, ClusterOK, HistoryOK
<1> QED BY <1>1, <1>2, <1>3, <1>4, <1>5, <1>6, <1>7, <1>8, <1>9, <1>10, <1>11, <1>12,
   <1>13, <1>14, <1>15, <1>16, <1>17 DEF Next, BeforeEachHook, Suite, Terminated

\* The inductive invariant proper.
SafetyInv ==
  /\ NamesInv
  /\ FlagInv
  /\ RegisteredInv
  /\ MarkedInv
  /\ AccountedInv
  /\ BodyInv
  /\ FailedNamespacePreserved

\* Every step keeps the maps, the failure records and the deletions consistent.
LEMMA NextPreservesSafety == ControlInv /\ SafetyInv /\ [Next]_vars => SafetyInv'
<1> SUFFICES ASSUME ControlInv, SafetyInv, [Next]_vars PROVE SafetyInv'
  OBVIOUS
<1> USE ContainersAssumption, BoundsAssumption
<1> USE DEF ControlInv, TypeOK, ManagerOK, GinkgoOK, HookInv, NoNS
<1> USE DEF SafetyInv, NamesInv, FlagInv, RegisteredInv, MarkedInv, AccountedInv, BodyInv,
            ManagedBody, FailedNamespacePreserved
<1>1. ASSUME NEW c \in Containers, StartSpec(c) PROVE SafetyInv'
  BY <1>1 DEF StartSpec, EnterBeforeEach, NoPath, manager, scope, cluster, ginkgo, history
<1>2. CASE RetrySpec
  BY <1>2 DEF RetrySpec, EnterBeforeEach, NoPath, manager, scope, cluster, ginkgo, history
<1>3. CASE SwitchContainer
  <2>1. CASE LeavesPath
    <3> DEFINE left == containerToNS[lastContainerPath]
    <3>1. lastContainerPath \in Paths /\ left \in NS
      BY <2>1 DEF LeavesPath, NS
    <3>2. /\ containerToNS' = [containerToNS EXCEPT ![lastContainerPath] = NoNS]
          /\ containerFailed' = [containerFailed EXCEPT ![lastContainerPath] = FALSE]
      BY <1>3, <2>1 DEF SwitchContainer, ForgetPath
    <3>3. \/ deleteCalled' = deleteCalled /\ containerFailed[lastContainerPath]
          \/ deleteCalled' = deleteCalled \cup {left} /\ ~containerFailed[lastContainerPath]
      <4>1. deleteCalled' = deleteCalled \cup DeletedOnLeaving
        BY <1>3, <2>1 DEF SwitchContainer, DeleteProjectIgnoreErrors
      <4>2. CASE containerFailed[lastContainerPath]
        BY <4>1, <4>2 DEF DeletedOnLeaving
      <4>3. CASE ~containerFailed[lastContainerPath]
        BY <4>1, <4>3 DEF DeletedOnLeaving
      <4> QED BY <4>2, <4>3
    <3>4. /\ UNCHANGED <<nextNS, phase, spec, testNS, failedIn, lateFailedIn, everCreated>>
          /\ phase \in {"before", "after"}
      BY <1>3 DEF SwitchContainer, scope
    <3>5. 0 \notin deleteCalled /\ 0 \notin failedIn
      BY DEF HistoryOK, NS
    <3>6. NamesInv'
      BY <3>1, <3>2, <3>3, <3>4 DEF NS, ClusterOK
    <3>7. FlagInv'
      BY <3>1, <3>2, <3>4
    <3>8. RegisteredInv' /\ FailedNamespacePreserved'
      BY <3>1, <3>2, <3>3, <3>4, <3>5 DEF NS
    <3>9. AccountedInv'
      BY <3>1, <3>2, <3>3, <3>4 DEF NS
    <3>10. MarkedInv' /\ BodyInv'
      BY <3>4
    <3> QED BY <3>6, <3>7, <3>8, <3>9, <3>10
  <2>2. CASE ~LeavesPath
    BY <1>3, <2>2 DEF SwitchContainer, scope
  <2> QED BY <2>1, <2>2
<1>4. CASE LookupOptOut
  <2>1. BodyInv'
    BY <1>4 DEF LookupOptOut, HookReturns
  <2>2. NamesInv' /\ FlagInv' /\ RegisteredInv' /\ MarkedInv' /\ AccountedInv' /\ FailedNamespacePreserved'
    BY <1>4 DEF LookupOptOut, HookReturns, cluster, history
  <2> QED BY <2>1, <2>2
<1>5. CASE Lookup
  <2>1. spec.path \in Paths /\ nextNS \in NS /\ phase \in {"before", "after"}
    BY <1>5 DEF Lookup, ClusterOK
  <2>2. /\ UNCHANGED <<phase, spec, testNS, deleteCalled, failedIn, lateFailedIn, everCreated>>
    BY <1>5 DEF Lookup, scope, history
  <2>3. CASE NeedsNamespace
    <3>1. /\ containerToNS' = [containerToNS EXCEPT ![spec.path] = nextNS]
          /\ containerFailed' = [containerFailed EXCEPT ![spec.path] = FALSE]
          /\ nextNS' = nextNS + 1
          /\ containerToNS[spec.path] = 0
      BY <1>5, <2>3 DEF Lookup, NeedsNamespace
    <3>2. nextNS \notin deleteCalled \cup failedIn
      BY <2>1 DEF NS
    <3>3. NamesInv'
      BY <2>1, <2>2, <3>1 DEF NS, HistoryOK
    <3>4. FlagInv' /\ RegisteredInv' /\ FailedNamespacePreserved'
      BY <2>1, <2>2, <3>1, <3>2 DEF NS
    <3>5. AccountedInv'
      BY <2>1, <2>2, <3>1 DEF NS, HistoryOK
    <3>6. MarkedInv' /\ BodyInv'
      BY <2>1, <2>2
    <3> QED BY <3>3, <3>4, <3>5, <3>6
  <2>4. CASE ~NeedsNamespace
    BY <1>5, <2>2, <2>4 DEF Lookup
  <2> QED BY <2>3, <2>4
<1>6. CASE CreateNewProject
  BY <1>6 DEF CreateNewProject, manager, scope, cluster, ginkgo, history
<1>7. CASE CreateNewProjectFails
  BY <1>7 DEF CreateNewProjectFails, HookReturns, manager, scope, cluster,
     ginkgo, history
<1>8. CASE WaitForPipelineServiceAccount
  BY <1>8 DEF WaitForPipelineServiceAccount, manager, scope, cluster, ginkgo, history
<1>9. CASE ExportNamespace
  BY <1>9 DEF ExportNamespace, HookReturns, manager, scope, cluster, ginkgo, history
<1>10. CASE BodyRescopesClients
  BY <1>10 DEF BodyRescopesClients, manager, scope, cluster, ginkgo, history
<1>11. CASE BodyEnds
  BY <1>11 DEF BodyEnds, manager, scope, cluster, ginkgo, history
<1>12. CASE Interrupt
  BY <1>12 DEF Interrupt, manager, scope, cluster, ginkgo, history
<1>13. CASE AfterEach
  <2>1. /\ spec.path \in Paths
        /\ phase = "after" /\ phase' = "cleanup"
        /\ UNCHANGED <<containerToNS, nextNS, spec, testNS, deleteCalled, lateFailedIn, everCreated>>
    BY <1>13 DEF AfterEach, scope, cluster
  <2>2. CASE spec.failed
    <3>1. containerFailed' = [containerFailed EXCEPT ![spec.path] = TRUE]
      BY <1>13, <2>2 DEF AfterEach
    <3>2. \/ failedIn' = failedIn /\ containerToNS[spec.path] = 0
          \/ failedIn' = failedIn \cup {containerToNS[spec.path]} /\ containerToNS[spec.path] # 0
      BY <1>13, <2>2 DEF AfterEach
    <3>3. NamesInv' /\ RegisteredInv' /\ FailedNamespacePreserved'
      BY <2>1, <3>2
    <3>4. FlagInv'
      BY <2>1, <3>1, <3>2
    <3>5. MarkedInv' /\ BodyInv'
      BY <2>1, <3>2
    <3>6. AccountedInv'
      BY <2>1, <3>2
    <3> QED BY <3>3, <3>4, <3>5, <3>6
  <2>3. CASE ~spec.failed
    BY <1>13, <2>1, <2>3 DEF AfterEach
  <2> QED BY <2>2, <2>3
<1>14. CASE DeferredCleanup
  BY <1>14 DEF DeferredCleanup, manager, scope, cluster, ginkgo, history
<1>15. CASE EndSpecs
  BY <1>15 DEF EndSpecs, manager, scope, cluster, ginkgo, history
<1>16. CASE CleanupNamespaces
  <2> DEFINE doomed == {containerToNS[p] : p \in {q \in Remaining : ~containerFailed[q]}}
  <2>1. /\ phase = "suite" /\ phase' = "done"
        /\ deleteCalled' = deleteCalled \cup doomed
        /\ UNCHANGED <<containerToNS, containerFailed, nextNS, spec, testNS, failedIn, lateFailedIn, everCreated>>
    BY <1>16 DEF CleanupNamespaces, DeleteProjectIgnoreErrors, manager, scope
  <2>2. \A n \in doomed : n < nextNS /\ n \notin failedIn
    BY DEF Remaining
  <2>3. \A p \in Paths : containerToNS[p] \in doomed \cup failedIn \cup {0}
    BY DEF Remaining
  <2>4. 0 \notin everCreated
    BY DEF HistoryOK, NS
  <2> HIDE DEF doomed
  <2>5. NamesInv' /\ FlagInv' /\ RegisteredInv' /\ FailedNamespacePreserved'
    BY <2>1, <2>2
  <2>6. AccountedInv'
    BY <2>1, <2>3, <2>4
  <2>7. MarkedInv' /\ BodyInv'
    BY <2>1
  <2> QED BY <2>5, <2>6, <2>7
<1>17. CASE UNCHANGED vars
  BY <1>17 DEF vars, manager, scope, cluster, ginkgo, history
<1> QED BY <1>1, <1>2, <1>3, <1>4, <1>5, <1>6, <1>7, <1>8, <1>9, <1>10, <1>11, <1>12,
   <1>13, <1>14, <1>15, <1>16, <1>17 DEF Next, BeforeEachHook, Suite, Terminated

-----------------------------------------------------------------------------
(* Sharing: an Ordered container that has not been left files its          *)
(* namespace under the path of first attempts, until a spec fails.         *)

Failing == failedIn \cup lateFailedIn
FirstNS(c) == containerToNS[<<c, 1>>]

\* The current container has not been left; the one of the last completed
\* BeforeEach is the current one or, if Ordered, has been left.
OrderInv ==
  /\ spec.path = NoPath => lastContainerPath = NoPath
  /\ spec.path # NoPath => spec.path[1] \notin finished
  /\ lastContainerPath # NoPath /\ lastContainerPath[1] \in Ordered =>
       lastContainerPath[1] \in {spec.path[1]} \cup finished

\* A retry comes after a failure in the namespace of the first attempts.
RetryInv ==
  spec.path # NoPath /\ spec.path[2] # 1 => FirstNS(spec.path[1]) \in Failing \cup {NoNS}

\* A namespace a first attempt ran in has seen a failure or is still in use.
BodyNSInv ==
  \A c \in Ordered \ finished : \A m \in bodyNS[c] : m \in Failing \cup {FirstNS(c)}

SharingInv == OrderInv /\ RetryInv /\ BodyNSInv /\ SharedUntilFailure

\* Steps that touch neither the maps nor the order of containers.
LEMMA QuietStep ==
  ASSUME ControlInv, SharingInv,
         UNCHANGED <<containerToNS, lastContainerPath, finished, bodyNS>>,
         spec'.path = spec.path, Failing \subseteq Failing'
  PROVE  SharingInv'
BY DEF SharingInv, OrderInv, RetryInv, BodyNSInv, SharedUntilFailure, Failing, FirstNS

\* Every step keeps the specs of an Ordered container in one namespace.
LEMMA NextPreservesSharing ==
  ControlInv /\ SafetyInv /\ SharingInv /\ [Next]_vars => SharingInv'
<1> SUFFICES ASSUME ControlInv, SafetyInv, SharingInv, [Next]_vars PROVE SharingInv'
  OBVIOUS
<1> USE ContainersAssumption, BoundsAssumption
<1>0. /\ containerToNS \in [Paths -> Nat]
      /\ lastContainerPath \in Paths \cup {NoPath}
      /\ spec \in [path : Paths \cup {NoPath}, failed : BOOLEAN]
      /\ bodyNS \in [Containers -> SUBSET NS]
      /\ hook # "none" => spec.path \in Paths
  BY DEF ControlInv, TypeOK, ManagerOK, GinkgoOK, HistoryOK, HookInv
<1>1. ASSUME NEW c \in Containers, StartSpec(c) PROVE SharingInv'
  <2>1. /\ UNCHANGED <<containerToNS, lastContainerPath, bodyNS, failedIn, lateFailedIn>>
        /\ spec'.path = <<c, 1>>
        /\ c \notin finished
        /\ finished' = IF spec.path # NoPath /\ spec.path[1] \in Ordered /\ spec.path[1] # c
                         THEN finished \cup {spec.path[1]} ELSE finished
    BY <1>1 DEF StartSpec, EnterBeforeEach, history
  <2>2. OrderInv'
    BY <1>0, <2>1 DEF SharingInv, OrderInv, NoPath, Paths
  <2>3. RetryInv' /\ BodyNSInv' /\ SharedUntilFailure'
    BY <2>1 DEF SharingInv, RetryInv, BodyNSInv, SharedUntilFailure, Failing, FirstNS
  <2> QED BY <2>2, <2>3 DEF SharingInv
<1>2. CASE RetrySpec
  <2>1. /\ UNCHANGED <<containerToNS, lastContainerPath, bodyNS, failedIn, lateFailedIn, finished>>
        /\ spec'.path = <<spec.path[1], spec.path[2] + 1>>
        /\ spec.failed /\ phase = "idle"
    BY <1>2 DEF RetrySpec, EnterBeforeEach, history
  <2>2. spec.path \in Paths
    BY <1>0, <2>1 DEF ControlInv, HookInv
  <2>3. OrderInv'
    BY <1>0, <2>1, <2>2 DEF SharingInv, OrderInv, NoPath, Paths
  <2>4. RetryInv'
    <3>1. CASE spec.path[2] = 1
      <4>1. spec.path = <<spec.path[1], 1>>
        BY <2>2, <3>1 DEF Paths
      <4>2. containerToNS[spec.path] \in Failing \cup {NoNS}
        BY <2>1 DEF SafetyInv, MarkedInv, Failing
      <4> QED BY <2>1, <4>1, <4>2 DEF RetryInv, Failing, FirstNS
    <3>2. CASE spec.path[2] # 1
      BY <2>1, <2>2, <3>2 DEF SharingInv, RetryInv, Failing, FirstNS, Paths, NoPath
    <3> QED BY <3>1, <3>2
  <2>5. BodyNSInv' /\ SharedUntilFailure'
    BY <2>1 DEF SharingInv, BodyNSInv, SharedUntilFailure, Failing, FirstNS
  <2> QED BY <2>3, <2>4, <2>5 DEF SharingInv
<1>3. CASE SwitchContainer
  <2>1. UNCHANGED <<lastContainerPath, spec, finished, bodyNS, failedIn, lateFailedIn>>
    BY <1>3 DEF SwitchContainer
  <2>2. CASE LeavesPath
    <3> DEFINE last == lastContainerPath
    <3>1. /\ last \in Paths /\ last # spec.path /\ spec.path \in Paths
          /\ containerToNS' = [containerToNS EXCEPT ![last] = NoNS]
      BY <1>0, <1>3, <2>2 DEF SwitchContainer, LeavesPath, ForgetPath
    <3>2. OrderInv' /\ SharedUntilFailure'
      BY <2>1 DEF SharingInv, OrderInv, SharedUntilFailure
    <3>3. RetryInv'
      BY <1>0, <2>1, <3>1 DEF SharingInv, RetryInv, Failing, FirstNS, NoNS, Paths
    <3>4. BodyNSInv'
      <4> SUFFICES ASSUME NEW c \in Ordered \ finished, NEW m \in bodyNS[c]
                   PROVE  m \in Failing \cup {FirstNS(c)'}
        BY <2>1 DEF BodyNSInv, Failing
      <4>1. m \in Failing \cup {FirstNS(c)} /\ m \in NS /\ <<c, 1>> \in Paths
        BY <1>0 DEF SharingInv, BodyNSInv, Paths
      <4>2. CASE last = <<c, 1>>
        <5>1. last[1] = c /\ last # NoPath
          BY <4>2 DEF NoPath
        <5>2. spec.path[1] = c
          BY <5>1 DEF SharingInv, OrderInv
        <5>3. spec.path[2] # 1 /\ spec.path # NoPath
          BY <3>1, <4>2, <5>2 DEF Paths, NoPath
        <5>4. FirstNS(c) \in Failing \cup {NoNS}
          BY <5>2, <5>3 DEF SharingInv, RetryInv
        <5> QED BY <4>1, <5>4 DEF NS, NoNS
      <4>3. CASE last # <<c, 1>>
        BY <1>0, <3>1, <4>1, <4>3 DEF FirstNS
      <4> QED BY <4>2, <4>3
    <3> QED BY <3>2, <3>3, <3>4 DEF SharingInv
  <2>3. CASE ~LeavesPath
    BY <1>3, <2>1, <2>3, QuietStep DEF SwitchContainer, Failing
  <2> QED BY <2>2, <2>3
<1>4. CASE LookupOptOut
  <2>1. /\ UNCHANGED <<containerToNS, finished, bodyNS, failedIn, lateFailedIn>>
        /\ spec'.path = spec.path /\ spec.path \in Paths
        /\ lastContainerPath' = spec.path
    BY <1>0, <1>4 DEF LookupOptOut, HookReturns, history
  <2> QED
    BY <2>1 DEF SharingInv, OrderInv, RetryInv, BodyNSInv, SharedUntilFailure, Failing, FirstNS
<1>5. CASE Lookup
  <2>1. UNCHANGED <<lastContainerPath, spec, finished, bodyNS, failedIn, lateFailedIn>>
    BY <1>5 DEF Lookup, history
  <2>2. CASE NeedsNamespace
    <3>1. /\ spec.path \in Paths /\ containerToNS[spec.path] = NoNS
          /\ containerToNS' = [containerToNS EXCEPT ![spec.path] = nextNS]
      BY <1>0, <1>5, <2>2 DEF Lookup, NeedsNamespace
    <3>2. OrderInv' /\ SharedUntilFailure'
      BY <2>1 DEF SharingInv, OrderInv, SharedUntilFailure
    <3>3. RetryInv'
      BY <1>0, <2>1, <3>1 DEF SharingInv, RetryInv, Failing, FirstNS, Paths
    <3>4. BodyNSInv'
      <4> SUFFICES ASSUME NEW c \in Ordered \ finished, NEW m \in bodyNS[c]
                   PROVE  m \in Failing \cup {FirstNS(c)'}
        BY <2>1 DEF BodyNSInv, Failing
      <4>1. m \in Failing \cup {FirstNS(c)} /\ m \in NS /\ <<c, 1>> \in Paths
        BY <1>0 DEF SharingInv, BodyNSInv, Paths
      <4> QED BY <1>0, <3>1, <4>1 DEF FirstNS, NS, NoNS
    <3> QED BY <3>2, <3>3, <3>4 DEF SharingInv
  <2>3. CASE ~NeedsNamespace
    BY <1>5, <2>1, <2>3, QuietStep DEF Lookup, Failing
  <2> QED BY <2>2, <2>3
<1>6. CASE CreateNewProject \/ WaitForPipelineServiceAccount \/ CreateNewProjectFails
  BY <1>0, <1>6, QuietStep
     DEF CreateNewProject, WaitForPipelineServiceAccount, CreateNewProjectFails, HookReturns,
         manager, history, Failing
<1>7. CASE ExportNamespace
  <2> DEFINE c == spec.path[1]
  <2>1. /\ UNCHANGED <<containerToNS, finished, failedIn, lateFailedIn>>
        /\ spec'.path = spec.path /\ spec.path \in Paths
        /\ lastContainerPath' = spec.path
    BY <1>0, <1>7 DEF ExportNamespace, HookReturns
  <2>2. c \in Containers /\ c \notin finished
    BY <2>1 DEF SharingInv, OrderInv, Paths, NoPath
  <2>3. \/ UNCHANGED bodyNS
        \/ bodyNS' = [bodyNS EXCEPT ![c] = @ \cup {FirstNS(c)}]
    <3>1. spec.path[2] = 1 => spec.path = <<c, 1>>
      BY <2>1 DEF Paths
    <3> QED BY <1>7, <3>1 DEF ExportNamespace, FirstNS
  <2>4. OrderInv' /\ RetryInv'
    BY <2>1 DEF SharingInv, OrderInv, RetryInv, Failing, FirstNS
  <2>5. BodyNSInv'
    <3> SUFFICES ASSUME NEW d \in Ordered \ finished, NEW m \in bodyNS'[d]
                 PROVE  m \in Failing \cup {FirstNS(d)}
      BY <2>1 DEF BodyNSInv, Failing, FirstNS
    <3>1. m \in bodyNS[d] \/ (d = c /\ m = FirstNS(c))
      BY <1>0, <2>2, <2>3
    <3> QED BY <3>1 DEF SharingInv, BodyNSInv
  <2>6. SharedUntilFailure'
    BY <1>0, <2>1, <2>2, <2>3 DEF SharingInv, BodyNSInv, SharedUntilFailure, Failing, FirstNS
  <2> QED BY <2>4, <2>5, <2>6 DEF SharingInv
<1>8. CASE BodyRescopesClients \/ EndSpecs \/ CleanupNamespaces
  BY <1>8, QuietStep
     DEF BodyRescopesClients, EndSpecs, CleanupNamespaces, manager, ginkgo, history, Failing
<1>9. CASE BodyEnds \/ Interrupt
  BY <1>0, <1>9, QuietStep DEF BodyEnds, Interrupt, manager, history, Failing
<1>10. CASE AfterEach
  BY <1>10, QuietStep DEF AfterEach, Failing
<1>11. CASE DeferredCleanup
  BY <1>0, <1>11, QuietStep DEF DeferredCleanup, manager, Failing
<1>12. CASE UNCHANGED vars
  BY <1>12, QuietStep DEF vars, manager, ginkgo, history, Failing
<1> QED BY <1>1, <1>2, <1>3, <1>4, <1>5, <1>6, <1>7, <1>8, <1>9, <1>10, <1>11, <1>12
   DEF Next, BeforeEachHook, Suite, Terminated

-----------------------------------------------------------------------------

\* The hook has still to make the project of path p, or the spec of p has
\* failed and AfterEach has still to mark it.
Pending(p) ==
  /\ p = spec.path
  /\ hook = "create" \/ (phase = "after" /\ spec.failed)

\* A registered namespace was made, or a spec has failed in it, or will have.
ReportedInv ==
  /\ \A p \in Paths : containerToNS[p] # NoNS =>
       containerToNS[p] \in everCreated \cup failedIn \/ Pending(p)
  /\ ManagedBody => containerToNS[spec.path] # NoNS

\* No step leaves a namespace registered that was neither made nor reported.
LEMMA NextPreservesReported == ControlInv /\ ReportedInv /\ [Next]_vars => ReportedInv'
<1> SUFFICES ASSUME ControlInv, ReportedInv, [Next]_vars PROVE ReportedInv'
  OBVIOUS
<1> USE DEF ReportedInv, Pending, ManagedBody
<1>0. /\ HookInv /\ TargetInv
      /\ containerToNS \in [Paths -> Nat]
      /\ spec.path \in Paths \cup {NoPath} /\ spec.failed \in BOOLEAN
      /\ spec = [path |-> spec.path, failed |-> spec.failed]
  BY DEF ControlInv, TypeOK, ManagerOK, GinkgoOK
<1>1. ASSUME NEW c \in Containers, StartSpec(c) PROVE ReportedInv'
  BY <1>0, <1>1 DEF StartSpec, EnterBeforeEach, history, HookInv
<1>2. CASE RetrySpec
  BY <1>0, <1>2 DEF RetrySpec, EnterBeforeEach, history, HookInv
<1>3. CASE SwitchContainer
  <2>1. UNCHANGED <<phase, spec, failedIn, everCreated>> /\ phase # "body" /\ hook = "switch"
    BY <1>0, <1>3 DEF SwitchContainer, HookInv
  <2>2. \A p \in Paths : containerToNS'[p] \in {containerToNS[p], NoNS}
    BY <1>0, <1>3 DEF SwitchContainer, ForgetPath
  <2> QED BY <2>1, <2>2
<1>4. CASE LookupOptOut
  BY <1>0, <1>4 DEF LookupOptOut, HookReturns, history
<1>5. CASE Lookup
  <2>1. UNCHANGED <<phase, spec, failedIn, everCreated>> /\ phase # "body" /\ hook = "lookup"
    BY <1>0, <1>5 DEF Lookup, HookInv, history
  <2>2. CASE NeedsNamespace
    <3>1. /\ hook' = "create"
          /\ \A p \in Paths : p # spec.path => containerToNS'[p] = containerToNS[p]
      BY <1>0, <1>5, <2>2 DEF Lookup
    <3> QED BY <2>1, <3>1
  <2>3. CASE ~NeedsNamespace
    BY <1>5, <2>1, <2>3 DEF Lookup
  <2> QED BY <2>2, <2>3
<1>6. CASE CreateNewProject
  BY <1>0, <1>6 DEF CreateNewProject, manager, HookInv
<1>7. CASE CreateNewProjectFails
  <2>1. \/ phase = "before" /\ phase' = "after" /\ spec'.failed
        \/ phase = "after" /\ spec.failed /\ UNCHANGED <<phase, spec>>
    BY <1>0, <1>7 DEF CreateNewProjectFails, HookReturns, HookInv
  <2>2. /\ spec'.path = spec.path
        /\ UNCHANGED <<containerToNS, failedIn>> /\ everCreated \subseteq everCreated'
    BY <1>0, <1>7 DEF CreateNewProjectFails, HookReturns
  <2> QED BY <2>1, <2>2
<1>8. CASE WaitForPipelineServiceAccount
  BY <1>0, <1>8 DEF WaitForPipelineServiceAccount, manager, history, HookInv
<1>9. CASE ExportNamespace
  <2>1. /\ spec'.path = spec.path /\ hook = "export" /\ hook' = "none"
        /\ phase = "after" => UNCHANGED <<phase, spec>>
        /\ UNCHANGED <<containerToNS, failedIn, everCreated>>
    BY <1>0, <1>9 DEF ExportNamespace, HookReturns
  <2>2. containerToNS[spec.path] # NoNS
    BY <1>0, <2>1 DEF TargetInv, NS, NoNS
  <2> QED BY <2>1, <2>2
<1>10. CASE BodyRescopesClients
  BY <1>10 DEF BodyRescopesClients, manager, ginkgo, history
<1>11. CASE BodyEnds \/ Interrupt
  BY <1>0, <1>11 DEF BodyEnds, Interrupt, manager, history, HookInv
<1>12. CASE AfterEach
  <2>1. /\ UNCHANGED <<containerToNS, everCreated, spec, hook>>
        /\ phase = "after" /\ phase' = "cleanup" /\ failedIn \subseteq failedIn'
        /\ spec.failed /\ containerToNS[spec.path] # NoNS => containerToNS[spec.path] \in failedIn'
    BY <1>12 DEF AfterEach
  <2> QED BY <2>1
<1>13. CASE DeferredCleanup \/ EndSpecs \/ CleanupNamespaces
  BY <1>0, <1>13 DEF DeferredCleanup, EndSpecs, CleanupNamespaces, manager, history, HookInv
<1>14. CASE UNCHANGED vars
  BY <1>14 DEF vars, manager, ginkgo, history
<1> QED BY <1>1, <1>2, <1>3, <1>4, <1>5, <1>6, <1>7, <1>8, <1>9, <1>10, <1>11, <1>12, <1>13,
           <1>14 DEF Next, BeforeEachHook, Suite, Terminated

-----------------------------------------------------------------------------

\* The invariant holds when the process starts.
LEMMA InitEstablishesInv == Init => ControlInv /\ SafetyInv
<1> SUFFICES ASSUME Init PROVE ControlInv /\ SafetyInv
  OBVIOUS
<1> USE ContainersAssumption, BoundsAssumption DEF Init, NoNS, NS
<1>1. TypeOK
  <2>1. ManagerOK
    BY DEF ManagerOK
  <2>2. ScopeOK /\ ClusterOK /\ HistoryOK
    BY DEF ScopeOK, ClusterOK, HistoryOK
  <2>3. GinkgoOK
    BY DEF GinkgoOK, Phases, Hooks
  <2> QED BY <2>1, <2>2, <2>3 DEF TypeOK
<1>2. HookInv /\ TargetInv
  BY DEF HookInv, TargetInv
<1>3. SafetyInv
  BY DEF SafetyInv, NamesInv, FlagInv, RegisteredInv, MarkedInv, AccountedInv, BodyInv,
         ManagedBody, FailedNamespacePreserved
<1> QED BY <1>1, <1>2, <1>3 DEF ControlInv

\* The inductive invariant holds in every reachable state.
LEMMA Inductive == Spec => [](ControlInv /\ SafetyInv)
BY InitEstablishesInv, NextPreservesControl, NextPreservesSafety, PTL DEF Spec

\* Every reachable state has its types: only names that were drawn and
\* registered reach oc, whatever the interleaving of Ginkgo and the hook.
THEOREM TypeCorrect == Spec => []TypeOK
BY Inductive, PTL DEF ControlInv

\* No namespace in which AfterEach saw a failure is ever deleted.
THEOREM FailuresPreserved == Spec => []FailedNamespacePreserved
BY Inductive, PTL DEF SafetyInv

\* The namespace of a spec that failed last survives AfterSuite, abandoned
\* BeforeEach or not.
THEOREM LastFailureSurvives == Spec => []LastFailurePreserved
<1>1. ControlInv /\ SafetyInv => LastFailurePreserved
  BY DEF ControlInv, TypeOK, HistoryOK, NS, NoNS, SafetyInv, MarkedInv,
     FailedNamespacePreserved,
         LastFailurePreserved
<1> QED BY <1>1, Inductive, PTL

\* At the end every project that was made is deleted or kept for a failure.
THEOREM NothingLeaked == Spec => []NoNamespaceLeaked
<1>1. SafetyInv => NoNamespaceLeaked
  BY DEF SafetyInv, AccountedInv, NoNamespaceLeaked
<1> QED BY <1>1, Inductive, PTL

\* A managed body runs in its own path's namespace, which nobody deleted.
THEOREM BodiesHaveLiveNamespace == Spec => []BodyNamespaceLive
<1>1. ControlInv /\ SafetyInv => BodyNamespaceLive
  BY DEF ControlInv, TypeOK, GinkgoOK, HookInv, SafetyInv, BodyInv, RegisteredInv,
         ManagedBody, BodyNamespaceLive
<1> QED BY <1>1, Inductive, PTL

\* The specs of an Ordered container share a namespace until one of them fails.
THEOREM OrderedSpecsShare == Spec => []SharedUntilFailure
<1>1. Init => SharingInv
  BY ContainersAssumption
     DEF Init, SharingInv, OrderInv, RetryInv, BodyNSInv, SharedUntilFailure, NoPath
<1> QED BY <1>1, Inductive, NextPreservesSharing, PTL DEF Spec, SharingInv

\* A body without a project comes after a reported failure of its container.
THEOREM MissingProjectsAreReported == Spec => []MissingProjectReported
<1>1. Init => ReportedInv
  BY DEF Init, ReportedInv, ManagedBody, NoNS
<1>2. ControlInv /\ SafetyInv /\ ReportedInv => MissingProjectReported
  <2> SUFFICES ASSUME ControlInv, SafetyInv, ReportedInv, ManagedBody
               PROVE  testNS \in everCreated \cup failedIn
    BY DEF MissingProjectReported
  <2>1. spec.path \in Paths /\ hook = "none" /\ phase = "body"
    BY DEF ControlInv, TypeOK, GinkgoOK, HookInv, ManagedBody
  <2> QED BY <2>1 DEF SafetyInv, BodyInv, ReportedInv, Pending
<1> QED BY <1>1, <1>2, Inductive, NextPreservesReported, PTL DEF Spec
=============================================================================
