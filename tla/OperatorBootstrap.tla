------------------------- MODULE OperatorBootstrap -------------------------
(***************************************************************************)
(* pkg/olm/cluster_bootstrap.go: EnsurePrerequisites installs or reuses    *)
(* one operator after the other through OLM.  Several test processes (the  *)
(* Tekton Kueue specs, the multi-cluster suite) call it on one cluster at  *)
(* the same time.  Every API call is an action of its own.                 *)
(*                                                                         *)
(* A subscription is installed as one ClusterServiceVersion, whose phase   *)
(* is kept per package and namespace ("none": no InstalledCSV, or no CSV   *)
(* of that name yet; both make the poll go on).                            *)
(***************************************************************************)
EXTENDS Naturals, Sequences

CONSTANTS
  Callers,      \* calls of EnsurePrerequisites
  Waiting,      \* those that pass a discovery client
  Packages,
  Plan,         \* the prerequisites, in order
  Namespaces,
  PkgNS,        \* package -> the namespace the callers install it to
  Channels,
  Requested,    \* the channel the callers ask for
  AdminSubs,    \* subscriptions an administrator may have made before
  AdminGroups   \* OperatorGroups an administrator may have made before

ASSUME CallersAssumption == Waiting \subseteq Callers
ASSUME PlanAssumption == Plan \in Seq(Packages) /\ Plan # <<>>
ASSUME PackagesAssumption == PkgNS \in [Packages -> Namespaces] /\ Requested \in Channels

Names  == Packages \cup {"custom"}
Subs   == [name : Names, ns : Namespaces, pkg : Packages, channel : Channels]
Groups == [name : Namespaces \cup {"custom"}, ns : Namespaces]

ASSUME AdminAssumption == AdminSubs \subseteq Subs /\ AdminGroups \subseteq Groups

VARIABLES
  \* the cluster
  namespaces,   \* namespaces that exist
  groups,       \* OperatorGroups: name and namespace
  subs,         \* Subscriptions: name, namespace, package, channel
  csvPhase,     \* package, namespace -> phase of its ClusterServiceVersion
  served,       \* packages whose API group version is served
  \* the callers
  place,        \* where each call is
  pos,          \* the prerequisite it is at
  target,       \* namespace of the subscription it waits for
  \* history
  faulted,      \* callers that met a failing API call or a timeout
  reached,      \* package, phase: its CSV has been in that phase
  sound,        \* the cluster was unambiguous when the callers started
  tooEarly      \* callers that used an API nobody served

olmState      == <<namespaces, groups, subs, csvPhase, served>>
calls         == <<place, pos, target>>
callHistory   == <<faulted, reached, sound, tooEarly>>
bootstrapVars == <<olmState, calls, callHistory>>

CSVPhases == {"none", "installing", "succeeded", "failed"}
Creating == {"namespace", "newNamespace", "groups", "newGroup", "create"}
Places == {"list", "existing", "wait", "api", "ready", "used", "error"} \cup Creating

\* Variables have their types: callers stay within the plan and wait for a
\* subscription in a real namespace.
BootstrapTypeOK ==
  /\ namespaces \subseteq Namespaces
  /\ groups \subseteq Groups
  /\ subs \subseteq Subs
  /\ csvPhase \in [Packages \X Namespaces -> CSVPhases]
  /\ served \subseteq Packages
  /\ place \in [Callers -> Places]
  /\ pos \in [Callers -> 1 .. Len(Plan)]
  /\ target \in [Callers -> Namespaces]
  /\ faulted \subseteq Callers
  /\ reached \subseteq Packages \X CSVPhases
  /\ sound \in BOOLEAN
  /\ tooEarly \subseteq Callers

Matches(p) == {s \in subs : s.pkg = p}
GroupsIn(n) == {g \in groups : g.ns = n}
Several(S) == \E x, y \in S : x # y

\* The cluster names an operator once: one subscription per package, one
\* OperatorGroup per namespace, no name taken by another package.
SingleOperators(S, G) ==
  /\ \A s, t \in S : s.pkg = t.pkg => s = t
  /\ \A g, h \in G : g.ns = h.ns => g = h
  /\ \A s \in S : s.name \in Packages => s.name = s.pkg

\* Nothing is installed yet, or an administrator has subscribed some packages,
\* to any namespace, channel and name.
BootstrapInit ==
  /\ subs \in SUBSET AdminSubs
  /\ \A s, t \in subs : s.name = t.name /\ s.ns = t.ns => s = t
  /\ groups \in SUBSET AdminGroups
  /\ sound = SingleOperators(subs, groups)
  /\ namespaces \in SUBSET Namespaces
  /\ \A s \in subs : s.ns \in namespaces
  /\ \A g \in groups : g.ns \in namespaces
  /\ csvPhase = [x \in Packages \X Namespaces |-> "none"]
  /\ served = {}
  /\ place = [c \in Callers |-> "list"]
  /\ pos = [c \in Callers |-> 1]
  /\ target = [c \in Callers |-> PkgNS[Plan[1]]]
  /\ faulted = {} /\ reached = {} /\ tooEarly = {}

-----------------------------------------------------------------------------
(* EnsureOperator.                                                         *)

Pkg(c) == Plan[pos[c]]
NS(c)  == PkgNS[Pkg(c)]

Go(c, p) == place' = [place EXCEPT ![c] = p]

\* The only subscription of the package is reused, whatever its name,
\* namespace and channel; several are an error.
ListSubscriptions(c) ==
  /\ place[c] = "list"
  /\ \/ Several(Matches(Pkg(c))) /\ Go(c, "error") /\ UNCHANGED target
     \/ /\ ~Several(Matches(Pkg(c)))
        /\ \E s \in Matches(Pkg(c)) :
             Go(c, "wait") /\ target' = [target EXCEPT ![c] = s.ns]
     \/ Matches(Pkg(c)) = {} /\ Go(c, "namespace") /\ UNCHANGED target
  /\ UNCHANGED <<olmState, pos, callHistory>>

\* EnsureNamespace: Get, and Create unless it is there.
GetNamespace(c) ==
  /\ place[c] = "namespace"
  /\ Go(c, IF NS(c) \in namespaces THEN "groups" ELSE "newNamespace")
  /\ UNCHANGED <<olmState, pos, target, callHistory>>

\* AlreadyExists is as good as success.
CreateNamespace(c) ==
  /\ place[c] = "newNamespace"
  /\ namespaces' = namespaces \cup {NS(c)}
  /\ Go(c, "groups")
  /\ UNCHANGED <<groups, subs, csvPhase, served, pos, target, callHistory>>

ListGroups(c) ==
  /\ place[c] = "groups"
  /\ Go(c, IF Several(GroupsIn(NS(c))) THEN "error"
             ELSE IF GroupsIn(NS(c)) = {} THEN "newGroup" ELSE "create")
  /\ UNCHANGED <<olmState, pos, target, callHistory>>

\* Mutants: the group's name is generated; AlreadyExists is an error.
GeneratedGroup(c) == [name |-> IF [name |-> NS(c), ns |-> NS(c)] \in groups
                                 THEN "custom" ELSE NS(c), ns |-> NS(c)]
GroupTakenFails(c) == IF [name |-> NS(c), ns |-> NS(c)] \in groups THEN "error" ELSE "create"

\* The group is named after its namespace, so that two creators collide.
OwnGroup(c) == [name |-> NS(c), ns |-> NS(c)]

\* After Create: AlreadyExists is as good as success.
AfterGroup(c) == "create"

CreateGroup(c) ==
  /\ place[c] = "newGroup"
  /\ groups' = groups \cup {OwnGroup(c)}
  /\ Go(c, AfterGroup(c))
  /\ UNCHANGED <<namespaces, subs, csvPhase, served, pos, target, callHistory>>

\* Create answers AlreadyExists.
NameTaken(c) == \E s \in subs : s.name = Pkg(c) /\ s.ns = NS(c)

\* The subscription is named after its package.
Stored(c) ==
  IF NameTaken(c) THEN subs
    ELSE subs \cup {[name |-> Pkg(c), ns |-> NS(c), pkg |-> Pkg(c), channel |-> Requested]}

CreateSubscription(c) ==
  /\ place[c] = "create"
  /\ subs' = Stored(c)
  /\ Go(c, IF NameTaken(c) THEN "existing" ELSE "wait")
  /\ target' = [target EXCEPT ![c] = NS(c)]
  /\ UNCHANGED <<namespaces, groups, csvPhase, served, pos, callHistory>>

\* After AlreadyExists: is it a subscription of the same package?
GetExisting(c) ==
  /\ place[c] = "existing"
  /\ \E s \in subs :
       /\ s.name = Pkg(c) /\ s.ns = NS(c)
       /\ Go(c, IF s.pkg = Pkg(c) THEN "wait" ELSE "error")
  /\ UNCHANGED <<olmState, pos, target, callHistory>>

-----------------------------------------------------------------------------
(* The waits, and the loop of EnsurePrerequisites.                         *)

\* Mutant: the loop does not advance.
SamePrerequisite(c) == Go(c, "list") /\ UNCHANGED pos

\* The next prerequisite, or nil is returned.
NextPrerequisite(c) ==
  IF pos[c] < Len(Plan)
    THEN Go(c, "list") /\ pos' = [pos EXCEPT ![c] = @ + 1]
    ELSE Go(c, "ready") /\ UNCHANGED pos

Succeeded(phase) == phase = "succeeded"

\* waitForOperator: a failed CSV ends the wait, other phases do not.
AwaitOperator(c) ==
  /\ place[c] = "wait"
  /\ LET phase == csvPhase[<<Pkg(c), target[c]>>]
     IN  \/ phase = "failed" /\ Go(c, "error") /\ UNCHANGED pos
         \/ /\ Succeeded(phase)
            /\ IF c \in Waiting THEN Go(c, "api") /\ UNCHANGED pos ELSE NextPrerequisite(c)
  /\ UNCHANGED <<olmState, target, callHistory>>

\* Mutant: the poll for the API is missing.
ServedAnyway(p) == TRUE

\* ServerResourcesForGroupVersion succeeds.
Served(p) == p \in served

AwaitAPI(c) ==
  /\ place[c] = "api"
  /\ Served(Pkg(c))
  /\ NextPrerequisite(c)
  /\ UNCHANGED <<olmState, target, callHistory>>

\* An API call fails or a wait times out, and the error is returned.  A Create
\* may have been carried out all the same.
Fault(c) ==
  /\ place[c] \notin {"ready", "used", "error"}
  /\ Go(c, "error")
  /\ faulted' = faulted \cup {c}
  /\ \/ UNCHANGED <<namespaces, groups, subs>>
     \/ /\ place[c] = "newNamespace"
        /\ namespaces' = namespaces \cup {NS(c)}
        /\ UNCHANGED <<groups, subs>>
     \/ /\ place[c] = "newGroup"
        /\ groups' = groups \cup {OwnGroup(c)}
        /\ UNCHANGED <<namespaces, subs>>
     \/ /\ place[c] = "create"
        /\ subs' = Stored(c)
        /\ UNCHANGED <<namespaces, groups>>
  /\ UNCHANGED <<csvPhase, served, pos, target, reached, sound, tooEarly>>

\* The environment's Setup goes on to use the APIs of the operators.
UseAPI(c) ==
  /\ place[c] = "ready"
  /\ Go(c, "used")
  /\ tooEarly' = IF \E i \in 1 .. Len(Plan) : Plan[i] \notin served
                   THEN tooEarly \cup {c} ELSE tooEarly
  /\ UNCHANGED <<olmState, pos, target, faulted, reached, sound>>

Caller(c) ==
  \/ ListSubscriptions(c) \/ GetNamespace(c) \/ CreateNamespace(c) \/ ListGroups(c)
  \/ CreateGroup(c) \/ CreateSubscription(c) \/ GetExisting(c) \/ AwaitOperator(c)
  \/ AwaitAPI(c) \/ Fault(c) \/ UseAPI(c)

-----------------------------------------------------------------------------
(* OLM.                                                                    *)

\* OLM installs a subscription if its namespace has exactly one OperatorGroup.
\* A CSV may fail, recover, or fall back to installing.
Reconcile(s) ==
  /\ GroupsIn(s.ns) # {} /\ ~Several(GroupsIn(s.ns))
  /\ \E phase \in {"installing", "succeeded", "failed"} :
       /\ csvPhase[<<s.pkg, s.ns>>] = "none" => phase = "installing"
       /\ csvPhase' = [csvPhase EXCEPT ![<<s.pkg, s.ns>>] = phase]
       /\ reached' = reached \cup {<<s.pkg, phase>>}
  /\ UNCHANGED <<namespaces, groups, subs, served, calls, faulted, sound, tooEarly>>

Installed(p) == <<p, "succeeded">> \in reached

\* The CRDs are registered some time after the CSV has succeeded.
Serve(p) ==
  /\ Installed(p)
  /\ served' = served \cup {p}
  /\ UNCHANGED <<namespaces, groups, subs, csvPhase, calls, callHistory>>

OLM == (\E s \in subs : Reconcile(s)) \/ (\E p \in Packages : Serve(p))

Finished == (\A c \in Callers : place[c] \in {"used", "error"}) /\ UNCHANGED bootstrapVars

BootstrapNext == (\E c \in Callers : Caller(c)) \/ OLM \/ Finished

BootstrapSpec == BootstrapInit /\ [][BootstrapNext]_bootstrapVars

\* Every call is answered or times out (operatorInstallTimeout); OLM owes nothing.
FairBootstrap == BootstrapSpec /\ \A c \in Callers : WF_bootstrapVars(Caller(c))

-----------------------------------------------------------------------------
(* Properties.                                                             *)

\* On a cluster that was sound, however the calls of concurrent bootstraps
\* interleave, and whichever of them fail half way, a package never gets a
\* second subscription and a namespace never a second OperatorGroup: the state
\* EnsureOperator itself refuses to work with (cluster_bootstrap.go:137-139,
\* 223-225).
NoSecondOperator == sound => SingleOperators(subs, groups)

\* A caller fails only because a call of its own failed or timed out, or a CSV
\* failed: losing a race to another bootstrap is never an error
\* (cluster_bootstrap.go:162-173, 232, 248).
RacesAreBenign ==
  \A c \in Callers :
    sound /\ place[c] = "error" => c \in faulted \/ <<Pkg(c), "failed">> \in reached

\* When nil is returned every operator of the plan has been seen installed,
\* also one reused from another namespace (cluster_bootstrap.go:75-90, 183-213).
ReadyMeansInstalled ==
  \A c \in Callers :
    place[c] \in {"ready", "used"} => \A i \in 1 .. Len(Plan) : Installed(Plan[i])

\* "Existing subscriptions are reused without changing their channel or catalog
\* source" (cluster_bootstrap.go:119), whoever created them and when.
ReusedUnchanged == [][subs \subseteq subs']_bootstrapVars

\* A caller that waits for the APIs never uses one that is not served
\* (cluster_bootstrap.go:72-74, 100-116).
WaitingCallersServed == tooEarly \cap Waiting = {}

\* Every call returns.
CallersEnd == \A c \in Callers : <>(place[c] \in {"used", "error"})
=============================================================================
