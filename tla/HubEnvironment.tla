--------------------------- MODULE HubEnvironment ---------------------------
(***************************************************************************)
(* pkg/multicluster and the specs that use it: Environment.Setup takes a   *)
(* snapshot of TektonConfig and registers the cluster as its own worker,   *)
(* the specs switch the scheduler mode and the NetworkPolicy settings, and *)
(* Cleanup deletes what the run created and writes the snapshot back.      *)
(*                                                                         *)
(* A test step is one call (an API request, an oc command, a wait).  The   *)
(* worker's names carry a fresh prefix; only the Kueue is shared.  A Delete *)
(* that is accepted counts as done: nothing here waits for finalizers.     *)
(* RetryOnConflict makes a read-modify-write atomic, and so does the       *)
(* resourceVersion with which the secret is refreshed.                     *)
(***************************************************************************)
EXTENDS Naturals, Sequences, FiniteSets

CONSTANTS
  Starts,      \* the clusters it may start with: networkPolicy, approval gate's flag,
               \* whether there is a Kueue and an admission that stores defaults
  Touched,     \* objects that others create, replace and delete
  MaxErrors,   \* bound: failing calls
  MaxResent,   \* bound: creations carried out whose answer was lost
  MaxExternal  \* bound: actions of others

Recorded == {"kueue", "secret", "cluster"}               \* their uid is kept
RBAC     == {"crole", "crb", "role", "rb"}
Things   == Recorded \cup RBAC \cup {"ns", "sa"}
Modes    == {"initial", "hub", "spoke", "single"}        \* of the scheduler
Flags    == {"unset", "true", "false"}                   \* networkPolicy.disabled
Policies == [present : BOOLEAN, disabled : Flags, policies : SUBSET {"own", "custom"}]
NoNP     == [present |-> FALSE, disabled |-> "unset", policies |-> {}]

Starting == [np : Policies, mag : Flags \cup {"none"}, kueue : BOOLEAN, defaulting : BOOLEAN]

ASSUME StartAssumption ==
  /\ Starts \subseteq Starting
  /\ \A s \in Starts : s.np.present \/ (s.np = NoNP /\ ~s.defaulting)
ASSUME BoundAssumption ==
  /\ Touched \subseteq Things
  /\ MaxErrors \in Nat /\ MaxResent \in Nat /\ MaxExternal \in Nat

-----------------------------------------------------------------------------
(* The sequences of calls.  "hub" stands for the policies of proxy-aae and *)
(* of syncer-service, which come and go together.                          *)

SetupScript ==
  <<"bootstrap", "readScheduler", "readNP", "readMAG",
    "getKueue", "kueue", "kueueAvailable", "apiServed", "readCA",
    "ns", "sa", "crole", "crb", "role", "rb", "token", "secret", "cluster", "active">>

Mode(m)       == << <<"mode", m>>, <<"settle", "">> >>
Expected(hub) == << <<"present", "scheduler">>, <<hub, "hub">> >>
Disable(flag) == << <<"disable", flag>>, <<"disableMAG", flag>>, <<"settle", "">> >>

Specs ==
  << Mode("hub") \o Expected("present"),
     Mode("spoke") \o Expected("absent"),
     Mode("hub") \o Expected("present"),
     Mode("single") \o Expected("absent"),
     Mode("hub") \o Disable("true") \o << <<"absent", "scheduler">>, <<"absent", "hub">> >>
       \o Disable("false") \o Expected("present") \o << <<"defer", "enable">> >>,
     Mode("hub") \o << <<"checkName", "">>, <<"saveNP", "">>, <<"addCustom", "">>,
                       <<"settle", "">>, <<"present", "custom">> >>
       \o Expected("present") \o << <<"propagated", "">>, <<"defer", "remove">> >> >>

Deferred ==
  [enable |-> Disable("false"),
   remove |-> << <<"disable", "true">>, <<"settle", "">>, <<"absent", "custom">>,
                 <<"restoreNP", "">>, <<"settle", "">>, <<"absent", "custom">> >>]

DeleteOrder   == <<"secret", "cluster", "kueue", "crb", "rb", "crole", "role", "sa", "ns">>
RestoreScript == <<"scheduler", "np", "settle", "mag">>

-----------------------------------------------------------------------------
VARIABLES
  obj,         \* thing -> uid (0: none) and whether it carries the run's labels
  nextUid,
  sched, np,   \* TektonConfig: spec.scheduler and spec.networkPolicy
  mag,         \* networkPolicy.disabled of the ManualApprovalGate, or "none"
  live,        \* the groups of NetworkPolicies that exist
  before,      \* the cluster before Setup
  env,         \* fields of Environment: uids, kueueOwned, the snapshot; as history,
               \* whether the snapshot of TektonConfig was completed
  phase,       \* "setup", "spec", "deferred", "between", "delete", "restore", "done"
  spec, pos,   \* the current spec, the next call
  deferred,    \* the current spec's DeferCleanup, or "none"
  savedNP,     \* what EnsureCustomPolicy returned
  seen,        \* deleteOwned: uid of the object the Get returned, 0 before it
  failed,      \* some deletion returned an error
  restored,    \* restoreTektonConfig: "pending", "ok" or "error"
  errors, resent, external

cluster == <<obj, nextUid, sched, np, mag, live, before>>
control == <<phase, spec, pos, deferred, savedNP, seen, failed, restored>>
bounds  == <<errors, resent, external>>
vars    == <<cluster, env, control, bounds>>

Absent == [uid |-> 0, mine |-> FALSE]

\* Variables have their types; the test is inside the script of its phase.
TypeOK ==
  /\ obj \in [Things -> [uid : 0 .. (nextUid - 1), mine : BOOLEAN]]
  /\ nextUid \in Nat
  /\ sched \in Modes /\ np \in Policies /\ mag \in Flags \cup {"none"}
  /\ live \subseteq {"scheduler", "hub", "custom"}
  /\ before \in Starting
  /\ env \in [uid : [Recorded -> Nat], kueueOwned : BOOLEAN, origScheduler : Modes \cup {"nil"},
              origNP : Policies, origMAG : Flags \cup {"none"}, complete : BOOLEAN]
  /\ phase \in {"setup", "spec", "deferred", "between", "delete", "restore", "done"}
  /\ spec \in 0 .. Len(Specs)
  /\ phase = "setup" => pos \in 1 .. Len(SetupScript)
  /\ phase = "delete" => pos \in 1 .. Len(DeleteOrder)
  /\ phase = "restore" => pos \in 1 .. Len(RestoreScript)
  /\ deferred \in {"none", "enable", "remove"} /\ savedNP \in Policies
  /\ seen \in Nat /\ failed \in BOOLEAN /\ restored \in {"pending", "ok", "error"}
  /\ errors \in Nat /\ resent \in Nat /\ external \in Nat

\* The operator's NetworkPolicies for a configuration.  Dropping an entry of
\* "policies" does not delete its NetworkPolicy; "disabled" deletes them all.
Wanted ==
  IF np.disabled = "true" THEN {}
  ELSE (CASE sched = "initial" -> {}
          [] sched = "hub"     -> {"scheduler", "hub"}
          [] OTHER             -> {"scheduler"})
       \cup ({"custom"} \cap (np.policies \cup live))

Init ==
  /\ before \in Starts
  /\ obj = [t \in Things |-> IF t = "kueue" /\ before.kueue THEN [Absent EXCEPT !.uid = 1]
                                                           ELSE Absent]
  /\ nextUid = 2
  /\ sched = "initial"
  /\ np = before.np /\ mag = before.mag
  /\ live = IF np.disabled = "true" THEN {} ELSE np.policies \cap {"custom"}
  /\ env = [uid |-> [t \in Recorded |-> 0], kueueOwned |-> FALSE, origScheduler |-> "nil",
            origNP |-> NoNP, origMAG |-> "none", complete |-> FALSE]
  /\ phase = "setup" /\ spec = 0 /\ pos = 1
  /\ deferred = "none" /\ savedNP = NoNP
  /\ seen = 0 /\ failed = FALSE /\ restored = "pending"
  /\ errors = 0 /\ resent = 0 /\ external = 0

-----------------------------------------------------------------------------
(* Setup.                                                                  *)

InSetup(call) == phase = "setup" /\ SetupScript[pos] = call

Idle == <<spec, deferred, savedNP, seen, failed, restored>>

\* The deferred Cleanup, after the last spec or a failed Setup.
BeginCleanup ==
  /\ phase' = "delete"
  /\ pos' = 1
  /\ UNCHANGED Idle

\* The next call; after the last one the specs run.
Advance ==
  /\ IF pos < Len(SetupScript) THEN pos' = pos + 1 /\ UNCHANGED phase
                               ELSE pos' = 1 /\ phase' = "between"
  /\ UNCHANGED Idle

\* A call fails.
Error == errors < MaxErrors /\ errors' = errors + 1 /\ UNCHANGED <<resent, external>>

SetupError ==
  /\ phase = "setup" /\ ~InSetup("readMAG")
  /\ Error
  /\ BeginCleanup
  /\ UNCHANGED <<cluster, env>>

\* Calls that leave nothing behind here: the prerequisites (OperatorBootstrap),
\* the wait for Kueue's API, the CA and the token.
SetupReads ==
  /\ InSetup("bootstrap") \/ InSetup("apiServed") \/ InSetup("readCA") \/ InSetup("token")
  /\ Advance
  /\ UNCHANGED <<cluster, env, bounds>>

ReadScheduler ==
  /\ InSetup("readScheduler")
  /\ env' = [env EXCEPT !.origScheduler = sched]
  /\ Advance
  /\ UNCHANGED <<cluster, bounds>>

\* networkPolicyJSON: an absent and an empty networkPolicy both give "".
NetworkPolicyJSON(n) == IF n.disabled = "unset" /\ n.policies = {} THEN NoNP ELSE n

ReadNetworkPolicy ==
  /\ InSetup("readNP")
  /\ env' = [env EXCEPT !.origNP = NetworkPolicyJSON(np), !.complete = TRUE]
  /\ Advance
  /\ UNCHANGED <<cluster, bounds>>

\* A failing oc get means to the code that there is no ManualApprovalGate.
ReadMAG ==
  /\ InSetup("readMAG")
  /\ \/ env' = [env EXCEPT !.origMAG = mag] /\ UNCHANGED bounds
     \/ mag # "none" /\ Error /\ UNCHANGED env
  /\ Advance
  /\ UNCHANGED <<cluster>>

\* An existing Kueue is left untouched.
GetKueue ==
  /\ InSetup("getKueue")
  /\ pos' = IF obj["kueue"].uid = 0 THEN pos + 1 ELSE pos + 2
  /\ UNCHANGED <<cluster, env, phase, Idle, bounds>>

Stored(t) ==
  /\ obj' = [obj EXCEPT ![t] = [uid |-> nextUid, mine |-> TRUE]]
  /\ nextUid' = nextUid + 1

\* The Environment notes the uid, and of the Kueue that it is its own.
Record(t, uid) ==
  [env EXCEPT !.uid = [r \in Recorded |-> IF r = t THEN uid ELSE env.uid[r]],
              !.kueueOwned = @ \/ t = "kueue"]

Create(t) ==
  /\ InSetup(t)
  /\ obj[t].uid = 0
  /\ Stored(t)
  /\ env' = Record(t, nextUid)
  /\ Advance
  /\ UNCHANGED <<sched, np, mag, live, before, bounds>>

\* The run's own namespace, account, secret or cluster is adopted, roles and
\* bindings are not looked at; an existing Kueue is an error.
Adopted(t) == t \in RBAC \/ (t # "kueue" /\ obj[t].mine)

\* Create answers AlreadyExists.
CreateExists(t) ==
  /\ InSetup(t)
  /\ obj[t].uid # 0
  /\ IF Adopted(t)
       THEN env' = Record(t, obj[t].uid) /\ Advance
       ELSE UNCHANGED env /\ BeginCleanup
  /\ UNCHANGED <<cluster, bounds>>

\* The creation is carried out but the answer is lost.  The request is sent
\* again (CreateExists) or the call fails (SetupError).
CreateUnseen(t) ==
  /\ InSetup(t)
  /\ obj[t].uid = 0
  /\ resent < MaxResent
  /\ resent' = resent + 1
  /\ Stored(t)
  /\ UNCHANGED <<sched, np, mag, live, before, env, control, errors, external>>

\* Waits for the Kueue and for the worker to be active; a wait for an object
\* that is gone times out.
SetupWaits ==
  /\ InSetup("kueueAvailable") \/ InSetup("active")
  /\ LET thing == IF InSetup("active") THEN "cluster" ELSE "kueue"
     IN  IF obj[thing].uid # 0 THEN Advance ELSE BeginCleanup
  /\ UNCHANGED <<cluster, env, bounds>>

Setup ==
  \/ SetupError \/ SetupReads \/ ReadScheduler \/ ReadNetworkPolicy \/ ReadMAG \/ GetKueue
  \/ SetupWaits
  \/ \E t \in Things : Create(t) \/ CreateExists(t) \/ CreateUnseen(t)

-----------------------------------------------------------------------------
(* The specs, in order and each possibly filtered out.                     *)

Script    == IF phase = "spec" THEN Specs[spec] ELSE Deferred[deferred]
InSpec(call) == phase \in {"spec", "deferred"} /\ Script[pos][1] = call
Argument  == Script[pos][2]

StartSpec ==
  /\ phase = "between"
  /\ spec' \in (spec + 1) .. Len(Specs)
  /\ phase' = "spec" /\ pos' = 1
  /\ UNCHANGED <<cluster, env, deferred, savedNP, seen, failed, restored, bounds>>

EndSpecs ==
  /\ phase = "between"
  /\ BeginCleanup
  /\ UNCHANGED <<cluster, env, bounds>>

\* The spec or its deferred function is over, by its end or by a failure.
Leave == phase' = "between" /\ pos' = 1 /\ deferred' = "none"

NextCall == IF pos < Len(Script) THEN pos' = pos + 1 /\ UNCHANGED <<phase, deferred>> ELSE Leave

Rest == <<spec, seen, failed, restored>>

CallError ==
  /\ phase \in {"spec", "deferred"}
  /\ Error
  /\ Leave
  /\ UNCHANGED <<cluster, env, savedNP, Rest>>

\* A merge patch of TektonConfig: the fields it names are set, the others kept.
PatchTektonConfig ==
  /\ \/ InSpec("mode") /\ sched' = Argument /\ UNCHANGED np
     \/ InSpec("disable") /\ np' = [np EXCEPT !.present = TRUE, !.disabled = Argument]
                          /\ UNCHANGED sched
     \/ InSpec("addCustom") /\ np' = [np EXCEPT !.present = TRUE, !.policies = @ \cup {"custom"}]
                            /\ UNCHANGED sched
  /\ NextCall
  /\ UNCHANGED <<obj, nextUid, mag, live, before, env, savedNP, Rest, bounds>>

\* The ManualApprovalGate is patched if oc get finds it.
PatchMAG ==
  /\ InSpec("disableMAG")
  /\ \/ mag' = (IF mag = "none" THEN mag ELSE Argument) /\ UNCHANGED bounds
     \/ mag # "none" /\ Error /\ UNCHANGED mag
  /\ NextCall
  /\ UNCHANGED <<obj, nextUid, sched, np, live, before, env, savedNP, Rest>>

\* EnsureTektonConfigStatusInstalled may be satisfied with the status of before
\* the patch; the entry reaches the proxy's resource some time later.
AwaitOperator ==
  /\ InSpec("settle") \/ InSpec("propagated")
  /\ NextCall
  /\ UNCHANGED <<cluster, env, savedNP, Rest, bounds>>

\* assertPolicy: one sample suffices; if it never comes the poll times out.
AssertPolicy ==
  /\ InSpec("present") \/ InSpec("absent")
  /\ IF (Argument \in live) = InSpec("present")
       THEN NextCall
       ELSE Leave
  /\ UNCHANGED <<cluster, env, savedNP, Rest, bounds>>

\* EnsureCustomPolicy refuses a name that is taken.
CheckName ==
  /\ InSpec("checkName")
  /\ IF "custom" \in np.policies THEN Leave ELSE NextCall
  /\ UNCHANGED <<cluster, env, savedNP, Rest, bounds>>

SaveNetworkPolicy ==
  /\ InSpec("saveNP")
  /\ savedNP' = NetworkPolicyJSON(np)
  /\ NextCall
  /\ UNCHANGED <<cluster, env, Rest, bounds>>

\* The last call of a spec registers its cleanup, which runs at once.
DeferCleanup ==
  /\ InSpec("defer")
  /\ phase' = "deferred" /\ deferred' = Argument /\ pos' = 1
  /\ UNCHANGED <<cluster, env, savedNP, Rest, bounds>>

\* No networkPolicy is written; admission may store an empty one.
NothingStored == [NoNP EXCEPT !.present = before.defaulting]

\* restoreNetworkPolicyJSON: "" removes the field, which fails if there is none;
\* anything else is merged into what is there.
Restorable(snapshot) == snapshot # NoNP \/ np.present
RestoreNetworkPolicyJSON(snapshot) ==
  IF snapshot = NoNP THEN NothingStored
  ELSE [present  |-> TRUE,
        disabled |-> IF snapshot.disabled = "unset" THEN np.disabled ELSE snapshot.disabled,
        policies |-> np.policies \cup snapshot.policies]

RestoreSavedPolicy ==
  /\ InSpec("restoreNP")
  /\ IF Restorable(savedNP) THEN np' = RestoreNetworkPolicyJSON(savedNP) /\ NextCall
                            ELSE UNCHANGED np /\ Leave
  /\ UNCHANGED <<obj, nextUid, sched, mag, live, before, env, savedNP, Rest, bounds>>

RunSpecs ==
  \/ StartSpec \/ EndSpecs \/ CallError \/ PatchTektonConfig \/ PatchMAG \/ AwaitOperator
  \/ AssertPolicy \/ CheckName \/ SaveNetworkPolicy \/ DeferCleanup \/ RestoreSavedPolicy

-----------------------------------------------------------------------------
(* Cleanup: deleteOwnedResources, then restoreTektonConfig, whatever the   *)
(* first returned.                                                         *)

Thing == DeleteOrder[pos]
Fixed == <<spec, deferred, savedNP, restored>>

\* Mutant: the first error ends deleteOwnedResources.
StopAtError(failure) ==
  /\ IF failure \/ pos = Len(DeleteOrder) THEN phase' = "restore" /\ pos' = 1
                                          ELSE pos' = pos + 1 /\ UNCHANGED phase
  /\ seen' = 0
  /\ failed' = (failed \/ failure)

\* Mutant: the error of a deletion is only logged.
DropError(failure) ==
  /\ IF pos = Len(DeleteOrder) THEN phase' = "restore" /\ pos' = 1
                               ELSE pos' = pos + 1 /\ UNCHANGED phase
  /\ seen' = 0
  /\ UNCHANGED failed

\* Mutant: one object too many.
OneTooMany(failure) ==
  /\ IF pos > Len(DeleteOrder) THEN phase' = "restore" /\ pos' = 1
                               ELSE pos' = pos + 1 /\ UNCHANGED phase
  /\ seen' = 0
  /\ failed' = (failed \/ failure)

\* deleteOwned returns; its error is collected and the next object is next.
NextThing(failure) ==
  /\ IF pos = Len(DeleteOrder) THEN phase' = "restore" /\ pos' = 1
                               ELSE pos' = pos + 1 /\ UNCHANGED phase
  /\ seen' = 0
  /\ failed' = (failed \/ failure)

\* The labels are the run's and the uid is the recorded one, if any.
Owns(t) ==
  obj[t].mine /\ (t \in Recorded => env.uid[t] \in {0, obj[t].uid})

GetOwned ==
  /\ phase = "delete" /\ seen = 0
  /\ IF obj[Thing].uid = 0 \/ (Thing = "kueue" /\ ~env.kueueOwned) THEN NextThing(FALSE)
     ELSE IF ~Owns(Thing) THEN NextThing(TRUE)
     ELSE seen' = obj[Thing].uid /\ UNCHANGED <<phase, pos, failed>>
  /\ UNCHANGED <<cluster, env, Fixed, bounds>>

\* What lives in the namespace goes with it.
Deleted(t) ==
  /\ LET gone == IF t = "ns" THEN {"ns", "sa", "role", "rb"} ELSE {t}
     IN  obj' = [x \in Things |-> IF x \in gone THEN Absent ELSE obj[x]]
  /\ UNCHANGED <<nextUid, sched, np, mag, live, before>>

DeleteOwned ==
  /\ phase = "delete" /\ seen # 0
  /\ Deleted(Thing)
  /\ NextThing(FALSE)
  /\ UNCHANGED <<env, Fixed, bounds>>

\* The Get or the Delete returns an error, the latter perhaps after the deletion.
DeletionError ==
  /\ phase = "delete"
  /\ Thing = "kueue" => env.kueueOwned
  /\ Error
  /\ \/ UNCHANGED <<cluster>>
     \/ seen # 0 /\ Deleted(Thing)
  /\ NextThing(TRUE)
  /\ UNCHANGED <<env, Fixed>>

InRestore(call) == phase = "restore" /\ RestoreScript[pos] = call
Others == <<spec, deferred, savedNP, seen, failed>>

CleanupReturns(result) ==
  /\ phase' = "done" /\ restored' = result /\ UNCHANGED pos

NextRestore == pos' = pos + 1 /\ UNCHANGED <<phase, restored>>

\* A call fails, or the wait does and panics.
RestoreError ==
  /\ phase = "restore"
  /\ InRestore("scheduler") => env.origScheduler # "nil"
  /\ InRestore("mag") => env.origMAG # "none"
  /\ Error
  /\ CleanupReturns("error")
  /\ UNCHANGED <<cluster, env, Others>>

\* Mutant: the typed client knows the field and Update keeps it.
KeptByUpdate == np

\* The typed client predates networkPolicy: Update stores the object without it.
StoredByUpdate == NothingStored

RestoreScheduler ==
  /\ InRestore("scheduler")
  /\ IF env.origScheduler = "nil"
       THEN CleanupReturns("error") /\ UNCHANGED <<sched, np>>
       ELSE sched' = env.origScheduler /\ np' = StoredByUpdate /\ NextRestore
  /\ UNCHANGED <<obj, nextUid, mag, live, before, env, Others, bounds>>

RestoreNetworkPolicy ==
  /\ InRestore("np")
  /\ IF Restorable(env.origNP) THEN np' = RestoreNetworkPolicyJSON(env.origNP) /\ NextRestore
                               ELSE UNCHANGED np /\ CleanupReturns("error")
  /\ UNCHANGED <<obj, nextUid, sched, mag, live, before, env, Others, bounds>>

RestoreSettles ==
  /\ InRestore("settle")
  /\ NextRestore
  /\ UNCHANGED <<cluster, env, Others, bounds>>

\* An unset flag is written back as false.
RestoreMAG ==
  /\ InRestore("mag")
  /\ mag' = CASE env.origMAG = "none"  -> mag
              [] env.origMAG = "unset" -> "false"
              [] OTHER                 -> env.origMAG
  /\ CleanupReturns("ok")
  /\ UNCHANGED <<obj, nextUid, sched, np, live, before, env, Others, bounds>>

Cleanup ==
  \/ GetOwned \/ DeleteOwned \/ DeletionError
  \/ RestoreError \/ RestoreScheduler \/ RestoreNetworkPolicy \/ RestoreSettles \/ RestoreMAG

-----------------------------------------------------------------------------
(* The cluster and its other users.                                        *)

\* The operator catches up; where nothing looks at policies or changes the
\* configuration it may as well do so earlier or later.
Reconcile ==
  /\ phase \notin {"setup", "delete"}
  /\ live # Wanted
  /\ live' = Wanted
  /\ UNCHANGED <<obj, nextUid, sched, np, mag, before, env, control, bounds>>

\* Others delete the object or put one of theirs in its place.  Specs do not look
\* at these objects, so that acting during them is acting after them.
OthersAct(t) ==
  /\ phase \in {"setup", "delete"}
  /\ external < MaxExternal
  /\ external' = external + 1
  /\ \/ obj[t].uid # 0 /\ obj' = [obj EXCEPT ![t] = Absent] /\ UNCHANGED nextUid
     \/ obj' = [obj EXCEPT ![t] = [uid |-> nextUid, mine |-> FALSE]] /\ nextUid' = nextUid + 1
  /\ UNCHANGED <<sched, np, mag, live, before, env, control, errors, resent>>

Finished == phase = "done" /\ UNCHANGED vars

Test == Setup \/ RunSpecs \/ Cleanup
Next == Test \/ Reconcile \/ (\E t \in Touched : OthersAct(t)) \/ Finished

Spec == Init /\ [][Next]_vars

-----------------------------------------------------------------------------
(* Properties.                                                             *)

\* What this run's Environment knows to be its own.
Left == {t \in Things : obj[t].mine /\ (t = "kueue" => env.kueueOwned)}

\* A deletion that failed or was refused does not stop the others: no more of
\* the run's objects are left than calls have failed (multicluster.go:584-713).
OneErrorOneObject ==
  phase \in {"restore", "done"} => Cardinality(Left) <= errors

\* When Cleanup has not reported an error of a deletion, nothing of the run is
\* left, however far Setup came and whichever answers were lost.
NilMeansDeleted ==
  phase \in {"restore", "done"} /\ ~failed => Left = {}

SameFlag(f, g) == f = g \/ {f, g} = {"unset", "false"}

\* The scheduler, spec.networkPolicy and the approval gate's flag are as before.
AsBefore ==
  /\ sched = "initial"
  /\ NetworkPolicyJSON(np) = NetworkPolicyJSON(before.np)
  /\ env.origMAG # "none" => SameFlag(mag, before.mag)

\* When restoreTektonConfig has succeeded and the snapshot had been completed,
\* the configuration is as it was, whichever specs ran, failed or left their
\* own cleanup undone, and whether deletions failed (multicluster.go:339-373).
SnapshotRestored ==
  restored = "ok" /\ env.complete => AsBefore
=============================================================================
