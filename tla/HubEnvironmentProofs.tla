------------------------ MODULE HubEnvironmentProofs ------------------------
(***************************************************************************)
(* The safety properties of HubEnvironment for any starting clusters, any  *)
(* objects that others touch, and any number of failures.                  *)
(*                                                                         *)
(* Deletions: of the objects Cleanup has passed, at most one is left per   *)
(* failed call, because an object that carries the run's labels also has   *)
(* the uid the Environment recorded, if it recorded one.                   *)
(* Restoration: the snapshot was taken while nothing had changed, and the  *)
(* Update that drops networkPolicy leaves exactly the state in which the   *)
(* following patch writes it back whole.                                   *)
(***************************************************************************)
EXTENDS HubEnvironment, FiniteSetTheorems, SequenceTheorems, TLAPS

\* Uids are drawn once; only what exists carries labels; an object of the run
\* has the uid that was recorded for it, and none is recorded before its turn.
UidInv ==
  /\ nextUid >= 1
  /\ \A t \in Things : obj[t].mine => obj[t].uid # 0
  /\ \A t \in Recorded : obj[t].mine => env.uid[t] \in {0, obj[t].uid}
  /\ phase = "setup" => /\ pos <= 6 => env.uid["kueue"] = 0
                        /\ pos <= 17 => env.uid["secret"] = 0
                        /\ pos <= 18 => env.uid["cluster"] = 0

\* What deleteOwned's Get has returned is forgotten with its turn.
SeenInv ==
  /\ seen < nextUid
  /\ phase # "delete" => seen = 0

Passed == {DeleteOrder[i] : i \in 1 .. (pos - 1)}

\* Of the objects that have had their turn, one is left per failed call.
PassedInv ==
  phase = "delete" => /\ Cardinality(Left \cap Passed) <= errors
                      /\ ~failed => Left \cap Passed = {}

\* The snapshot is of the cluster as it was before.
SnapshotInv ==
  /\ before \in Starts
  /\ phase = "setup" => sched = "initial" /\ np = before.np /\ mag = before.mag
  /\ env.origScheduler \in {"nil", "initial"}
  /\ env.complete => env.origNP = NetworkPolicyJSON(before.np)
  /\ env.origMAG \in {"none", before.mag}

\* What restoreTektonConfig has done so far.
RestoreInv ==
  /\ phase # "done" => restored = "pending"
  /\ phase = "restore" /\ pos >= 2 => sched = "initial"
  /\ phase = "restore" /\ pos = 2 => np = NothingStored
  /\ phase = "restore" /\ pos >= 3 /\ env.complete =>
       NetworkPolicyJSON(np) = NetworkPolicyJSON(before.np)

Environments ==
  [uid : [Recorded -> Nat], kueueOwned : BOOLEAN, origScheduler : Modes \cup {"nil"},
   origNP : Policies, origMAG : Flags \cup {"none"}, complete : BOOLEAN]

\* Where the test is: the next call is one of the script that is running.
ControlInv ==
  /\ env \in Environments
  /\ phase \in {"setup", "spec", "deferred", "between", "delete", "restore", "done"}
  /\ spec \in 0 .. 6 /\ pos \in Nat
  /\ deferred \in {"none", "enable", "remove"} /\ savedNP \in Policies
  /\ errors \in Nat /\ resent \in Nat /\ external \in Nat
  /\ phase = "setup" => pos \in 1 .. 19
  /\ phase = "spec" => spec \in 1 .. 6 /\ pos \in 1 .. Len(Specs[spec])
  /\ phase = "deferred" => deferred # "none" /\ pos \in 1 .. Len(Deferred[deferred])
  /\ phase = "delete" => pos \in 1 .. 9
  /\ phase = "restore" => pos \in 1 .. 4

\* The objects.
ObjectsInv ==
  /\ obj \in [Things -> [uid : 0 .. (nextUid - 1), mine : BOOLEAN]]
  /\ nextUid \in Nat /\ seen \in Nat /\ failed \in BOOLEAN
  /\ UidInv /\ SeenInv /\ PassedInv
  /\ OneErrorOneObject /\ NilMeansDeleted

\* The configuration.
ConfigInv ==
  /\ sched \in Modes /\ np \in Policies /\ mag \in Flags \cup {"none"}
  /\ live \subseteq {"scheduler", "hub", "custom"}
  /\ before \in Starting /\ restored \in {"pending", "ok", "error"}
  /\ SnapshotInv /\ RestoreInv /\ SnapshotRestored

\* The inductive invariant.
IInv == ControlInv /\ ObjectsInv /\ ConfigInv

-----------------------------------------------------------------------------
(* The scripts.                                                            *)

\* Where the objects stand in the script of Setup.
LEMMA SetupCalls ==
  /\ Len(SetupScript) = 19
  /\ \A p \in 1 .. 19 : /\ SetupScript[p] = "getKueue" <=> p = 5
                        /\ SetupScript[p] = "kueue" <=> p = 6
                        /\ SetupScript[p] = "secret" <=> p = 17
                        /\ SetupScript[p] = "cluster" <=> p = 18
BY DEF SetupScript

\* Cleanup has a turn for every object.
LEMMA DeleteOrderFacts ==
  /\ Len(DeleteOrder) = 9
  /\ \A p \in 1 .. 9 : DeleteOrder[p] \in Things
  /\ \A t \in Things : \E p \in 1 .. 9 : DeleteOrder[p] = t
<1>1. Len(DeleteOrder) = 9 /\ \A p \in 1 .. 9 : DeleteOrder[p] \in Things
  BY DEF DeleteOrder, Things, Recorded, RBAC
<1>2. ASSUME NEW t \in Things PROVE \E p \in 1 .. 9 : DeleteOrder[p] = t
  <2>1. /\ DeleteOrder[1] = "secret" /\ DeleteOrder[2] = "cluster" /\ DeleteOrder[3] = "kueue"
        /\ DeleteOrder[4] = "crb" /\ DeleteOrder[5] = "rb" /\ DeleteOrder[6] = "crole"
        /\ DeleteOrder[7] = "role" /\ DeleteOrder[8] = "sa" /\ DeleteOrder[9] = "ns"
    BY DEF DeleteOrder
  <2>2. t \in {"kueue", "secret", "cluster", "crole", "crb", "role", "rb", "ns", "sa"}
    BY DEF Things, Recorded, RBAC
  <2> QED BY <2>1, <2>2
<1> QED BY <1>1, <1>2

\* There are finitely many objects.
LEMMA ThingsFinite == IsFiniteSet(Things)
<1>1. ASSUME NEW a, NEW b, NEW c PROVE IsFiniteSet({a, b, c})
  <2>1. IsFiniteSet({a} \cup {b})
    BY FS_Singleton, FS_AddElement
  <2>2. IsFiniteSet(({a} \cup {b}) \cup {c})
    BY <2>1, FS_AddElement
  <2>3. {a, b, c} = ({a} \cup {b}) \cup {c}
    OBVIOUS
  <2> QED BY <2>2, <2>3
<1>2. IsFiniteSet({"kueue", "secret", "cluster"} \cup {"crole", "crb", "role"})
  BY <1>1, FS_Union
<1>3. IsFiniteSet(({"kueue", "secret", "cluster"} \cup {"crole", "crb", "role"})
                   \cup {"rb", "ns", "sa"})
  BY <1>1, <1>2, FS_Union
<1>4. Things = ({"kueue", "secret", "cluster"} \cup {"crole", "crb", "role"})
               \cup {"rb", "ns", "sa"}
  BY DEF Things, Recorded, RBAC
<1> QED BY <1>3, <1>4

\* What the specs and their cleanups call, with which arguments.
ModeCalls   == {<<"mode", m>> : m \in Modes}
FlagCalls   == {<<c, f>> : c \in {"disable", "disableMAG"}, f \in Flags}
PolicyCalls == {<<c, p>> : c \in {"present", "absent"}, p \in {"scheduler", "hub", "custom"}}
DeferCalls  == {<<"defer", d>> : d \in {"enable", "remove"}}
PlainCalls  ==
  {<<c, "">> : c \in {"settle", "checkName", "saveNP", "addCustom", "propagated", "restoreNP"}}
Call == ModeCalls \cup FlagCalls \cup PolicyCalls \cup DeferCalls \cup PlainCalls

Scripts == {s \in Seq(Call) : Len(s) > 0}

\* Scripts one after the other are a script.
LEMMA Appended == ASSUME NEW s \in Scripts, NEW t \in Scripts PROVE s \o t \in Scripts
BY ConcatProperties DEF Scripts

\* Calls in a row are a script.
LEMMA TwoInARow == ASSUME NEW a \in Call, NEW b \in Call PROVE <<a, b>> \in Scripts
BY DEF Scripts

LEMMA InARow ==
  ASSUME NEW a \in Call, NEW b \in Call, NEW c \in Call, NEW d \in Call, NEW e \in Call,
         NEW f \in Call
  PROVE  /\ <<a, b, c, d, e>> \in Scripts
         /\ <<a, b, c, d, e, f>> \in Scripts
BY DEF Scripts

LEMMA SpecScripts ==
  /\ Len(Specs) = 6
  /\ \A s \in 1 .. 6 : Specs[s] \in Scripts
  /\ \A d \in {"enable", "remove"} : Deferred[d] \in Scripts
<1>1. \A m \in Modes : Mode(m) \in Scripts
  BY DEF Mode, Scripts, Call, ModeCalls, FlagCalls, PolicyCalls, PlainCalls
<1>2. \A h \in {"present", "absent"} : Expected(h) \in Scripts
  BY DEF Expected, Scripts, Call, ModeCalls, FlagCalls, PolicyCalls, PlainCalls
<1>3. \A f \in Flags : Disable(f) \in Scripts
  BY DEF Disable, Scripts, Call, ModeCalls, FlagCalls, PolicyCalls, PlainCalls
<1>4. /\ <<"settle", "">> \in Call /\ <<"checkName", "">> \in Call
      /\ <<"saveNP", "">> \in Call /\ <<"addCustom", "">> \in Call
      /\ <<"propagated", "">> \in Call /\ <<"restoreNP", "">> \in Call
  BY DEF Call, PlainCalls
<1>5. /\ \A c \in {"present", "absent"}, p \in {"scheduler", "hub", "custom"} : <<c, p>> \in Call
      /\ \A d \in {"enable", "remove"} : <<"defer", d>> \in Call
      /\ <<"disable", "true">> \in Call
      /\ <<"present", "custom">> \in Call /\ <<"absent", "custom">> \in Call
  BY DEF Call, FlagCalls, PolicyCalls, DeferCalls, Flags
<1>6. /\ Specs[1] \in Scripts /\ Specs[2] \in Scripts
      /\ Specs[3] \in Scripts /\ Specs[4] \in Scripts
  BY <1>1, <1>2, Appended DEF Specs, Modes
<1>7. Specs[5] \in Scripts
  <2>1. /\ << <<"absent", "scheduler">>, <<"absent", "hub">> >> \in Scripts
        /\ << <<"defer", "enable">> >> \in Scripts
    BY <1>5 DEF Scripts
  <2>2. /\ Mode("hub") \in Scripts /\ Expected("present") \in Scripts
        /\ Disable("true") \in Scripts /\ Disable("false") \in Scripts
    BY <1>1, <1>2, <1>3 DEF Modes, Flags
  <2> HIDE DEF Scripts, Mode, Expected, Disable
  <2> QED BY <2>1, <2>2, Appended DEF Specs
<1>8. Specs[6] \in Scripts
  <2>1. << <<"checkName", "">>, <<"saveNP", "">>, <<"addCustom", "">>,
           <<"settle", "">>, <<"present", "custom">> >> \in Scripts
    BY <1>4, <1>5, InARow
  <2>2. << <<"propagated", "">>, <<"defer", "remove">> >> \in Scripts
    <3>1. <<"defer", "remove">> \in Call
      BY <1>5
    <3> QED BY <1>4, <3>1, TwoInARow
  <2>3. Mode("hub") \in Scripts /\ Expected("present") \in Scripts
    BY <1>1, <1>2 DEF Modes
  <2> QED BY <2>1, <2>2, <2>3, Appended DEF Specs
<1>9. Deferred["enable"] \in Scripts
  BY <1>3 DEF Deferred, Flags
<1>10. Deferred["remove"] \in Scripts
  <2>1. << <<"disable", "true">>, <<"settle", "">>, <<"absent", "custom">>,
           <<"restoreNP", "">>, <<"settle", "">>, <<"absent", "custom">> >> \in Scripts
    BY <1>4, <1>5, InARow
  <2> QED BY <2>1 DEF Deferred
<1>11. Len(Specs) = 6
  BY DEF Specs
<1> QED BY <1>6, <1>7, <1>8, <1>9, <1>10, <1>11

-----------------------------------------------------------------------------
(* The configuration of networkPolicy.                                     *)

\* What is read, stored and written back are policies.
LEMMA PolicyTypes ==
  ASSUME np \in Policies, before \in Starting
  PROVE  /\ NoNP \in Policies /\ NothingStored \in Policies
         /\ \A n \in Policies : NetworkPolicyJSON(n) \in Policies
         /\ \A n \in Policies : RestoreNetworkPolicyJSON(n) \in Policies
<1>1. NoNP \in Policies
  BY DEF NoNP, Policies, Flags
<1>2. NothingStored \in Policies
  BY DEF NothingStored, NoNP, Policies, Flags, Starting
<1>3. \A n \in Policies : NetworkPolicyJSON(n) \in Policies
  BY <1>1 DEF NetworkPolicyJSON
<1>4. ASSUME NEW n \in Policies PROVE RestoreNetworkPolicyJSON(n) \in Policies
  <2>1. CASE n = NoNP
    BY <1>2, <2>1 DEF RestoreNetworkPolicyJSON
  <2>2. CASE n # NoNP
    <3>1. n.disabled \in Flags /\ n.policies \in SUBSET {"own", "custom"}
      BY DEF Policies
    <3>2. np.disabled \in Flags /\ np.policies \in SUBSET {"own", "custom"}
      BY DEF Policies
    <3>3. (IF n.disabled = "unset" THEN np.disabled ELSE n.disabled) \in Flags
      BY <3>1, <3>2
    <3>4. np.policies \cup n.policies \in SUBSET {"own", "custom"}
      BY <3>1, <3>2
    <3> QED BY <2>2, <3>3, <3>4 DEF RestoreNetworkPolicyJSON, Policies
  <2> QED BY <2>1, <2>2
<1> QED BY <1>1, <1>2, <1>3, <1>4

\* Update leaves nothing of networkPolicy, or an empty one; the patch of the
\* snapshot then gives back what was read.
LEMMA WrittenBackWhole ==
  ASSUME before \in Starts, NEW n, n = NetworkPolicyJSON(before.np), np = NothingStored
  PROVE  NetworkPolicyJSON(RestoreNetworkPolicyJSON(n)) = n
<1>1. CASE n = NoNP
  BY <1>1 DEF RestoreNetworkPolicyJSON, NetworkPolicyJSON, NothingStored, NoNP
<1>2. CASE n # NoNP
  <2>1. before.np \in Policies /\ before.np.present
    BY <1>2, StartAssumption DEF Starting, NetworkPolicyJSON, NoNP
  <2>2. n = before.np /\ ~(n.disabled = "unset" /\ n.policies = {})
    BY <1>2 DEF NetworkPolicyJSON
  <2>3. np.disabled = "unset" /\ np.policies = {}
    BY DEF NothingStored, NoNP
  <2>4. RestoreNetworkPolicyJSON(n) =
          [present |-> TRUE, disabled |-> n.disabled, policies |-> n.policies]
    BY <1>2, <2>3 DEF RestoreNetworkPolicyJSON
  <2>5. n = [present |-> TRUE, disabled |-> n.disabled, policies |-> n.policies]
    BY <2>1, <2>2 DEF Policies
  <2> QED BY <2>2, <2>4, <2>5 DEF NetworkPolicyJSON
<1> QED BY <1>1, <1>2

-----------------------------------------------------------------------------
\* Initially nothing of the run exists.
LEMMA InitInv == Init => IInv
<1> SUFFICES ASSUME Init PROVE IInv
  OBVIOUS
<1>1. before \in Starts /\ before \in Starting
  BY StartAssumption DEF Init
<1>2. NoNP \in Policies
  BY DEF NoNP, Policies, Flags
<1>3. ControlInv
  <2>1. env \in Environments
    BY <1>2 DEF Init, Environments, Modes
  <2> QED BY <2>1, <1>2 DEF Init, ControlInv
<1>4. ObjectsInv
  <2>1. \A t \in Things : /\ obj[t].mine = FALSE /\ obj[t].uid \in 0 .. 1
                          /\ obj[t] \in [uid : 0 .. 1, mine : BOOLEAN]
    <3>1. /\ Absent \in [uid : 0 .. 1, mine : BOOLEAN]
          /\ Absent.mine = FALSE /\ Absent.uid \in 0 .. 1
      BY DEF Absent
    <3>2. /\ [Absent EXCEPT !.uid = 1] \in [uid : 0 .. 1, mine : BOOLEAN]
          /\ [Absent EXCEPT !.uid = 1].mine = FALSE /\ [Absent EXCEPT !.uid = 1].uid \in 0 .. 1
      <4> 1 \in 0 .. 1
        OBVIOUS
      <4> QED BY <3>1
    <3>3. \A t \in Things : obj[t] \in {Absent, [Absent EXCEPT !.uid = 1]}
      BY DEF Init
    <3> QED BY <3>1, <3>2, <3>3
  <2>2. obj \in [Things -> [uid : 0 .. (nextUid - 1), mine : BOOLEAN]]
    BY <2>1 DEF Init
  <2>3. UidInv
    BY <2>1 DEF Init, UidInv, Things, Recorded
  <2>4. SeenInv /\ PassedInv /\ OneErrorOneObject /\ NilMeansDeleted
    BY DEF Init, SeenInv, PassedInv, OneErrorOneObject, NilMeansDeleted
  <2> QED BY <2>2, <2>3, <2>4 DEF ObjectsInv, Init
<1>5. ConfigInv
  <2>1. SnapshotInv
    BY <1>1 DEF Init, SnapshotInv
  <2>2. RestoreInv /\ SnapshotRestored
    BY DEF Init, RestoreInv, SnapshotRestored
  <2>3. sched \in Modes /\ np \in Policies /\ mag \in Flags \cup {"none"}
    BY <1>1 DEF Init, Starting, Modes
  <2>4. live \subseteq {"scheduler", "hub", "custom"}
    BY DEF Init
  <2>5. restored \in {"pending", "ok", "error"}
    BY DEF Init
  <2> QED BY <1>1, <2>1, <2>2, <2>3, <2>4, <2>5 DEF ConfigInv
<1> QED BY <1>3, <1>4, <1>5 DEF IInv

-----------------------------------------------------------------------------
(* What a step of one part leaves alone in the others.                     *)

\* Outside deleteOwnedResources the objects' part holds while they, and what the
\* Environment knows of them, stay as they are.
LEMMA ObjectsKept ==
  ASSUME IInv, UNCHANGED <<obj, nextUid, seen, failed>>,
         env'.uid = env.uid, env'.kueueOwned = env.kueueOwned,
         errors' \in Nat, errors' >= errors,
         phase # "delete",
         phase' = "setup" => phase = "setup" /\ pos' \in Nat /\ pos' >= pos,
         phase' = "delete" => pos' = 1,
         phase' \in {"restore", "done"} => phase \in {"restore", "done"}
  PROVE  ObjectsInv'
<1> USE DEF IInv
<1>1. UidInv'
  BY DEF ObjectsInv, ControlInv, UidInv
<1>2. seen = 0
  BY DEF ObjectsInv, SeenInv
<1>3. SeenInv'
  BY <1>2 DEF ObjectsInv, SeenInv
<1>4. Left' = Left
  BY DEF Left
<1>5. PassedInv'
  <2>1. SUFFICES ASSUME phase' = "delete" PROVE Passed' = {}
    <3>1. CASE phase' = "delete"
      <4>1. (Left \cap Passed)' = {}
        BY <2>1, <3>1
      <4>2. Cardinality({}) = 0
        BY FS_EmptySet
      <4>3. errors' \in Nat
        OBVIOUS
      <4> QED BY <4>1, <4>2, <4>3 DEF PassedInv
    <3> QED BY <3>1 DEF PassedInv
  <2> QED BY <2>1 DEF Passed
<1>6. OneErrorOneObject'
  <2>1. SUFFICES ASSUME phase' \in {"restore", "done"} PROVE Cardinality(Left)' <= errors'
    BY DEF OneErrorOneObject
  <2>2. Cardinality(Left) <= errors /\ errors \in Nat
    BY <2>1 DEF ObjectsInv, OneErrorOneObject, ControlInv
  <2>3. Cardinality(Left) \in Nat
    <3>1. Left \in SUBSET Things
      BY DEF Left
    <3> QED BY <3>1, ThingsFinite, FS_Subset, FS_CardinalityType
  <2> QED BY <1>4, <2>2, <2>3
<1>7. NilMeansDeleted'
  BY <1>4 DEF ObjectsInv, NilMeansDeleted
<1> QED BY <1>1, <1>3, <1>5, <1>6, <1>7 DEF ObjectsInv

\* Setup leaves the configuration alone, and its readings are right.
LEMMA ConfigInSetup ==
  ASSUME IInv, phase = "setup", UNCHANGED <<sched, np, mag, live, before, restored>>,
         phase' \in {"setup", "between", "delete"},
         env'.origScheduler \in {"nil", "initial"},
         env'.complete => env'.origNP = NetworkPolicyJSON(before.np),
         env'.origMAG \in {"none", before.mag}
  PROVE  ConfigInv'
<1>1. SnapshotInv'
  BY DEF IInv, ConfigInv, SnapshotInv, NetworkPolicyJSON
<1>2. RestoreInv' /\ SnapshotRestored'
  BY DEF IInv, ConfigInv, RestoreInv, SnapshotRestored
<1> QED BY <1>1, <1>2 DEF IInv, ConfigInv

\* The specs may set anything; the snapshot stays.
LEMMA ConfigInSpecs ==
  ASSUME IInv, phase \in {"between", "spec", "deferred"},
         phase' \in {"between", "spec", "deferred", "delete"},
         sched' \in Modes, np' \in Policies, mag' \in Flags \cup {"none"},
         UNCHANGED <<live, before, env, restored>>
  PROVE  ConfigInv'
<1>1. SnapshotInv'
  BY DEF IInv, ConfigInv, SnapshotInv, NetworkPolicyJSON
<1>2. RestoreInv' /\ SnapshotRestored'
  BY DEF IInv, ConfigInv, RestoreInv, SnapshotRestored
<1> QED BY <1>1, <1>2 DEF IInv, ConfigInv

\* Deleting leaves the configuration alone.
LEMMA ConfigInDelete ==
  ASSUME IInv, phase = "delete", phase' \in {"delete", "restore"}, phase' = "restore" => pos' = 1,
         UNCHANGED <<sched, np, mag, live, before, env, restored>>
  PROVE  ConfigInv'
<1>1. SnapshotInv'
  BY DEF IInv, ConfigInv, SnapshotInv, NetworkPolicyJSON
<1>2. RestoreInv' /\ SnapshotRestored'
  BY DEF IInv, ConfigInv, RestoreInv, SnapshotRestored
<1> QED BY <1>1, <1>2 DEF IInv, ConfigInv

-----------------------------------------------------------------------------
(* The steps of Setup.                                                     *)

\* Setup goes on, ends or gives up.
LEMMA SetupControl ==
  ASSUME IInv, phase = "setup", Advance \/ BeginCleanup, env' \in Environments,
         errors' \in Nat, resent' \in Nat, external' \in Nat
  PROVE  /\ ControlInv'
         /\ phase' \in {"setup", "between", "delete"} /\ UNCHANGED <<seen, failed, restored>>
         /\ phase' = "setup" => pos' \in Nat /\ pos' >= pos
         /\ phase' = "setup" => pos' = pos + 1 /\ Advance
         /\ phase' = "delete" => pos' = 1
<1>1. pos \in 1 .. 19 /\ Len(SetupScript) = 19
  BY SetupCalls DEF IInv, ControlInv
<1>2. UNCHANGED Idle /\ UNCHANGED <<seen, failed, restored>>
  BY DEF Advance, BeginCleanup, Idle
<1>3. CASE Advance
  <2>1. \/ pos < 19 /\ pos' = pos + 1 /\ phase' = "setup"
        \/ pos' = 1 /\ phase' = "between"
    BY <1>1, <1>3 DEF Advance
  <2>2. spec' = spec /\ deferred' = deferred /\ savedNP' = savedNP
    BY <1>2 DEF Idle
  <2>3. ControlInv'
    <3>1. CASE pos < 19 /\ pos' = pos + 1 /\ phase' = "setup"
      BY <1>1, <2>2, <3>1 DEF IInv, ControlInv
    <3>2. CASE pos' = 1 /\ phase' = "between"
      BY <2>2, <3>2 DEF IInv, ControlInv
    <3> QED BY <2>1, <3>1, <3>2
  <2> QED BY <1>1, <1>2, <1>3, <2>1, <2>3
<1>4. CASE BeginCleanup
  <2>1. phase' = "delete" /\ pos' = 1
    BY <1>4 DEF BeginCleanup
  <2>2. ControlInv'
    BY <1>2, <2>1 DEF IInv, ControlInv, Idle
  <2> QED BY <1>2, <2>1, <2>2
<1> QED BY <1>3, <1>4

\* A call that fails; a call that leaves nothing behind.
LEMMA QuietSetup ==
  ASSUME IInv, SetupError \/ SetupReads \/ SetupWaits PROVE IInv'
<1>1. phase = "setup" /\ (Advance \/ BeginCleanup) /\ UNCHANGED <<cluster, env>>
  BY DEF SetupError, SetupReads, SetupWaits, InSetup
<1>2. errors' \in Nat /\ resent' \in Nat /\ external' \in Nat /\ errors' >= errors
  BY DEF IInv, ControlInv, SetupError, SetupReads, SetupWaits, Error, bounds
<1>3. env' \in Environments
  BY <1>1 DEF IInv, ControlInv
<1>4. /\ ControlInv' /\ phase' \in {"setup", "between", "delete"} /\ UNCHANGED <<seen, failed, restored>>
      /\ phase' = "setup" => pos' \in Nat /\ pos' >= pos
      /\ phase' = "delete" => pos' = 1
  BY <1>1, <1>2, <1>3, SetupControl
<1>5. ObjectsInv'
  BY <1>1, <1>2, <1>4, ObjectsKept DEF cluster
<1>6. ConfigInv'
  BY <1>1, <1>4, ConfigInSetup DEF cluster, IInv, ConfigInv, SnapshotInv
<1> QED BY <1>4, <1>5, <1>6 DEF IInv

\* The snapshot is taken of a configuration nothing has changed.
LEMMA SnapshotSteps ==
  ASSUME IInv, ReadScheduler \/ ReadNetworkPolicy \/ ReadMAG PROVE IInv'
<1>1. phase = "setup" /\ Advance /\ UNCHANGED <<cluster>>
  BY DEF ReadScheduler, ReadNetworkPolicy, ReadMAG, InSetup
<1>2. errors' \in Nat /\ resent' \in Nat /\ external' \in Nat /\ errors' >= errors
  BY DEF IInv, ControlInv, ReadScheduler, ReadNetworkPolicy, ReadMAG, Error, bounds
<1>3. sched = "initial" /\ np = before.np /\ mag = before.mag
  BY <1>1 DEF IInv, ConfigInv, SnapshotInv
<1>4. env \in Environments /\ np \in Policies /\ before \in Starting /\ mag \in Flags \cup {"none"}
  BY DEF IInv, ControlInv, ConfigInv
<1>5. NetworkPolicyJSON(np) \in Policies
  BY <1>4, PolicyTypes
<1>6. /\ env' \in Environments
      /\ env'.uid = env.uid /\ env'.kueueOwned = env.kueueOwned
      /\ env'.origScheduler \in {"nil", "initial"}
      /\ env'.complete => env'.origNP = NetworkPolicyJSON(before.np)
      /\ env'.origMAG \in {"none", before.mag}
  <2>0. /\ env.origScheduler \in {"nil", "initial"}
        /\ env.complete => env.origNP = NetworkPolicyJSON(before.np)
        /\ env.origMAG \in {"none", before.mag}
    BY DEF IInv, ConfigInv, SnapshotInv
  <2>1. CASE ReadScheduler
    BY <2>0, <2>1, <1>3, <1>4 DEF ReadScheduler, Environments, Modes
  <2>2. CASE ReadNetworkPolicy
    BY <2>0, <2>2, <1>3, <1>4, <1>5 DEF ReadNetworkPolicy, Environments
  <2>3. CASE ReadMAG
    BY <2>0, <2>3, <1>3, <1>4 DEF ReadMAG, Environments
  <2> QED BY <2>1, <2>2, <2>3
<1>7. /\ ControlInv' /\ phase' \in {"setup", "between", "delete"} /\ UNCHANGED <<seen, failed, restored>>
      /\ phase' = "setup" => pos' \in Nat /\ pos' >= pos
      /\ phase' = "delete" => pos' = 1
  BY <1>1, <1>2, <1>6, SetupControl
<1>8. ObjectsInv'
  BY <1>1, <1>2, <1>6, <1>7, ObjectsKept DEF cluster
<1>9. ConfigInv'
  BY <1>1, <1>6, <1>7, ConfigInSetup DEF cluster
<1> QED BY <1>7, <1>8, <1>9 DEF IInv

\* An existing Kueue is left out.
LEMMA GetKueueStep == ASSUME IInv, GetKueue PROVE IInv'
<1>1. phase = "setup" /\ pos = 5
  BY SetupCalls DEF IInv, ControlInv, GetKueue, InSetup
<1>2. phase' = "setup" /\ pos' \in {6, 7} /\ UNCHANGED <<cluster, env, Idle, bounds>>
  BY <1>1 DEF GetKueue
<1>3. ControlInv'
  BY <1>1, <1>2 DEF IInv, ControlInv, Idle, bounds
<1>4. ObjectsInv'
  <2>1. errors' \in Nat /\ errors' >= errors
    BY <1>2 DEF IInv, ControlInv, bounds
  <2> QED BY <1>1, <1>2, <2>1, ObjectsKept DEF cluster, Idle
<1>5. ConfigInv'
  BY <1>1, <1>2, ConfigInSetup DEF cluster, Idle, IInv, ConfigInv, SnapshotInv
<1> QED BY <1>3, <1>4, <1>5 DEF IInv

\* What Record notes, and what it keeps.
LEMMA RecordFacts ==
  ASSUME env \in Environments, NEW t \in Things, NEW u \in Nat
  PROVE  /\ Record(t, u) \in Environments
         /\ \A r \in Recorded : Record(t, u).uid[r] = IF r = t THEN u ELSE env.uid[r]
         /\ Record(t, u).origScheduler = env.origScheduler
         /\ Record(t, u).origNP = env.origNP
         /\ Record(t, u).origMAG = env.origMAG
         /\ Record(t, u).complete = env.complete
<1> DEFINE uids == [r \in Recorded |-> IF r = t THEN u ELSE env.uid[r]]
           owned == env.kueueOwned \/ t = "kueue"
<1>1. uids \in [Recorded -> Nat]
  BY DEF Environments
<1>2. owned \in BOOLEAN
  OBVIOUS
<1>3. Record(t, u) = [env EXCEPT !.uid = uids, !.kueueOwned = owned]
  BY DEF Record, Environments
<1> HIDE DEF owned
<1>4. Record(t, u).uid = uids
  BY <1>3 DEF Environments
<1> HIDE DEF uids
<1>5. /\ Record(t, u) \in Environments
      /\ Record(t, u).origScheduler = env.origScheduler
      /\ Record(t, u).origNP = env.origNP
      /\ Record(t, u).origMAG = env.origMAG
      /\ Record(t, u).complete = env.complete
  BY <1>1, <1>2, <1>3 DEF Environments
<1>6. \A r \in Recorded : uids[r] = IF r = t THEN u ELSE env.uid[r]
  BY DEF uids
<1> QED BY <1>4, <1>5, <1>6

\* Where Setup stands when it creates a thing whose uid it records.
LEMMA TurnOf ==
  ASSUME IInv, NEW t \in Things, InSetup(t)
  PROVE  /\ phase = "setup" /\ pos \in 1 .. 19
         /\ t = "kueue" => pos = 6
         /\ t = "secret" => pos = 17
         /\ t = "cluster" => pos = 18
         /\ t \in Recorded => env.uid[t] = 0
<1>1. phase = "setup" /\ pos \in 1 .. 19 /\ SetupScript[pos] = t
  BY DEF InSetup, IInv, ControlInv
<1>2. /\ t = "kueue" => pos = 6
      /\ t = "secret" => pos = 17
      /\ t = "cluster" => pos = 18
  BY <1>1, SetupCalls
<1>3. /\ pos <= 6 => env.uid["kueue"] = 0
      /\ pos <= 17 => env.uid["secret"] = 0
      /\ pos <= 18 => env.uid["cluster"] = 0
  BY <1>1 DEF IInv, ObjectsInv, UidInv
<1>4. t \in Recorded => env.uid[t] = 0
  BY <1>2, <1>3 DEF Recorded
<1> QED BY <1>1, <1>2, <1>4

\* No invariant of the objects but that of the uids speaks of Setup.
LEMMA ObjectsInSetup ==
  ASSUME IInv, phase = "setup", phase' \in {"setup", "between"},
         obj' \in [Things -> [uid : 0 .. (nextUid' - 1), mine : BOOLEAN]],
         nextUid' \in Nat, nextUid' >= nextUid, UidInv',
         UNCHANGED <<seen, failed>>
  PROVE  ObjectsInv'
<1>1. seen = 0 /\ failed \in BOOLEAN
  BY DEF IInv, ObjectsInv, SeenInv
<1>2. SeenInv'
  BY <1>1 DEF IInv, ObjectsInv, UidInv, SeenInv
<1>3. PassedInv' /\ OneErrorOneObject' /\ NilMeansDeleted'
  BY DEF PassedInv, OneErrorOneObject, NilMeansDeleted
<1> QED BY <1>1, <1>2, <1>3 DEF ObjectsInv

\* A stored object is the run's, under a fresh uid.
LEMMA StoredUids ==
  ASSUME IInv, NEW t \in Things, InSetup(t), Stored(t),
         \/ env' = Record(t, nextUid) /\ phase' \in {"setup", "between"}
            /\ (phase' = "setup" => pos' = pos + 1)
         \/ UNCHANGED <<env, phase, pos>>
  PROVE  /\ obj' \in [Things -> [uid : 0 .. (nextUid' - 1), mine : BOOLEAN]]
         /\ nextUid' \in Nat /\ nextUid' >= nextUid
         /\ UidInv'
<1>1. nextUid \in Nat /\ nextUid >= 1 /\ nextUid' = nextUid + 1
  BY DEF IInv, ObjectsInv, UidInv, Stored
<1>2. /\ obj'[t] = [uid |-> nextUid, mine |-> TRUE]
      /\ \A x \in Things \ {t} : obj'[x] = obj[x]
      /\ DOMAIN obj' = Things /\ obj' = [x \in Things |-> obj'[x]]
  BY DEF IInv, ObjectsInv, Stored
<1>3. \A x \in Things : /\ obj[x] \in [uid : 0 .. (nextUid - 1), mine : BOOLEAN]
                        /\ obj[x].mine => obj[x].uid # 0
  BY DEF IInv, ObjectsInv, UidInv
<1>4. \A x \in Things : obj'[x] \in [uid : 0 .. nextUid, mine : BOOLEAN]
  <2>1. nextUid \in 0 .. nextUid /\ 0 .. (nextUid - 1) \subseteq 0 .. nextUid
    BY <1>1
  <2>2. obj'[t] \in [uid : 0 .. nextUid, mine : BOOLEAN]
    BY <1>2, <2>1
  <2> QED BY <1>2, <1>3, <2>1, <2>2
<1>5. obj' \in [Things -> [uid : 0 .. (nextUid' - 1), mine : BOOLEAN]]
  <2>1. nextUid' - 1 = nextUid
    BY <1>1
  <2> QED BY <1>2, <1>4, <2>1
<1>6. \A x \in Things : obj'[x].mine => obj'[x].uid # 0
  BY <1>1, <1>2, <1>3
<1>7. \A r \in Recorded : /\ r # t => env'.uid[r] = env.uid[r]
                          /\ r = t => env'.uid[r] \in {0, nextUid}
  <2>1. t \in Recorded => env.uid[t] = 0
    BY TurnOf
  <2>2. CASE env' = Record(t, nextUid) /\ phase' \in {"setup", "between"}
            /\ (phase' = "setup" => pos' = pos + 1)
    BY <1>1, <2>2, RecordFacts DEF IInv, ControlInv
  <2>3. CASE UNCHANGED <<env, phase, pos>>
    BY <2>1, <2>3
  <2> QED BY <2>2, <2>3
<1>8. \A r \in Recorded : obj'[r].mine => env'.uid[r] \in {0, obj'[r].uid}
  <2> TAKE r \in Recorded
  <2>0. r \in Things
    BY DEF Things
  <2>1. CASE r = t
    <3>1. obj'[r].uid = nextUid
      BY <1>2, <2>1
    <3> QED BY <1>7, <2>1, <3>1
  <2>2. CASE r # t
    <3>1. obj'[r] = obj[r] /\ env'.uid[r] = env.uid[r]
      BY <1>2, <1>7, <2>0, <2>2
    <3>2. obj[r].mine => env.uid[r] \in {0, obj[r].uid}
      BY DEF IInv, ObjectsInv, UidInv
    <3> QED BY <3>1, <3>2
  <2> QED BY <2>1, <2>2
<1>9. phase' = "setup" => /\ pos' <= 6 => env'.uid["kueue"] = 0
                          /\ pos' <= 17 => env'.uid["secret"] = 0
                          /\ pos' <= 18 => env'.uid["cluster"] = 0
  <2>1. /\ phase = "setup" /\ pos \in 1 .. 19
        /\ t = "kueue" => pos = 6
        /\ t = "secret" => pos = 17
        /\ t = "cluster" => pos = 18
    BY TurnOf
  <2>2. /\ pos <= 6 => env.uid["kueue"] = 0
        /\ pos <= 17 => env.uid["secret"] = 0
        /\ pos <= 18 => env.uid["cluster"] = 0
    BY <2>1 DEF IInv, ObjectsInv, UidInv
  <2>3. "kueue" \in Recorded /\ "secret" \in Recorded /\ "cluster" \in Recorded
    BY DEF Recorded
  <2>4. CASE phase' = "setup" /\ pos' = pos + 1
    BY <1>7, <2>1, <2>2, <2>3, <2>4
  <2>5. CASE UNCHANGED <<env, phase, pos>>
    BY <2>2, <2>5
  <2> QED BY <2>4, <2>5
<1>10. UidInv'
  <2>1. nextUid' >= 1
    BY <1>1
  <2> QED BY <2>1, <1>6, <1>8, <1>9 DEF UidInv
<1> QED BY <1>1, <1>5, <1>10

LEMMA CreateStep == ASSUME IInv, NEW t \in Things, Create(t) PROVE IInv'
<1>1. /\ phase = "setup" /\ InSetup(t) /\ Stored(t) /\ Advance
      /\ env' = Record(t, nextUid)
      /\ UNCHANGED <<sched, np, mag, live, before, bounds>>
  BY DEF Create, InSetup
<1>2. env' \in Environments
  BY <1>1, RecordFacts DEF IInv, ControlInv, ObjectsInv
<1>3. errors' \in Nat /\ resent' \in Nat /\ external' \in Nat
  BY <1>1 DEF IInv, ControlInv, bounds
<1>4. /\ ControlInv' /\ UNCHANGED <<seen, failed, restored>>
      /\ phase' = "setup" => pos' = pos + 1
  BY <1>1, <1>2, <1>3, SetupControl
<1>5. phase' \in {"setup", "between"}
  BY <1>1 DEF Advance
<1>6. ObjectsInv'
  BY <1>1, <1>4, <1>5, StoredUids, ObjectsInSetup
<1>7. ConfigInv'
  <2>1. /\ env'.origScheduler = env.origScheduler /\ env'.origNP = env.origNP
        /\ env'.origMAG = env.origMAG /\ env'.complete = env.complete
    BY <1>1, RecordFacts DEF IInv, ControlInv, ObjectsInv
  <2>2. /\ env.origScheduler \in {"nil", "initial"}
        /\ env.complete => env.origNP = NetworkPolicyJSON(before.np)
        /\ env.origMAG \in {"none", before.mag}
    BY DEF IInv, ConfigInv, SnapshotInv
  <2> QED BY <1>1, <1>4, <1>5, <2>1, <2>2, ConfigInSetup
<1> QED BY <1>4, <1>6, <1>7 DEF IInv

LEMMA CreateUnseenStep == ASSUME IInv, NEW t \in Things, CreateUnseen(t) PROVE IInv'
<1>1. /\ phase = "setup" /\ InSetup(t) /\ Stored(t) /\ resent' = resent + 1
      /\ UNCHANGED <<sched, np, mag, live, before, env, control, errors, external>>
  BY DEF CreateUnseen, InSetup
<1>2. ControlInv'
  BY <1>1 DEF IInv, ControlInv, control
<1>3. ObjectsInv'
  BY <1>1, StoredUids, ObjectsInSetup DEF control
<1>4. ConfigInv'
  BY <1>1, ConfigInSetup DEF control, IInv, ConfigInv, SnapshotInv
<1> QED BY <1>2, <1>3, <1>4 DEF IInv

\* What exists is adopted or left alone.
LEMMA CreateExistsStep == ASSUME IInv, NEW t \in Things, CreateExists(t) PROVE IInv'
<1>1. /\ phase = "setup" /\ InSetup(t) /\ obj[t].uid # 0
      /\ UNCHANGED <<cluster, bounds>>
  BY DEF CreateExists, InSetup
<1>2. errors' \in Nat /\ resent' \in Nat /\ external' \in Nat /\ errors' >= errors
  BY <1>1 DEF IInv, ControlInv, bounds
<1>3. obj[t].uid \in Nat
  BY DEF IInv, ObjectsInv
<1>4. CASE ~Adopted(t)
  <2>1. UNCHANGED env /\ BeginCleanup
    BY <1>4 DEF CreateExists
  <2>2. /\ ControlInv' /\ phase' \in {"setup", "between", "delete"}
        /\ UNCHANGED <<seen, failed, restored>>
        /\ phase' = "setup" => pos' \in Nat /\ pos' >= pos
        /\ phase' = "delete" => pos' = 1
    BY <1>1, <1>2, <2>1, SetupControl DEF IInv, ControlInv
  <2>3. ObjectsInv'
    BY <1>1, <1>2, <2>1, <2>2, ObjectsKept DEF cluster
  <2>4. ConfigInv'
    BY <1>1, <2>1, <2>2, ConfigInSetup DEF cluster, IInv, ConfigInv, SnapshotInv
  <2> QED BY <2>2, <2>3, <2>4 DEF IInv
<1>5. CASE Adopted(t)
  <2>1. env' = Record(t, obj[t].uid) /\ Advance
    BY <1>5 DEF CreateExists
  <2>2. /\ env' \in Environments
        /\ \A r \in Recorded : env'.uid[r] = IF r = t THEN obj[t].uid ELSE env.uid[r]
        /\ env'.origScheduler = env.origScheduler /\ env'.origNP = env.origNP
        /\ env'.origMAG = env.origMAG /\ env'.complete = env.complete
    BY <1>3, <2>1, RecordFacts DEF IInv, ControlInv
  <2>3. /\ ControlInv' /\ UNCHANGED <<seen, failed, restored>>
        /\ phase' = "setup" => pos' = pos + 1
    BY <1>1, <1>2, <2>1, <2>2, SetupControl
  <2>4. phase' \in {"setup", "between"}
    BY <1>1, <2>1 DEF Advance
  <2>5. UidInv'
    <3>1. \A r \in Recorded : obj[r].mine => env'.uid[r] \in {0, obj[r].uid}
      BY <2>2 DEF IInv, ObjectsInv, UidInv
    <3>2. phase' = "setup" => /\ pos' <= 6 => env'.uid["kueue"] = 0
                              /\ pos' <= 17 => env'.uid["secret"] = 0
                              /\ pos' <= 18 => env'.uid["cluster"] = 0
      <4>1. /\ pos \in 1 .. 19
            /\ t = "kueue" => pos = 6
            /\ t = "secret" => pos = 17
            /\ t = "cluster" => pos = 18
        BY <1>1, TurnOf
      <4>2. /\ pos <= 6 => env.uid["kueue"] = 0
            /\ pos <= 17 => env.uid["secret"] = 0
            /\ pos <= 18 => env.uid["cluster"] = 0
        BY <1>1 DEF IInv, ObjectsInv, UidInv
      <4>3. "kueue" \in Recorded /\ "secret" \in Recorded /\ "cluster" \in Recorded
        BY DEF Recorded
      <4> QED BY <2>2, <2>3, <4>1, <4>2, <4>3
    <3>3. nextUid >= 1 /\ \A x \in Things : obj[x].mine => obj[x].uid # 0
      BY DEF IInv, ObjectsInv, UidInv
    <3> QED BY <1>1, <3>1, <3>2, <3>3 DEF UidInv, cluster
  <2>6. ObjectsInv'
    BY <1>1, <2>3, <2>4, <2>5, ObjectsInSetup DEF cluster, IInv, ObjectsInv
  <2>7. ConfigInv'
    <3>1. /\ env.origScheduler \in {"nil", "initial"}
          /\ env.complete => env.origNP = NetworkPolicyJSON(before.np)
          /\ env.origMAG \in {"none", before.mag}
      BY DEF IInv, ConfigInv, SnapshotInv
    <3> QED BY <1>1, <2>2, <2>3, <2>4, <3>1, ConfigInSetup DEF cluster
  <2> QED BY <2>3, <2>6, <2>7 DEF IInv
<1> QED BY <1>4, <1>5

LEMMA SetupStep == ASSUME IInv, Setup PROVE IInv'
<1>1. CASE SetupError \/ SetupReads \/ SetupWaits
  BY <1>1, QuietSetup
<1>2. CASE ReadScheduler \/ ReadNetworkPolicy \/ ReadMAG
  BY <1>2, SnapshotSteps
<1>3. CASE GetKueue
  BY <1>3, GetKueueStep
<1>4. CASE \E t \in Things : Create(t) \/ CreateExists(t) \/ CreateUnseen(t)
  BY <1>4, CreateStep, CreateExistsStep, CreateUnseenStep
<1> QED BY <1>1, <1>2, <1>3, <1>4 DEF Setup

-----------------------------------------------------------------------------
(* The steps of the specs.                                                 *)

LEMMA CallTypes ==
  ASSUME NEW c \in Call
  PROVE  /\ c[1] = "mode" => c[2] \in Modes
         /\ c[1] \in {"disable", "disableMAG"} => c[2] \in Flags
         /\ c[1] = "defer" => c[2] \in {"enable", "remove"}
<1>1. CASE c \in ModeCalls
  BY <1>1 DEF ModeCalls
<1>2. CASE c \in FlagCalls
  BY <1>2 DEF FlagCalls
<1>3. CASE c \in PolicyCalls
  BY <1>3 DEF PolicyCalls
<1>4. CASE c \in DeferCalls
  BY <1>4 DEF DeferCalls
<1>5. CASE c \in PlainCalls
  <2>1. PICK a \in {"settle", "checkName", "saveNP", "addCustom", "propagated", "restoreNP"} :
               c = <<a, "">>
    BY <1>5 DEF PlainCalls
  <2>2. c[1] = a
    BY <2>1
  <2> QED BY <2>2
<1> QED BY <1>1, <1>2, <1>3, <1>4, <1>5 DEF Call

\* The next call is in the script, with an argument it takes.
LEMMA NextCallTypes ==
  ASSUME IInv, phase \in {"spec", "deferred"}
  PROVE  /\ Script \in Scripts /\ pos \in 1 .. Len(Script) /\ Len(Script) \in Nat
         /\ Script[pos] \in Call
         /\ InSpec("mode") => Argument \in Modes
         /\ InSpec("disable") \/ InSpec("disableMAG") => Argument \in Flags
         /\ InSpec("defer") => Argument \in {"enable", "remove"}
<1>1. Script \in Scripts /\ pos \in 1 .. Len(Script)
  BY SpecScripts DEF IInv, ControlInv, Script
<1>2. Script[pos] \in Call /\ Len(Script) \in Nat
  BY <1>1, ElementOfSeq DEF Scripts
<1>3. /\ Script[pos][1] = "mode" => Script[pos][2] \in Modes
      /\ Script[pos][1] \in {"disable", "disableMAG"} => Script[pos][2] \in Flags
      /\ Script[pos][1] = "defer" => Script[pos][2] \in {"enable", "remove"}
  BY <1>2, CallTypes
<1> QED BY <1>1, <1>2, <1>3 DEF InSpec, Argument

\* A spec goes on or is over.
LEMMA SpecControl ==
  ASSUME IInv, phase \in {"spec", "deferred"}, NextCall \/ Leave,
         UNCHANGED <<spec, env>>, savedNP' \in Policies,
         errors' \in Nat, resent' \in Nat, external' \in Nat
  PROVE  ControlInv' /\ phase' \in {"between", "spec", "deferred"}
<1>1. pos \in 1 .. Len(Script) /\ Len(Script) \in Nat
  BY NextCallTypes
<1>2. CASE Leave
  BY <1>2 DEF Leave, IInv, ControlInv
<1>3. CASE pos < Len(Script) /\ pos' = pos + 1 /\ UNCHANGED <<phase, deferred>>
  <2>1. Script' = Script
    BY <1>3 DEF Script
  <2>2. pos' \in 1 .. Len(Script)
    BY <1>1, <1>3
  <2>3. CASE phase = "spec"
    BY <1>3, <2>2, <2>3 DEF Script, IInv, ControlInv
  <2>4. CASE phase = "deferred"
    BY <1>3, <2>2, <2>4 DEF Script, IInv, ControlInv
  <2> QED BY <2>3, <2>4
<1> QED BY <1>2, <1>3 DEF NextCall

\* What all steps of a spec have in common.
LEMMA SpecFrame ==
  ASSUME IInv, phase \in {"between", "spec", "deferred"}, ControlInv',
         phase' \in {"between", "spec", "deferred"} \/ (phase' = "delete" /\ pos' = 1),
         sched' \in Modes, np' \in Policies, mag' \in Flags \cup {"none"},
         UNCHANGED <<obj, nextUid, live, before, env, seen, failed, restored>>,
         errors' >= errors
  PROVE  IInv'
<1>1. ObjectsInv'
  BY ObjectsKept DEF ControlInv
<1>2. ConfigInv'
  BY ConfigInSpecs
<1> QED BY <1>1, <1>2 DEF IInv

LEMMA StartSpecStep == ASSUME IInv, StartSpec PROVE IInv'
<1>1. /\ phase = "between" /\ phase' = "spec" /\ pos' = 1 /\ spec' \in 1 .. 6
      /\ UNCHANGED <<cluster, env, deferred, savedNP, seen, failed, restored, bounds>>
  BY SpecScripts DEF StartSpec, IInv, ControlInv
<1>2. ControlInv'
  <2>1. 1 \in 1 .. Len(Specs[spec'])
    BY <1>1, SpecScripts DEF Scripts
  <2> QED BY <1>1, <2>1 DEF IInv, ControlInv, bounds
<1>3. errors' = errors /\ errors \in Nat
  BY <1>1 DEF bounds, IInv, ControlInv
<1> QED BY <1>1, <1>2, <1>3, SpecFrame DEF cluster, IInv, ConfigInv

LEMMA EndSpecsStep == ASSUME IInv, EndSpecs PROVE IInv'
<1>1. /\ phase = "between" /\ phase' = "delete" /\ pos' = 1
      /\ UNCHANGED <<cluster, env, Idle, bounds>>
  BY DEF EndSpecs, BeginCleanup
<1>2. ControlInv'
  BY <1>1 DEF IInv, ControlInv, Idle, bounds
<1>3. errors' = errors /\ errors \in Nat
  BY <1>1 DEF bounds, IInv, ControlInv
<1> QED BY <1>1, <1>2, <1>3, SpecFrame DEF cluster, Idle, IInv, ConfigInv

\* A call of a spec sets a value of the configuration at most.
LEMMA SpecCallStep ==
  ASSUME IInv, CallError \/ PatchTektonConfig \/ PatchMAG \/ AwaitOperator \/ AssertPolicy
               \/ CheckName \/ SaveNetworkPolicy \/ RestoreSavedPolicy
  PROVE  IInv'
<1>1. phase \in {"spec", "deferred"} /\ (NextCall \/ Leave)
  BY DEF CallError, PatchTektonConfig, PatchMAG, AwaitOperator, AssertPolicy, CheckName,
         SaveNetworkPolicy, RestoreSavedPolicy, InSpec
<1>2. UNCHANGED <<obj, nextUid, live, before, env, Rest>>
  BY DEF CallError, PatchTektonConfig, PatchMAG, AwaitOperator, AssertPolicy, CheckName,
         SaveNetworkPolicy, RestoreSavedPolicy, cluster
<1>3. errors' \in Nat /\ resent' \in Nat /\ external' \in Nat /\ errors' >= errors
  BY DEF CallError, PatchTektonConfig, PatchMAG, AwaitOperator, AssertPolicy, CheckName,
         SaveNetworkPolicy, RestoreSavedPolicy, Error, bounds, IInv, ControlInv
<1>4. /\ np \in Policies /\ savedNP \in Policies /\ before \in Starting
      /\ sched \in Modes /\ mag \in Flags \cup {"none"}
  BY DEF IInv, ControlInv, ConfigInv
<1>5. savedNP' \in Policies
  <2>1. CASE SaveNetworkPolicy
    BY <1>4, <2>1, PolicyTypes DEF SaveNetworkPolicy
  <2>2. CASE ~SaveNetworkPolicy
    BY <1>4, <2>2 DEF CallError, PatchTektonConfig, PatchMAG, AwaitOperator, AssertPolicy,
                      CheckName, RestoreSavedPolicy
  <2> QED BY <2>1, <2>2
<1>6. sched' \in Modes /\ np' \in Policies /\ mag' \in Flags \cup {"none"}
  <2>1. CASE PatchTektonConfig
    <3>1. mag' = mag
      BY <2>1 DEF PatchTektonConfig
    <3>2. CASE InSpec("mode") /\ sched' = Argument /\ UNCHANGED np
      BY <1>1, <1>4, <3>1, <3>2, NextCallTypes
    <3>3. CASE InSpec("disable") /\ np' = [np EXCEPT !.present = TRUE, !.disabled = Argument]
               /\ UNCHANGED sched
      <4>1. Argument \in Flags
        BY <1>1, <3>3, NextCallTypes
      <4> QED BY <1>4, <3>1, <3>3, <4>1 DEF Policies
    <3>4. CASE /\ np' = [np EXCEPT !.present = TRUE, !.policies = @ \cup {"custom"}]
               /\ UNCHANGED sched
      BY <1>4, <3>1, <3>4 DEF Policies
    <3> QED BY <2>1, <3>2, <3>3, <3>4 DEF PatchTektonConfig
  <2>2. CASE PatchMAG
    BY <1>1, <1>4, <2>2, NextCallTypes DEF PatchMAG
  <2>3. CASE RestoreSavedPolicy
    BY <1>4, <2>3, PolicyTypes DEF RestoreSavedPolicy
  <2>4. CASE CallError \/ AwaitOperator \/ AssertPolicy \/ CheckName \/ SaveNetworkPolicy
    BY <1>4, <2>4 DEF CallError, AwaitOperator, AssertPolicy, CheckName, SaveNetworkPolicy, cluster
  <2> QED BY <2>1, <2>2, <2>3, <2>4
<1>7. ControlInv' /\ phase' \in {"between", "spec", "deferred"}
  BY <1>1, <1>2, <1>3, <1>5, SpecControl DEF Rest
<1>8. UNCHANGED <<obj, nextUid, live, before, env, seen, failed, restored>>
  BY <1>2 DEF Rest
<1>9. phase \in {"between", "spec", "deferred"}
  BY <1>1
<1>10. errors' >= errors
  BY <1>3
<1>11. phase' \in {"between", "spec", "deferred"} \/ (phase' = "delete" /\ pos' = 1)
  BY <1>7
<1> QED BY <1>6, <1>7, <1>8, <1>9, <1>10, <1>11, SpecFrame, Zenon

LEMMA DeferStep == ASSUME IInv, DeferCleanup PROVE IInv'
<1>1. /\ phase \in {"spec", "deferred"} /\ phase' = "deferred" /\ pos' = 1
      /\ deferred' \in {"enable", "remove"}
      /\ UNCHANGED <<cluster, env, savedNP, Rest, bounds>>
  BY NextCallTypes DEF DeferCleanup, InSpec
<1>2. ControlInv'
  <2>1. 1 \in 1 .. Len(Deferred[deferred'])
    BY <1>1, SpecScripts DEF Scripts
  <2> QED BY <1>1, <2>1 DEF IInv, ControlInv, bounds, Rest
<1>3. errors' = errors /\ errors \in Nat
  BY <1>1 DEF bounds, IInv, ControlInv
<1> QED BY <1>1, <1>2, <1>3, SpecFrame DEF cluster, Rest, IInv, ConfigInv

LEMMA RunSpecsStep == ASSUME IInv, RunSpecs PROVE IInv'
BY StartSpecStep, EndSpecsStep, SpecCallStep, DeferStep DEF RunSpecs

-----------------------------------------------------------------------------
(* deleteOwnedResources.                                                   *)

LEMMA LeftFinite ==
  ASSUME NEW S \in SUBSET Things PROVE IsFiniteSet(S) /\ Cardinality(S) \in Nat
BY ThingsFinite, FS_Subset, FS_CardinalityType

\* The next object, or the end.
LEMMA NextThingControl ==
  ASSUME IInv, phase = "delete", NEW failure \in BOOLEAN, NextThing(failure),
         UNCHANGED <<env, Fixed>>, errors' \in Nat, resent' \in Nat, external' \in Nat
  PROVE  /\ ControlInv' /\ phase' \in {"delete", "restore"} /\ pos \in 1 .. 9
         /\ phase' = "delete" => pos' = pos + 1
         /\ phase' = "restore" => pos = 9 /\ pos' = 1
         /\ seen' = 0 /\ failed' = (failed \/ failure)
         /\ UNCHANGED restored
<1>1. pos \in 1 .. 9 /\ Len(DeleteOrder) = 9
  BY DeleteOrderFacts DEF IInv, ControlInv
<1>2. \/ pos = 9 /\ phase' = "restore" /\ pos' = 1
      \/ pos < 9 /\ phase' = "delete" /\ pos' = pos + 1
  BY <1>1 DEF NextThing
<1>3. seen' = 0 /\ failed' = (failed \/ failure) /\ UNCHANGED <<spec, deferred, savedNP, restored>>
  BY DEF NextThing, Fixed
<1>4. ControlInv'
  <2>1. CASE pos = 9 /\ phase' = "restore" /\ pos' = 1
    BY <1>3, <2>1 DEF IInv, ControlInv
  <2>2. CASE pos < 9 /\ phase' = "delete" /\ pos' = pos + 1
    BY <1>1, <1>3, <2>2 DEF IInv, ControlInv
  <2> QED BY <1>2, <2>1, <2>2
<1> QED BY <1>1, <1>2, <1>3, <1>4

\* When an object has had its turn it is gone or not the run's, or a call has
\* failed; the others are no worse.
LEMMA OneTurn ==
  ASSUME IInv, phase = "delete", NEW failure \in BOOLEAN,
         phase' \in {"delete", "restore"},
         phase' = "delete" => pos' = pos + 1,
         phase' = "restore" => pos = 9,
         failed' = (failed \/ failure),
         Left' \subseteq Left,
         errors' \in Nat,
         \/ Thing \notin Left' /\ errors' = errors
         \/ failure /\ errors' = errors + 1
  PROVE  PassedInv' /\ OneErrorOneObject' /\ NilMeansDeleted'
<1> DEFINE M == Left' \cap (Passed \cup {Thing})
<1>1. pos \in 1 .. 9 /\ errors \in Nat
  BY DEF IInv, ControlInv
<1>2. {DeleteOrder[i] : i \in 1 .. pos} = Passed \cup {Thing}
  <2>1. 1 .. pos = (1 .. (pos - 1)) \cup {pos}
    BY <1>1
  <2> QED BY <2>1 DEF Passed, Thing
<1>3. phase' = "delete" => Passed' = Passed \cup {Thing}
  <2>1. SUFFICES ASSUME phase' = "delete" PROVE Passed' = Passed \cup {Thing}
    OBVIOUS
  <2>2. pos' - 1 = pos
    BY <1>1, <2>1
  <2>3. Passed' = {DeleteOrder[i] : i \in 1 .. (pos' - 1)}
    BY DEF Passed
  <2> QED BY <1>2, <2>2, <2>3
<1>4. Left' \subseteq Things /\ Left \subseteq Things
  BY DEF Left
<1>5. phase' = "restore" => M = Left'
  <2>1. SUFFICES ASSUME phase' = "restore" PROVE Things \subseteq Passed \cup {Thing}
    BY <1>4
  <2>2. Things \subseteq {DeleteOrder[i] : i \in 1 .. 9}
    BY DeleteOrderFacts
  <2> QED BY <1>2, <2>1, <2>2
<1>6. Cardinality(Left \cap Passed) <= errors /\ (~failed => Left \cap Passed = {})
  BY DEF IInv, ObjectsInv, PassedInv
<1>7. IsFiniteSet(Left \cap Passed) /\ Cardinality(Left \cap Passed) \in Nat
  <2>1. Left \cap Passed \in SUBSET Things
    BY <1>4
  <2> QED BY <2>1, LeftFinite
<1>8. Cardinality(M) <= errors' /\ (~failed' => M = {})
  <2>1. CASE Thing \notin Left' /\ errors' = errors
    <3>1. M \subseteq Left \cap Passed
      BY <2>1
    <3>2. Cardinality(M) <= Cardinality(Left \cap Passed) /\ Cardinality(M) \in Nat
      BY <1>7, <3>1, FS_Subset, FS_CardinalityType
    <3>3. Cardinality(M) <= errors'
      BY <1>1, <1>6, <1>7, <2>1, <3>2
    <3> QED BY <1>6, <3>1, <3>3
  <2>2. CASE failure /\ errors' = errors + 1
    <3>1. M \subseteq (Left \cap Passed) \cup {Thing}
      OBVIOUS
    <3>2. /\ IsFiniteSet((Left \cap Passed) \cup {Thing})
          /\ Cardinality((Left \cap Passed) \cup {Thing}) <= Cardinality(Left \cap Passed) + 1
          /\ Cardinality((Left \cap Passed) \cup {Thing}) \in Nat
      <4> DEFINE S == Left \cap Passed
      <4>1. IsFiniteSet(S) /\ Cardinality(S) \in Nat
        BY <1>7
      <4> HIDE DEF S
      <4>2. /\ IsFiniteSet(S \cup {Thing})
            /\ Cardinality(S \cup {Thing}) =
                 IF Thing \in S THEN Cardinality(S) ELSE Cardinality(S) + 1
        BY <4>1, FS_AddElement
      <4>3. Cardinality(S \cup {Thing}) \in Nat /\ Cardinality(S \cup {Thing}) <= Cardinality(S) + 1
        BY <4>1, <4>2
      <4> QED BY <4>2, <4>3 DEF S
    <3>3. Cardinality(M) <= Cardinality((Left \cap Passed) \cup {Thing}) /\ Cardinality(M) \in Nat
      BY <3>1, <3>2, FS_Subset, FS_CardinalityType
    <3>4. Cardinality(M) <= errors'
      BY <1>1, <1>6, <1>7, <2>2, <3>2, <3>3
    <3>5. failed'
      BY <2>2
    <3> QED BY <3>4, <3>5
  <2> QED BY <2>1, <2>2
<1>9. phase' = "delete" => (Left \cap Passed)' = M
  BY <1>3
<1>10. PassedInv'
  BY <1>8, <1>9 DEF PassedInv
<1>11. OneErrorOneObject' /\ NilMeansDeleted'
  BY <1>5, <1>8 DEF OneErrorOneObject, NilMeansDeleted
<1> QED BY <1>10, <1>11

\* What is deleted carries no label any more.
LEMMA DeletedUids ==
  ASSUME IInv, NEW t \in Things, Deleted(t), phase = "delete", phase' # "setup", UNCHANGED env
  PROVE  /\ obj' \in [Things -> [uid : 0 .. (nextUid' - 1), mine : BOOLEAN]]
         /\ UidInv' /\ Left' \subseteq Left /\ t \notin Left'
<1> DEFINE gone == IF t = "ns" THEN {"ns", "sa", "role", "rb"} ELSE {t}
<1>1. /\ obj' = [x \in Things |-> IF x \in gone THEN Absent ELSE obj[x]]
      /\ UNCHANGED nextUid
  BY DEF Deleted
<1>2. t \in gone
  OBVIOUS
<1> HIDE DEF gone
<1>3. nextUid \in Nat /\ nextUid >= 1
  BY DEF IInv, ObjectsInv, UidInv
<1>4. Absent \in [uid : 0 .. (nextUid - 1), mine : BOOLEAN] /\ Absent.mine = FALSE
  <2>1. 0 \in 0 .. (nextUid - 1)
    BY <1>3
  <2> QED BY <2>1 DEF Absent
<1>5. \A x \in Things : obj[x] \in [uid : 0 .. (nextUid - 1), mine : BOOLEAN]
  BY DEF IInv, ObjectsInv
<1>6. obj' \in [Things -> [uid : 0 .. (nextUid' - 1), mine : BOOLEAN]]
  BY <1>1, <1>4, <1>5
<1>7. \A x \in Things : obj'[x].mine => obj'[x] = obj[x] /\ obj[x].mine
  BY <1>1, <1>4
<1>8. UidInv'
  <2>1. /\ \A x \in Things : obj[x].mine => obj[x].uid # 0
        /\ \A r \in Recorded : obj[r].mine => env.uid[r] \in {0, obj[r].uid}
    BY DEF IInv, ObjectsInv, UidInv
  <2>2. \A r \in Recorded : r \in Things
    BY DEF Things
  <2> QED BY <1>1, <1>3, <1>7, <2>1, <2>2 DEF UidInv
<1>9. Left' \subseteq Left
  BY <1>7 DEF Left
<1>10. t \notin Left'
  BY <1>1, <1>2, <1>4 DEF Left
<1> QED BY <1>6, <1>8, <1>9, <1>10

\* The object whose turn it is is one of the run's at most if deleteOwned takes
\* it for one.
LEMMA OwnedIsOwns ==
  ASSUME IInv, phase = "delete", Thing \in Left
  PROVE  obj[Thing].uid # 0 /\ Owns(Thing) /\ (Thing = "kueue" => env.kueueOwned)
<1>1. Thing \in Things /\ obj[Thing].mine /\ (Thing = "kueue" => env.kueueOwned)
  BY DEF Left
<1>2. obj[Thing].uid # 0 /\ (Thing \in Recorded => env.uid[Thing] \in {0, obj[Thing].uid})
  BY <1>1 DEF IInv, ObjectsInv, UidInv
<1> QED BY <1>1, <1>2 DEF Owns

LEMMA GetOwnedStep == ASSUME IInv, GetOwned PROVE IInv'
<1>1. /\ phase = "delete" /\ seen = 0
      /\ UNCHANGED <<cluster, env, Fixed, bounds>>
  BY DEF GetOwned
<1>2. Left' = Left
  BY <1>1 DEF Left, cluster
<1>3. errors' = errors /\ errors' \in Nat /\ resent' \in Nat /\ external' \in Nat
  BY <1>1 DEF bounds, IInv, ControlInv
<1>4. UidInv' \/ phase' = "setup"
  BY <1>1 DEF IInv, ObjectsInv, UidInv, cluster
<1>6. ASSUME NEW failure \in BOOLEAN, NextThing(failure), Thing \notin Left PROVE IInv'
  <2>1. /\ ControlInv' /\ phase' \in {"delete", "restore"}
        /\ phase' = "delete" => pos' = pos + 1
        /\ phase' = "restore" => pos = 9 /\ pos' = 1
        /\ seen' = 0 /\ failed' = (failed \/ failure)
        /\ UNCHANGED restored
    BY <1>1, <1>3, <1>6, NextThingControl
  <2>2. PassedInv' /\ OneErrorOneObject' /\ NilMeansDeleted'
    BY <1>1, <1>2, <1>3, <1>6, <2>1, OneTurn
  <2>3. SeenInv'
    BY <1>1, <2>1 DEF IInv, ObjectsInv, UidInv, SeenInv, cluster
  <2>4. failed' \in BOOLEAN
    BY <2>1 DEF IInv, ObjectsInv
  <2>5. ObjectsInv'
    BY <1>1, <1>4, <2>1, <2>2, <2>3, <2>4 DEF IInv, ObjectsInv, cluster
  <2>6. ConfigInv'
    BY <1>1, <2>1, ConfigInDelete DEF cluster
  <2> QED BY <2>1, <2>5, <2>6 DEF IInv
<1>7. CASE obj[Thing].uid = 0 \/ (Thing = "kueue" /\ ~env.kueueOwned)
  <2>1. NextThing(FALSE)
    BY <1>7 DEF GetOwned
  <2>2. Thing \notin Left
    BY <1>1, <1>7, OwnedIsOwns
  <2> QED BY <1>6, <2>1, <2>2
<1>8. CASE ~(obj[Thing].uid = 0 \/ (Thing = "kueue" /\ ~env.kueueOwned)) /\ ~Owns(Thing)
  <2>1. NextThing(TRUE)
    BY <1>8 DEF GetOwned
  <2>2. Thing \notin Left
    BY <1>1, <1>8, OwnedIsOwns
  <2> QED BY <1>6, <2>1, <2>2
<1>9. CASE ~(obj[Thing].uid = 0 \/ (Thing = "kueue" /\ ~env.kueueOwned)) /\ Owns(Thing)
  <2>1. seen' = obj[Thing].uid /\ UNCHANGED <<phase, pos, failed>>
    BY <1>9 DEF GetOwned
  <2>2. ControlInv'
    BY <1>1, <1>3, <2>1 DEF IInv, ControlInv, Fixed
  <2>3. ObjectsInv'
    <3>1. Thing \in Things
      BY <1>1, DeleteOrderFacts DEF Thing, IInv, ControlInv
    <3>2. seen' \in Nat /\ seen' < nextUid
      BY <2>1, <3>1 DEF IInv, ObjectsInv, UidInv
    <3>3. obj[Thing].mine
      BY <1>9 DEF Owns
    <3>4. SeenInv'
      BY <1>1, <2>1, <3>2, <3>3 DEF SeenInv, Thing, cluster
    <3>5. PassedInv'
      BY <1>2, <1>3, <2>1 DEF IInv, ObjectsInv, PassedInv, Passed
    <3>6. OneErrorOneObject' /\ NilMeansDeleted'
      BY <1>1, <2>1 DEF OneErrorOneObject, NilMeansDeleted
    <3> QED BY <1>1, <1>4, <2>1, <3>2, <3>4, <3>5, <3>6 DEF IInv, ObjectsInv, cluster
  <2>4. ConfigInv'
    BY <1>1, <2>1, ConfigInDelete DEF cluster, Fixed
  <2> QED BY <2>2, <2>3, <2>4 DEF IInv
<1> QED BY <1>7, <1>8, <1>9

\* A deletion, with or without an answer, leaves no more of the run's objects.
LEMMA DeletionSteps == ASSUME IInv, DeleteOwned \/ DeletionError PROVE IInv'
<1>1. phase = "delete" /\ UNCHANGED <<env, Fixed>>
  BY DEF DeleteOwned, DeletionError
<1>2. PICK failure \in BOOLEAN :
        /\ NextThing(failure)
        /\ \/ UNCHANGED <<cluster>> /\ failure
           \/ seen # 0 /\ Deleted(Thing)
        /\ \/ failure /\ Error
           \/ ~failure /\ UNCHANGED bounds /\ seen # 0 /\ Deleted(Thing)
  <2>1. CASE DeleteOwned
    BY <2>1 DEF DeleteOwned
  <2>2. CASE DeletionError
    BY <2>2 DEF DeletionError
  <2> QED BY <2>1, <2>2
<1>3. /\ errors \in Nat /\ errors' \in Nat /\ resent' \in Nat /\ external' \in Nat
      /\ \/ failure /\ errors' = errors + 1
         \/ ~failure /\ errors' = errors
  BY <1>2 DEF Error, bounds, IInv, ControlInv
<1>4. /\ ControlInv' /\ phase' \in {"delete", "restore"} /\ pos \in 1 .. 9
      /\ phase' = "delete" => pos' = pos + 1
      /\ phase' = "restore" => pos = 9 /\ pos' = 1
      /\ seen' = 0 /\ failed' = (failed \/ failure)
      /\ UNCHANGED restored
  BY <1>1, <1>2, <1>3, NextThingControl
<1>5. Thing \in Things
  BY <1>4, DeleteOrderFacts DEF Thing
<1>6. UNCHANGED <<nextUid, sched, np, mag, live, before>>
  BY <1>2 DEF Deleted, cluster
<1>7. /\ obj' \in [Things -> [uid : 0 .. (nextUid' - 1), mine : BOOLEAN]]
      /\ UidInv' /\ Left' \subseteq Left
      /\ ~failure => Thing \notin Left'
  <2>1. CASE UNCHANGED <<cluster>> /\ failure
    BY <1>1, <1>4, <2>1 DEF IInv, ObjectsInv, UidInv, cluster, Left
  <2>2. CASE Deleted(Thing)
    BY <1>1, <1>4, <1>5, <2>2, DeletedUids
  <2> QED BY <1>2, <2>1, <2>2
<1>8. PassedInv' /\ OneErrorOneObject' /\ NilMeansDeleted'
  BY <1>1, <1>2, <1>3, <1>4, <1>7, OneTurn
<1>9. SeenInv'
  BY <1>4, <1>6 DEF IInv, ObjectsInv, UidInv, SeenInv
<1>11. failed' \in BOOLEAN
  BY <1>4 DEF IInv, ObjectsInv
<1>12. ObjectsInv'
  BY <1>4, <1>6, <1>7, <1>8, <1>9, <1>11 DEF IInv, ObjectsInv
<1>13. ConfigInv'
  BY <1>1, <1>4, <1>6, ConfigInDelete
<1> QED BY <1>4, <1>12, <1>13 DEF IInv

-----------------------------------------------------------------------------
(* restoreTektonConfig.                                                    *)

LEMMA RestoreCalls ==
  /\ Len(RestoreScript) = 4
  /\ RestoreScript[1] = "scheduler" /\ RestoreScript[2] = "np"
  /\ RestoreScript[3] = "settle" /\ RestoreScript[4] = "mag"
BY DEF RestoreScript

\* The next setting, or the end.
LEMMA RestoreFrame ==
  ASSUME IInv, phase = "restore",
         \/ phase' = "done" /\ restored' \in {"ok", "error"} /\ UNCHANGED pos
         \/ NextRestore /\ pos < 4,
         UNCHANGED <<obj, nextUid, live, before, env, spec, deferred, savedNP, seen, failed,
                     resent, external>>,
         errors' \in Nat, errors' >= errors
  PROVE  ControlInv' /\ ObjectsInv' /\ SnapshotInv'
<1>1. phase' \in {"restore", "done"} /\ pos \in 1 .. 4 /\ (phase' = "restore" => pos' \in 1 .. 4)
  BY DEF NextRestore, IInv, ControlInv
<1>2. pos' \in Nat
  BY <1>1 DEF NextRestore, IInv, ControlInv
<1>3. ControlInv'
  BY <1>1, <1>2 DEF IInv, ControlInv
<1>4. ObjectsInv'
  BY <1>1, ObjectsKept
<1>5. SnapshotInv'
  BY <1>1 DEF IInv, ConfigInv, SnapshotInv, NetworkPolicyJSON
<1> QED BY <1>3, <1>4, <1>5

LEMMA RestoreErrorStep == ASSUME IInv, RestoreError PROVE IInv'
<1>1. /\ phase = "restore" /\ phase' = "done" /\ restored' = "error" /\ UNCHANGED pos
      /\ UNCHANGED <<cluster, env, Others, resent, external>>
      /\ errors' = errors + 1
  BY DEF RestoreError, Error, CleanupReturns
<1>2. errors' \in Nat /\ errors' >= errors
  BY <1>1 DEF IInv, ControlInv
<1>3. ControlInv' /\ ObjectsInv' /\ SnapshotInv'
  BY <1>1, <1>2, RestoreFrame DEF cluster, Others
<1>4. RestoreInv' /\ SnapshotRestored'
  BY <1>1 DEF RestoreInv, SnapshotRestored
<1> QED BY <1>1, <1>3, <1>4 DEF IInv, ConfigInv, cluster

LEMMA RestoreSchedulerStep == ASSUME IInv, RestoreScheduler PROVE IInv'
<1>1. /\ phase = "restore" /\ pos = 1
      /\ UNCHANGED <<obj, nextUid, mag, live, before, env, Others, bounds>>
  BY RestoreCalls DEF RestoreScheduler, InRestore, IInv, ControlInv
<1>2. errors' \in Nat /\ errors' >= errors
  BY <1>1 DEF IInv, ControlInv, bounds
<1>3. \/ phase' = "done" /\ restored' = "error" /\ UNCHANGED <<pos, sched, np>>
      \/ /\ phase' = "restore" /\ pos' = 2 /\ UNCHANGED restored
         /\ env.origScheduler # "nil" /\ sched' = env.origScheduler /\ np' = NothingStored
         /\ NextRestore
  BY <1>1 DEF RestoreScheduler, CleanupReturns, NextRestore, StoredByUpdate
<1>4. ControlInv' /\ ObjectsInv' /\ SnapshotInv'
  <2>1. CASE phase' = "done"
    BY <1>1, <1>2, <1>3, <2>1, RestoreFrame DEF Others, bounds
  <2>2. CASE phase' = "restore"
    BY <1>1, <1>2, <1>3, <2>2, RestoreFrame DEF Others, bounds
  <2> QED BY <1>3, <2>1, <2>2
<1>5. before \in Starting /\ np \in Policies /\ sched \in Modes /\ mag \in Flags \cup {"none"}
  BY DEF IInv, ConfigInv
<1>6. NothingStored' = NothingStored
  BY <1>1 DEF NothingStored
<1>7. np' \in Policies /\ sched' \in Modes
  BY <1>3, <1>5, PolicyTypes DEF IInv, ConfigInv, SnapshotInv, Modes
<1>8. RestoreInv'
  <2>1. CASE phase' = "done"
    BY <2>1 DEF RestoreInv
  <2>2. CASE phase' = "restore"
    <3>1. restored = "pending" /\ env.origScheduler \in {"nil", "initial"}
      BY <1>1 DEF IInv, ConfigInv, RestoreInv, SnapshotInv
    <3> QED BY <1>3, <1>6, <2>2, <3>1 DEF RestoreInv
  <2> QED BY <1>3, <2>1, <2>2
<1>9. SnapshotRestored' /\ restored' \in {"pending", "ok", "error"}
  BY <1>1, <1>3 DEF IInv, ConfigInv, RestoreInv, SnapshotRestored
<1> QED BY <1>1, <1>4, <1>5, <1>7, <1>8, <1>9 DEF IInv, ConfigInv

LEMMA RestoreNetworkPolicyStep == ASSUME IInv, RestoreNetworkPolicy PROVE IInv'
<1>1. /\ phase = "restore" /\ pos = 2
      /\ UNCHANGED <<obj, nextUid, sched, mag, live, before, env, Others, bounds>>
  BY RestoreCalls DEF RestoreNetworkPolicy, InRestore, IInv, ControlInv
<1>2. errors' \in Nat /\ errors' >= errors
  BY <1>1 DEF IInv, ControlInv, bounds
<1>3. \/ phase' = "done" /\ restored' = "error" /\ UNCHANGED <<pos, np>>
      \/ /\ phase' = "restore" /\ pos' = 3 /\ UNCHANGED restored
         /\ np' = RestoreNetworkPolicyJSON(env.origNP)
         /\ NextRestore
  BY <1>1 DEF RestoreNetworkPolicy, CleanupReturns, NextRestore
<1>4. ControlInv' /\ ObjectsInv' /\ SnapshotInv'
  <2>1. CASE phase' = "done"
    BY <1>1, <1>2, <1>3, <2>1, RestoreFrame DEF Others, bounds
  <2>2. CASE phase' = "restore"
    BY <1>1, <1>2, <1>3, <2>2, RestoreFrame DEF Others, bounds
  <2> QED BY <1>3, <2>1, <2>2
<1>5. before \in Starting /\ np \in Policies /\ sched \in Modes /\ mag \in Flags \cup {"none"}
  BY DEF IInv, ConfigInv
<1>6. np' \in Policies
  <2>1. env.origNP \in Policies
    BY DEF IInv, ControlInv, Environments
  <2> QED BY <1>3, <1>5, <2>1, PolicyTypes
<1>7. RestoreInv'
  <2>1. CASE phase' = "done"
    BY <2>1 DEF RestoreInv
  <2>2. CASE phase' = "restore"
    <3>1. restored = "pending" /\ sched = "initial" /\ np = NothingStored /\ before \in Starts
      BY <1>1 DEF IInv, ConfigInv, RestoreInv, SnapshotInv
    <3>2. ASSUME env.complete PROVE NetworkPolicyJSON(np') = NetworkPolicyJSON(before.np)
      <4>1. env.origNP = NetworkPolicyJSON(before.np)
        BY <3>2 DEF IInv, ConfigInv, SnapshotInv
      <4>2. NetworkPolicyJSON(RestoreNetworkPolicyJSON(env.origNP)) = env.origNP
        BY <3>1, <4>1, WrittenBackWhole
      <4> QED BY <1>3, <2>2, <4>1, <4>2
    <3>3. /\ NetworkPolicyJSON(np)' = NetworkPolicyJSON(np')
          /\ NetworkPolicyJSON(before.np)' = NetworkPolicyJSON(before.np)
      BY <1>1 DEF NetworkPolicyJSON
    <3> QED BY <1>1, <1>3, <2>2, <3>1, <3>2, <3>3 DEF RestoreInv
  <2> QED BY <1>3, <2>1, <2>2
<1>8. SnapshotRestored' /\ restored' \in {"pending", "ok", "error"}
  BY <1>1, <1>3 DEF IInv, ConfigInv, RestoreInv, SnapshotRestored
<1> QED BY <1>1, <1>4, <1>5, <1>6, <1>7, <1>8 DEF IInv, ConfigInv

LEMMA RestoreSettlesStep == ASSUME IInv, RestoreSettles PROVE IInv'
<1>1. /\ phase = "restore" /\ pos = 3 /\ phase' = "restore" /\ pos' = 4 /\ NextRestore
      /\ UNCHANGED <<cluster, env, Others, bounds, restored>>
  BY RestoreCalls DEF RestoreSettles, InRestore, NextRestore, IInv, ControlInv
<1>2. errors' \in Nat /\ errors' >= errors
  BY <1>1 DEF IInv, ControlInv, bounds
<1>3. ControlInv' /\ ObjectsInv' /\ SnapshotInv'
  BY <1>1, <1>2, RestoreFrame DEF Others, bounds, cluster
<1>4. RestoreInv'
  BY <1>1 DEF IInv, ConfigInv, RestoreInv, NetworkPolicyJSON, cluster
<1>5. SnapshotRestored'
  BY <1>1 DEF IInv, ConfigInv, RestoreInv, SnapshotRestored
<1> QED BY <1>1, <1>3, <1>4, <1>5 DEF IInv, ConfigInv, cluster

LEMMA RestoreMAGStep == ASSUME IInv, RestoreMAG PROVE IInv'
<1>1. /\ phase = "restore" /\ pos = 4 /\ phase' = "done" /\ restored' = "ok" /\ UNCHANGED pos
      /\ UNCHANGED <<obj, nextUid, sched, np, live, before, env, Others, bounds>>
  BY RestoreCalls DEF RestoreMAG, InRestore, CleanupReturns, IInv, ControlInv
<1>2. errors' \in Nat /\ errors' >= errors
  BY <1>1 DEF IInv, ControlInv, bounds
<1>3. ControlInv' /\ ObjectsInv' /\ SnapshotInv'
  BY <1>1, <1>2, RestoreFrame DEF Others, bounds
<1>4. /\ env.origMAG = "none" => mag' = mag
      /\ env.origMAG = "unset" => mag' = "false"
      /\ env.origMAG \notin {"none", "unset"} => mag' = env.origMAG
  BY DEF RestoreMAG
<1>5. /\ env.origMAG \in Flags \cup {"none"} /\ mag \in Flags \cup {"none"}
      /\ env.origMAG \in {"none", before.mag}
  BY DEF IInv, ControlInv, Environments, ConfigInv, SnapshotInv
<1>6. mag' \in Flags \cup {"none"}
  BY <1>4, <1>5 DEF Flags
<1>7. SnapshotRestored'
  <2>1. sched = "initial"
    BY <1>1 DEF IInv, ConfigInv, RestoreInv
  <2>2. env.complete => NetworkPolicyJSON(np) = NetworkPolicyJSON(before.np)
    BY <1>1 DEF IInv, ConfigInv, RestoreInv
  <2>3. env.origMAG # "none" => SameFlag(mag', before.mag)
    BY <1>4, <1>5 DEF SameFlag
  <2>4. env.complete => AsBefore'
    BY <1>1, <2>1, <2>2, <2>3 DEF AsBefore, NetworkPolicyJSON, SameFlag
  <2> QED BY <1>1, <2>4 DEF SnapshotRestored
<1>8. RestoreInv'
  BY <1>1 DEF RestoreInv
<1> QED BY <1>1, <1>3, <1>6, <1>7, <1>8 DEF IInv, ConfigInv

LEMMA CleanupStep == ASSUME IInv, Cleanup PROVE IInv'
BY GetOwnedStep, DeletionSteps, RestoreErrorStep, RestoreSchedulerStep, RestoreNetworkPolicyStep,
   RestoreSettlesStep, RestoreMAGStep DEF Cleanup

-----------------------------------------------------------------------------
(* The operator and the other users.                                       *)

\* The operator only makes and deletes NetworkPolicies.
LEMMA ReconcileStep == ASSUME IInv, Reconcile PROVE IInv'
<1>1. /\ phase # "delete" /\ live' = Wanted
      /\ UNCHANGED <<obj, nextUid, sched, np, mag, before, env, control, bounds>>
  BY DEF Reconcile
<1>2. ControlInv'
  BY <1>1 DEF IInv, ControlInv, control, bounds
<1>3. ObjectsInv'
  <2>1. errors' \in Nat /\ errors' >= errors /\ pos' \in Nat /\ pos' >= pos
    BY <1>1 DEF IInv, ControlInv, control, bounds
  <2> QED BY <1>1, <2>1, ObjectsKept DEF control
<1>4. live' \subseteq {"scheduler", "hub", "custom"}
  BY <1>1 DEF Wanted
<1>5. SnapshotInv' /\ RestoreInv' /\ SnapshotRestored'
  BY <1>1 DEF IInv, ConfigInv, SnapshotInv, RestoreInv, SnapshotRestored, AsBefore, SameFlag,
              NetworkPolicyJSON, NothingStored, control
<1> QED BY <1>1, <1>2, <1>3, <1>4, <1>5 DEF IInv, ConfigInv, control

LEMMA UidsGrow ==
  ASSUME NEW a \in Nat, NEW b \in Nat, b >= a
  PROVE  0 .. (a - 1) \subseteq 0 .. (b - 1)
OBVIOUS

\* What others put there carries no label of the run and has a fresh uid.
LEMMA OthersStep == ASSUME IInv, NEW t \in Things, OthersAct(t) PROVE IInv'
<1>1. /\ phase \in {"setup", "delete"} /\ external' = external + 1
      /\ UNCHANGED <<sched, np, mag, live, before, env, control, errors, resent>>
  BY DEF OthersAct
<1>2. /\ nextUid \in Nat /\ nextUid >= 1
      /\ \A x \in Things : obj[x] \in [uid : 0 .. (nextUid - 1), mine : BOOLEAN]
  BY DEF IInv, ObjectsInv, UidInv
<1>3. PICK new :
        /\ obj' = [obj EXCEPT ![t] = new]
        /\ \/ new = Absent /\ nextUid' = nextUid
           \/ new = [uid |-> nextUid, mine |-> FALSE] /\ nextUid' = nextUid + 1
  BY DEF OthersAct
<1>4. /\ nextUid' \in Nat /\ nextUid' >= nextUid
      /\ new \in [uid : 0 .. (nextUid' - 1), mine : BOOLEAN] /\ new.mine = FALSE
      /\ new.uid = 0 \/ new.uid = nextUid
  <2>1. CASE new = Absent /\ nextUid' = nextUid
    <3>1. 0 \in 0 .. (nextUid' - 1)
      BY <1>2, <2>1
    <3> QED BY <1>2, <2>1, <3>1 DEF Absent
  <2>2. CASE new = [uid |-> nextUid, mine |-> FALSE] /\ nextUid' = nextUid + 1
    <3>1. nextUid \in 0 .. (nextUid' - 1)
      BY <1>2, <2>2
    <3> QED BY <1>2, <2>2, <3>1
  <2> QED BY <1>3, <2>1, <2>2
<1>5. obj'[t] = new /\ \A x \in Things \ {t} : obj'[x] = obj[x]
  BY <1>3 DEF IInv, ObjectsInv
<1>6. obj' \in [Things -> [uid : 0 .. (nextUid' - 1), mine : BOOLEAN]]
  <2>1. \A x \in Things : obj[x] \in [uid : 0 .. (nextUid' - 1), mine : BOOLEAN]
    <3>1. 0 .. (nextUid - 1) \subseteq 0 .. (nextUid' - 1)
      <4>1. nextUid' \in Nat /\ nextUid' >= nextUid /\ nextUid \in Nat
        BY <1>2, <1>4
      <4> QED BY <4>1, UidsGrow
    <3> QED BY <1>2, <3>1
  <2>2. obj \in [Things -> [uid : 0 .. (nextUid' - 1), mine : BOOLEAN]]
    BY <2>1 DEF IInv, ObjectsInv
  <2> QED BY <1>3, <1>4, <2>2
<1>7. \A x \in Things : obj'[x].mine => obj'[x] = obj[x] /\ obj[x].mine
  BY <1>4, <1>5
<1>8. Left' \subseteq Left
  BY <1>1, <1>7 DEF Left
<1>9. UidInv'
  <2>1. /\ \A x \in Things : obj[x].mine => obj[x].uid # 0
        /\ \A r \in Recorded : obj[r].mine => env.uid[r] \in {0, obj[r].uid}
    BY DEF IInv, ObjectsInv, UidInv
  <2>2. /\ \A x \in Things : obj'[x].mine => obj'[x].uid # 0
        /\ \A r \in Recorded : obj'[r].mine => env.uid[r] \in {0, obj'[r].uid}
    BY <1>7, <2>1 DEF Things
  <2>3. phase = "setup" => /\ pos <= 6 => env.uid["kueue"] = 0
                           /\ pos <= 17 => env.uid["secret"] = 0
                           /\ pos <= 18 => env.uid["cluster"] = 0
    BY DEF IInv, ObjectsInv, UidInv
  <2>4. nextUid' >= 1
    BY <1>2, <1>4
  <2> QED BY <1>1, <2>2, <2>3, <2>4 DEF UidInv, control
<1>10. SeenInv'
  <2>1. seen \in Nat /\ seen < nextUid /\ (phase # "delete" => seen = 0)
    BY DEF IInv, ObjectsInv, SeenInv
  <2>2. seen < nextUid'
    BY <1>2, <1>4, <2>1
  <2> QED BY <1>1, <2>1, <2>2 DEF SeenInv, control
<1>11. PassedInv'
  <2>1. SUFFICES ASSUME phase = "delete"
                 PROVE  /\ Cardinality((Left \cap Passed)') <= errors
                        /\ ~failed => (Left \cap Passed)' = {}
    BY <1>1 DEF PassedInv, control
  <2>2. (Left \cap Passed)' \subseteq Left \cap Passed
    BY <1>1, <1>8 DEF Passed, control
  <2>3. Left \cap Passed \in SUBSET Things
    BY DEF Left
  <2>4. IsFiniteSet(Left \cap Passed) /\ Cardinality(Left \cap Passed) \in Nat
    BY <2>3, LeftFinite
  <2>5. /\ Cardinality((Left \cap Passed)') <= Cardinality(Left \cap Passed)
        /\ Cardinality((Left \cap Passed)') \in Nat
    BY <2>2, <2>4, FS_Subset, FS_CardinalityType
  <2>6. Cardinality(Left \cap Passed) <= errors /\ errors \in Nat
        /\ (~failed => Left \cap Passed = {})
    BY <2>1 DEF IInv, ObjectsInv, PassedInv, ControlInv
  <2>7. Cardinality((Left \cap Passed)') <= errors
    BY <2>4, <2>5, <2>6
  <2> QED BY <2>2, <2>6, <2>7
<1>12. OneErrorOneObject' /\ NilMeansDeleted'
  BY <1>1 DEF OneErrorOneObject, NilMeansDeleted, control
<1>13. seen' \in Nat /\ failed' \in BOOLEAN
  BY <1>1 DEF IInv, ObjectsInv, control
<1>14. ObjectsInv'
  BY <1>4, <1>6, <1>9, <1>10, <1>11, <1>12, <1>13 DEF ObjectsInv
<1>15. ControlInv'
  BY <1>1 DEF IInv, ControlInv, control
<1>16. ConfigInv'
  BY <1>1 DEF IInv, ConfigInv, SnapshotInv, RestoreInv, SnapshotRestored, NetworkPolicyJSON, control
<1> QED BY <1>14, <1>15, <1>16 DEF IInv

-----------------------------------------------------------------------------
LEMMA NextInv == IInv /\ [Next]_vars => IInv'
<1> SUFFICES ASSUME IInv, [Next]_vars PROVE IInv'
  OBVIOUS
<1>1. CASE Test
  BY <1>1, SetupStep, RunSpecsStep, CleanupStep DEF Test
<1>2. CASE Reconcile
  BY <1>2, ReconcileStep
<1>3. CASE \E t \in Touched : OthersAct(t)
  BY <1>3, OthersStep, BoundAssumption
<1>4. CASE UNCHANGED vars
  <2>1. ControlInv'
    BY <1>4 DEF vars, cluster, control, bounds, IInv, ControlInv
  <2>2. ObjectsInv'
    BY <1>4 DEF vars, cluster, control, bounds, IInv, ObjectsInv, UidInv, SeenInv, PassedInv,
                Passed, Left, Thing, OneErrorOneObject, NilMeansDeleted
  <2>3. ConfigInv'
    BY <1>4 DEF vars, cluster, control, bounds, IInv, ConfigInv, SnapshotInv, RestoreInv,
                SnapshotRestored, AsBefore, SameFlag, NetworkPolicyJSON, NothingStored
  <2> QED BY <2>1, <2>2, <2>3 DEF IInv
<1> QED BY <1>1, <1>2, <1>3, <1>4 DEF Next, Finished

LEMMA Invariance == Spec => []IInv
<1> QED BY InitInv, NextInv, PTL DEF Spec

-----------------------------------------------------------------------------
\* Type correctness: uids are drawn in order, and the test is always inside the
\* script of its phase.
THEOREM TypeCorrect == Spec => []TypeOK
<1>1. IInv => TypeOK
  <2>1. SUFFICES ASSUME IInv PROVE TypeOK
    OBVIOUS
  <2>2. Len(SetupScript) = 19 /\ Len(DeleteOrder) = 9 /\ Len(RestoreScript) = 4 /\ Len(Specs) = 6
    BY SetupCalls, DeleteOrderFacts, RestoreCalls, SpecScripts
  <2> QED BY <2>1, <2>2 DEF TypeOK, IInv, ControlInv, Environments, ObjectsInv, ConfigInv
<1> QED BY <1>1, Invariance, PTL

\* A deletion that fails or is refused does not stop the others
\* (multicluster.go:584-713): no more of the run's objects are left than calls
\* have failed.
THEOREM OneErrorCostsOneObject == Spec => []OneErrorOneObject
<1>1. IInv => OneErrorOneObject
  BY DEF IInv, ObjectsInv
<1> QED BY <1>1, Invariance, PTL

\* Without an error from a deletion nothing of the run is left, however far Setup
\* came and whichever answers were lost (multicluster.go:556-583).
THEOREM NilMeansAllDeleted == Spec => []NilMeansDeleted
<1>1. IInv => NilMeansDeleted
  BY DEF IInv, ObjectsInv
<1> QED BY <1>1, Invariance, PTL

\* A completed snapshot is restored whenever restoreTektonConfig succeeds,
\* whatever the specs have done (multicluster.go:339-373).
THEOREM SnapshotIsRestored == Spec => []SnapshotRestored
<1>1. IInv => SnapshotRestored
  BY DEF IInv, ConfigInv
<1> QED BY <1>1, Invariance, PTL

=============================================================================
