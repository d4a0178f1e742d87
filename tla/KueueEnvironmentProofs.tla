----------------------- MODULE KueueEnvironmentProofs -----------------------
(***************************************************************************)
(* The safety properties of KueueEnvironment for any plan, any number of   *)
(* failing calls and any number of actions of others.  Nothing is          *)
(* forgotten because the cleanup of a mutation is on the stack before the  *)
(* mutation is made, and leaves it only when there is nothing left to do.  *)
(***************************************************************************)
EXTENDS KueueEnvironment, SequenceTheorems, TLAPS

Entries == [step : Idx, uid : Nat, paths : SUBSET FwPaths, orig : Values]
Objects == [uid : Nat, mine : BOOLEAN, terminating : BOOLEAN]

\* The stack holds one cleanup for each mutation begun, in the order of the
\* plan; that of the mutation under way is on top.
StackInv ==
  /\ \A k \in 1 .. Len(cleanups) : cleanups[k].step <= step
  /\ phase = "setup" /\ pc = "get" => \A k \in 1 .. Len(cleanups) : cleanups[k].step < step
  /\ phase = "setup" => pc # "delete"
  /\ phase = "setup" /\ pc # "get" =>
       /\ step <= Len(Plan) /\ cleanups # <<>> /\ Top.step = step
       /\ \A k \in 1 .. Len(cleanups) - 1 : cleanups[k].step < step

\* The test's objects are those of the mutations begun, and never a scheduler.
ObjInv ==
  /\ nextUid > 0
  /\ \A i \in Idx : obj[i].uid < nextUid
  /\ \A i \in Idx : obj[i].uid = 0 => ~obj[i].mine
  /\ \A i \in Idx : Plan[i] = "scheduler" => ~obj[i].mine
  /\ phase = "setup" =>
       \A i \in Idx : obj[i].mine => i < step \/ (i = step /\ pc = "wait")

\* A Kueue that is not there has no frameworks; the cleanup of one that was
\* there names every path the test has put its framework into.
KueueInv ==
  /\ \A i \in Idx : Plan[i] = "kueue" /\ obj[i].uid = 0 => \A p \in FwPaths : fw[p] = "none"
  /\ \A k \in 1 .. Len(cleanups) :
       Plan[cleanups[k].step] = "kueue" /\ cleanups[k].paths # {} =>
         /\ ~obj[cleanups[k].step].mine
         /\ \A p \in FwPaths : fw[p] = "test" => p \in cleanups[k].paths
  /\ phase = "setup" /\ pc = "apply" /\ Kind = "kueue" /\ Top.paths # {} =>
       Top.paths = snapshot.missing

\* What Cleanup knows of the top cleanup between two of its calls.
TopInv ==
  InCleanup /\ cleanups # <<>> =>
    /\ pc = "delete" => OwnedTop
    /\ pc = "wait" /\ TopKind = "scheduler" => sched.by = "admin"

\* What Cleanup waits for keeps its cleanup until it is gone.
AwaitedInv == \A i \in Idx : /\ Plan[i] \in Awaited /\ obj[i].mine => Registered(i)
                             /\ Plan[i] = "run" /\ named /\ queued => Registered(i)

\* The inductive invariant.
IInv == /\ TypeOK /\ StackInv /\ ObjInv /\ KueueInv /\ TopInv /\ AwaitedInv
        /\ NothingForgotten

-----------------------------------------------------------------------------
\* The plan is a sequence of kinds with at most one Kueue, scheduler and run.
LEMMA PlanFacts ==
  /\ Len(Plan) \in Nat /\ Idx = 1 .. Len(Plan)
  /\ \A i \in Idx : Plan[i] \in Kinds
  /\ \A i, j \in Idx : Plan[i] = Plan[j] /\ Plan[i] \in {"kueue", "scheduler", "run"} => i = j
BY PlanAssumption DEF Idx

\* What Push does to the stack.
LEMMA Pushed ==
  ASSUME cleanups \in Seq(Entries), NEW e \in Entries, Push(e)
  PROVE  /\ cleanups' \in Seq(Entries) /\ Len(cleanups') = Len(cleanups) + 1
         /\ Len(cleanups) \in Nat /\ cleanups' # <<>> /\ Top' = e
         /\ \A k \in 1 .. Len(cleanups) : cleanups'[k] = cleanups[k]
         /\ \A i : Registered(i) => Registered(i)'
         /\ Registered(e.step)'
<1>1. cleanups' = Append(cleanups, e)
  BY DEF Push
<1>2. /\ cleanups' \in Seq(Entries) /\ Len(cleanups') = Len(cleanups) + 1
      /\ Len(cleanups) \in Nat /\ cleanups' # <<>>
      /\ \A k \in 1 .. Len(cleanups) : cleanups'[k] = cleanups[k]
      /\ cleanups'[Len(cleanups')] = e
  BY <1>1, AppendProperties
<1>3. Len(cleanups') \in 1 .. Len(cleanups')
  BY <1>2
<1>4. Registered(e.step)'
  BY <1>2, <1>3 DEF Registered
<1>5. \A i : Registered(i) => Registered(i)'
  BY <1>2 DEF Registered
<1> QED BY <1>2, <1>4, <1>5 DEF Top

\* What removing the top does to the stack.
LEMMA Popped ==
  ASSUME cleanups \in Seq(Entries), cleanups # <<>>,
         cleanups' = SubSeq(cleanups, 1, Len(cleanups) - 1)
  PROVE  /\ cleanups' \in Seq(Entries) /\ Len(cleanups) \in Nat \ {0}
         /\ Len(cleanups') = Len(cleanups) - 1
         /\ \A k \in 1 .. Len(cleanups') : cleanups'[k] = cleanups[k]
         /\ \A i : Registered(i) /\ i # Top.step => Registered(i)'
<1>1. Len(cleanups) \in Nat /\ Len(cleanups) # 0
  BY EmptySeq
<1>2. \A k \in 1 .. Len(cleanups) - 1 : cleanups[k] \in Entries
  BY <1>1, ElementOfSeq
<1>3. /\ cleanups' \in Seq(Entries) /\ Len(cleanups') = Len(cleanups) - 1
      /\ \A k \in 1 .. Len(cleanups') : cleanups'[k] = cleanups[k]
  <2>1. Len(cleanups) - 1 \in Int
    BY <1>1
  <2>2. /\ cleanups' \in Seq(Entries)
        /\ Len(cleanups') = IF 1 <= Len(cleanups) - 1 THEN Len(cleanups) - 1 - 1 + 1 ELSE 0
        /\ \A k \in 1 .. Len(cleanups) - 1 - 1 + 1 : cleanups'[k] = cleanups[1 + k - 1]
    BY <1>2, <2>1, SubSeqProperties
  <2>3. Len(cleanups') = Len(cleanups) - 1
    <3> DEFINE n == Len(cleanups)
    <3>1. n \in Nat /\ n # 0
      BY <1>1
    <3>2. Len(cleanups') = IF 1 <= n - 1 THEN n - 1 - 1 + 1 ELSE 0
      BY <2>2
    <3> HIDE DEF n
    <3>3. Len(cleanups') = n - 1
      BY <3>1, <3>2
    <3> QED BY <3>3 DEF n
  <2>4. ASSUME NEW k \in 1 .. Len(cleanups') PROVE cleanups'[k] = cleanups[k]
    <3>1. k \in 1 .. Len(cleanups) - 1 - 1 + 1 /\ 1 + k - 1 = k
      BY <1>1, <2>3
    <3> QED BY <2>2, <3>1, Zenon
  <2> QED BY <2>2, <2>3, <2>4
<1>4. \A i : Registered(i) /\ i # Top.step => Registered(i)'
  BY <1>1, <1>3 DEF Registered, Top
<1> QED BY <1>1, <1>3, <1>4

-----------------------------------------------------------------------------
\* What the types say of the stack, of its top and of the objects.
LEMMA StackTypes ==
  ASSUME TypeOK
  PROVE  /\ cleanups \in Seq(Entries) /\ Len(cleanups) \in Nat
         /\ \A k \in 1 .. Len(cleanups) : cleanups[k] \in Entries
         /\ step \in 1 .. Len(Plan) + 1 /\ Len(Plan) \in Nat
<1>1. cleanups \in Seq(Entries) /\ step \in 1 .. Len(Plan) + 1
  BY DEF TypeOK, Entries
<1> QED BY <1>1, PlanFacts, ElementOfSeq

LEMMA TopFacts ==
  ASSUME TypeOK, cleanups # <<>>
  PROVE  /\ Len(cleanups) \in Nat \ {0} /\ Top = cleanups[Len(cleanups)]
         /\ Top \in Entries /\ Top.step \in Idx /\ TopKind \in Kinds
         /\ Registered(Top.step)
<1>1. Len(cleanups) \in Nat \ {0}
  BY StackTypes, EmptySeq
<1>2. Top \in Entries
  BY <1>1, StackTypes DEF Top
<1>3. Registered(Top.step)
  BY <1>1 DEF Registered, Top
<1> QED BY <1>1, <1>2, <1>3, PlanFacts DEF Top, TopKind, Entries

\* Before its first call a mutation is not on the stack.
LEMMA NotYet ==
  ASSUME IInv, InSetup("get")
  PROVE  ~Registered(step) /\ step \in Idx /\ Kind \in Kinds
<1>1. step \in Idx /\ Kind \in Kinds
  BY StackTypes, PlanFacts DEF IInv, InSetup, Kind
<1>2. ~Registered(step)
  BY <1>1, StackTypes DEF IInv, StackInv, InSetup, Registered, Entries, Idx
<1> QED BY <1>1, <1>2

-----------------------------------------------------------------------------
\* A step that leaves the clusters and the stack alone.
LEMMA QuietStep ==
  ASSUME IInv, UNCHANGED <<world, cleanups>>, queued' = queued, named' \in BOOLEAN,
         named' => named \/ \A i \in Idx : Plan[i] = "run" => Registered(i),
         errors' \in Nat, external' \in Nat, snapshot' = snapshot,
         phase' \in {"setup", "cleanup1", "cleanup2", "clean", "stopped"},
         pc' \in {"get", "apply", "wait", "delete"},
         pc' = "get" \/ phase' \in {"clean", "stopped"},
         step' = step \/ (step' = step + 1 /\ step <= Len(Plan)),
         phase' = "setup" => phase = "setup" /\ step' = step + 1
  PROVE  IInv'
<1> USE DEF IInv, world
<1>1. TypeOK'
  BY StackTypes DEF TypeOK
<1>2. StackInv'
  BY StackTypes DEF StackInv, Entries, Idx
<1>3. ObjInv'
  BY StackTypes DEF ObjInv, TypeOK, Idx
<1>4. KueueInv'
  BY DEF KueueInv
<1>5. TopInv'
  BY DEF TopInv, InCleanup
<1>6. AwaitedInv' /\ NothingForgotten'
  BY DEF AwaitedInv, NothingForgotten, Registered
<1> QED BY <1>1, <1>2, <1>3, <1>4, <1>5, <1>6

\* The cleanup of a mutation is pushed before the mutation is made.
LEMMA PushStep ==
  ASSUME IInv, InSetup("get"), NEW e \in Entries, e.step = step, Push(e), pc' = "apply",
         UNCHANGED <<world, phase, step, errors, external, workload>>,
         snapshot' \in [version : Nat, missing : SUBSET FwPaths],
         Kind = "kueue" /\ e.paths # {} => e.paths = snapshot'.missing
  PROVE  IInv'
<1> USE DEF IInv, world, workload
<1>1. /\ cleanups' \in Seq(Entries) /\ Len(cleanups') = Len(cleanups) + 1
      /\ Len(cleanups) \in Nat /\ cleanups' # <<>> /\ Top' = e
      /\ \A k \in 1 .. Len(cleanups) : cleanups'[k] = cleanups[k]
      /\ \A i : Registered(i) => Registered(i)'
  BY StackTypes, Pushed
<1>2. cleanups'[Len(cleanups')] = e
  BY <1>1 DEF Top
<1>3. /\ phase = "setup" /\ pc = "get" /\ step \in 1 .. Len(Plan) /\ Len(Plan) \in Nat
      /\ step \in Idx /\ ~Registered(step)
  BY StackTypes, NotYet DEF InSetup
<1>4. TypeOK'
  BY <1>1 DEF TypeOK, Entries
<1>5. StackInv'
  <2>1. \A k \in 1 .. Len(cleanups) : cleanups'[k].step < step
    BY <1>1, <1>3 DEF StackInv
  <2>2. \A k \in 1 .. Len(cleanups') : k \in 1 .. Len(cleanups) \/ cleanups'[k] = e
    BY <1>1, <1>2
  <2>3. \A k \in 1 .. Len(cleanups') : cleanups'[k].step <= step
    <3> SUFFICES ASSUME NEW k \in 1 .. Len(cleanups') PROVE cleanups'[k].step <= step
      OBVIOUS
    <3>1. CASE k \in 1 .. Len(cleanups)
      <4>1. cleanups[k] \in Entries /\ cleanups'[k] = cleanups[k]
        BY <1>1, <3>1, StackTypes
      <4>2. cleanups[k].step \in Idx
        BY <4>1 DEF Entries
      <4> QED BY <1>3, <2>1, <3>1, <4>1, <4>2 DEF Idx
    <3>2. CASE cleanups'[k] = e
      BY <1>3, <3>2
    <3> QED BY <2>2, <3>1, <3>2
  <2>4. Len(cleanups') - 1 = Len(cleanups)
    BY <1>1
  <2> QED BY <1>1, <1>3, <2>1, <2>3, <2>4 DEF StackInv
<1>6. ObjInv'
  BY <1>3 DEF ObjInv, Idx
<1>7. KueueInv'
  <2>1. ASSUME NEW k \in 1 .. Len(cleanups'), Plan[cleanups'[k].step] = "kueue",
               cleanups'[k].paths # {}
        PROVE  /\ ~obj[cleanups'[k].step].mine
               /\ \A p \in FwPaths : fw[p] = "test" => p \in cleanups'[k].paths
    <3>1. CASE k \in 1 .. Len(cleanups)
      BY <1>1, <2>1, <3>1 DEF KueueInv
    <3>2. CASE k = Len(cleanups')
      <4>1. ~obj[step].mine
        BY <1>3 DEF ObjInv
      <4>2. \A p \in FwPaths : fw[p] # "test"
        BY <1>2, <1>3, <2>1, <3>2 DEF NothingForgotten
      <4> QED BY <1>2, <3>2, <4>1, <4>2
    <3> QED BY <1>1, <3>1, <3>2
  <2> QED BY <1>1, <2>1 DEF KueueInv, Kind
<1>8. TopInv'
  BY <1>3 DEF TopInv, InCleanup
<1>9. AwaitedInv' /\ NothingForgotten'
  BY <1>1 DEF AwaitedInv, NothingForgotten
<1> QED BY <1>4, <1>5, <1>6, <1>7, <1>8, <1>9

\* Create is carried out, seen by Setup or not.
LEMMA CreateStep ==
  ASSUME IInv, InSetup("apply"), Kind \notin {"kueue", "scheduler"} \/ CreatesKueue,
         obj[step].uid = 0, Fresh(step),
         fw' = IF Kind = "kueue" THEN [p \in FwPaths |-> "test"] ELSE fw,
         UNCHANGED <<sched, version, external, workload, snapshot>>, errors' \in Nat,
         \/ /\ cleanups' = [cleanups EXCEPT ![Len(cleanups)].uid = nextUid]
            /\ phase' = phase
            /\ \/ step' = step + 1 /\ pc' = "get"
               \/ step' = step /\ pc' = "wait"
         \/ cleanups' = cleanups /\ phase' = "cleanup1" /\ step' = step /\ pc' = "get"
  PROVE  IInv'
<1> USE DEF IInv, workload
<1>1. /\ phase = "setup" /\ pc = "apply" /\ step \in 1 .. Len(Plan) /\ Len(Plan) \in Nat
      /\ step \in Idx /\ Kind \in Kinds
  BY StackTypes, PlanFacts DEF InSetup, Kind
<1>2. /\ cleanups # <<>> /\ Top.step = step /\ Len(cleanups) \in Nat \ {0}
      /\ Top = cleanups[Len(cleanups)] /\ Registered(step)
  BY <1>1, TopFacts DEF StackInv
<1>3. /\ cleanups' \in Seq(Entries) /\ Len(cleanups') = Len(cleanups)
      /\ \A k \in 1 .. Len(cleanups) :
           /\ cleanups'[k].step = cleanups[k].step /\ cleanups'[k].paths = cleanups[k].paths
           /\ cleanups[k].step \in Idx
  <2>1. CASE cleanups' = cleanups
    BY <2>1, StackTypes DEF Entries
  <2>2. CASE cleanups' = [cleanups EXCEPT ![Len(cleanups)].uid = nextUid]
    <3>1. cleanups' = [cleanups EXCEPT ![Len(cleanups)] = [Top EXCEPT !.uid = nextUid]]
      BY <1>2, <2>2
    <3>2. [Top EXCEPT !.uid = nextUid] \in Entries /\ Len(cleanups) \in 1 .. Len(cleanups)
      <4>1. nextUid \in Nat
        BY DEF TypeOK
      <4>2. Top \in Entries
        BY <1>2, TopFacts
      <4> QED BY <1>2, <4>1, <4>2 DEF Entries
    <3>3. /\ cleanups' \in Seq(Entries) /\ Len(cleanups') = Len(cleanups)
          /\ \A k \in 1 .. Len(cleanups) :
               cleanups'[k] = IF k = Len(cleanups) THEN [Top EXCEPT !.uid = nextUid] ELSE cleanups[k]
      BY <3>1, <3>2, StackTypes, ExceptSeq
    <3>4. \A k \in 1 .. Len(cleanups) : cleanups[k] \in Entries
      BY StackTypes
    <3> QED BY <1>2, <3>3, <3>4 DEF Entries
  <2> QED BY <2>1, <2>2
<1>4. \A i : Registered(i)' <=> Registered(i)
  BY <1>3 DEF Registered
<1>5. /\ nextUid \in Nat /\ nextUid > 0 /\ nextUid' = nextUid + 1
      /\ \A i \in Idx : obj'[i] = IF i = step THEN [uid |-> nextUid, mine |-> TRUE, terminating |-> FALSE]
                                  ELSE obj[i]
      /\ \A i \in Idx : obj[i] \in Objects /\ obj[i].uid < nextUid
  BY DEF Fresh, TypeOK, ObjInv, Objects
<1>6. TypeOK'
  <2>1. obj' \in [Idx -> [uid : 0 .. (nextUid' - 1), mine : BOOLEAN, terminating : BOOLEAN]]
    <3>1. \A i \in Idx : obj'[i] \in [uid : 0 .. (nextUid' - 1), mine : BOOLEAN, terminating : BOOLEAN]
      <4> SUFFICES ASSUME NEW i \in Idx
                   PROVE  obj'[i] \in [uid : 0 .. (nextUid' - 1), mine : BOOLEAN, terminating : BOOLEAN]
        OBVIOUS
      <4>1. CASE i = step
        <5>1. nextUid \in 0 .. (nextUid' - 1)
          BY <1>5
        <5>2. obj'[i] = [uid |-> nextUid, mine |-> TRUE, terminating |-> FALSE]
          BY <1>5, <4>1
        <5>3. TRUE \in BOOLEAN /\ FALSE \in BOOLEAN
          OBVIOUS
        <5> QED BY <5>1, <5>2, <5>3
      <4>2. CASE i # step
        <5>1. obj'[i] = obj[i] /\ obj[i] \in Objects /\ obj[i].uid < nextUid
          BY <1>5, <4>2
        <5> QED BY <1>5, <5>1 DEF Objects
      <4> QED BY <4>1, <4>2
    <3> QED BY <3>1 DEF Fresh, TypeOK
  <2>2. fw' \in [FwPaths -> Writers]
    BY DEF TypeOK, Writers
  <2>3. step' \in 1 .. Len(Plan) + 1
    BY <1>1
  <2> QED BY <1>1, <1>3, <1>5, <2>1, <2>2, <2>3 DEF TypeOK, Entries
<1>7. StackInv'
  <2>1. \A k \in 1 .. Len(cleanups) : cleanups'[k].step <= step /\ cleanups'[k].step \in Nat
    BY <1>1, <1>3 DEF StackInv, Idx
  <2> QED BY <1>1, <1>2, <1>3, <2>1 DEF StackInv, Top
<1>8. ObjInv'
  <2>1. Plan[step] # "scheduler"
    BY DEF Kind, CreatesKueue
  <2>2. \A i \in Idx : obj'[i].uid < nextUid'
    <3>2. \A i \in Idx : obj[i].uid \in Nat /\ obj[i].uid < nextUid
      BY <1>5 DEF Objects
    <3> QED BY <1>5, <3>2
  <2>3. phase' = "setup" =>
          \A i \in Idx : obj'[i].mine => i < step' \/ (i = step' /\ pc' = "wait")
    BY <1>1, <1>5 DEF ObjInv, Idx
  <2> QED BY <1>5, <2>1, <2>2, <2>3 DEF ObjInv
<1>9. KueueInv'
  <2>1. \A i \in Idx : Plan[i] = "kueue" /\ Kind = "kueue" => i = step
    BY <1>1, PlanFacts DEF Kind
  <2>2. ASSUME NEW i \in Idx, Plan[i] = "kueue", obj'[i].uid = 0
        PROVE  \A p \in FwPaths : fw'[p] = "none"
    BY <1>1, <1>5, <2>1, <2>2 DEF KueueInv, Kind
  <2>3. ASSUME NEW k \in 1 .. Len(cleanups'), Plan[cleanups'[k].step] = "kueue",
               cleanups'[k].paths # {}
        PROVE  /\ ~obj'[cleanups'[k].step].mine
               /\ \A p \in FwPaths : fw'[p] = "test" => p \in cleanups'[k].paths
    <3>1. /\ k \in 1 .. Len(cleanups) /\ Plan[cleanups[k].step] = "kueue"
          /\ cleanups[k].paths # {} /\ cleanups[k].step \in Idx
          /\ cleanups'[k].step = cleanups[k].step /\ cleanups'[k].paths = cleanups[k].paths
      BY <1>3, <2>3
    <3>2. cleanups[k].step # step
      <4>1. k # Len(cleanups)
        BY <1>2, <3>1 DEF CreatesKueue, Kind, Top
      <4> QED BY <1>1, <1>2, <3>1, <4>1 DEF StackInv
    <3>3. Kind # "kueue"
      BY <2>1, <3>1, <3>2
    <3>4. /\ ~obj[cleanups[k].step].mine
          /\ \A p \in FwPaths : fw[p] = "test" => p \in cleanups[k].paths
      BY <3>1 DEF KueueInv
    <3> QED BY <1>5, <3>1, <3>2, <3>3, <3>4
  <2> QED BY <2>2, <2>3 DEF KueueInv
<1>10. TopInv'
  BY <1>1 DEF TopInv, InCleanup
<1>11. AwaitedInv'
  BY <1>2, <1>4, <1>5 DEF AwaitedInv
<1>12. NothingForgotten'
  <2>1. \A i \in Idx : Plan[i] = "kueue" /\ Kind = "kueue" => i = step
    BY <1>1, PlanFacts DEF Kind
  <2> QED BY <1>2, <1>4, <1>5, <2>1 DEF NothingForgotten
<1> QED BY <1>6, <1>7, <1>8, <1>9, <1>10, <1>11, <1>12

\* The two updates of Setup.
LEMMA UpdateStep ==
  ASSUME IInv, InSetup("apply"),
         UNCHANGED <<obj, nextUid, phase, snapshot, cleanups, errors, external, workload>>,
         \/ /\ Kind = "kueue" /\ ~CreatesKueue /\ obj[step].uid # 0 /\ UNCHANGED sched
            /\ fw' = [p \in FwPaths |-> IF p \in snapshot.missing THEN "test" ELSE fw[p]]
            /\ version' = version + 1 /\ step' = step + 1 /\ pc' = "get"
         \/ /\ Kind = "scheduler" /\ UNCHANGED <<fw, version, step>> /\ pc' = "wait"
            /\ sched' \in [value : Values, by : {"test", "admin"}]
  PROVE  IInv'
<1> USE DEF IInv, workload
<1>1. /\ phase = "setup" /\ pc = "apply" /\ step \in 1 .. Len(Plan) /\ Len(Plan) \in Nat
      /\ step \in Idx /\ Kind \in Kinds
  BY StackTypes, PlanFacts DEF InSetup, Kind
<1>2. /\ cleanups # <<>> /\ Top.step = step /\ Len(cleanups) \in Nat \ {0}
      /\ Top = cleanups[Len(cleanups)] /\ Registered(step)
  BY <1>1, TopFacts DEF StackInv
<1>3. \A i \in Idx : Plan[i] = Kind /\ Kind \in {"kueue", "scheduler"} => i = step
  BY <1>1, PlanFacts DEF Kind
<1>4. TypeOK'
  BY <1>1 DEF TypeOK, Writers
<1>5. StackInv'
  <2>1. \A k \in 1 .. Len(cleanups) : cleanups[k].step <= step /\ cleanups[k].step \in Nat
    BY StackTypes DEF StackInv, Entries, Idx
  <2> QED BY <1>1, <2>1 DEF StackInv, Top
<1>6. ObjInv'
  BY <1>1 DEF ObjInv, Idx
<1>7. KueueInv'
  <2>1. CASE UNCHANGED fw /\ pc' = "wait"
    BY <1>1, <2>1 DEF KueueInv
  <2>2. CASE /\ Kind = "kueue" /\ ~CreatesKueue /\ obj[step].uid # 0 /\ pc' = "get"
             /\ fw' = [p \in FwPaths |-> IF p \in snapshot.missing THEN "test" ELSE fw[p]]
    <3>1. Top.paths # {} /\ Top.paths = snapshot.missing
      BY <1>1, <1>2, <2>2 DEF KueueInv, CreatesKueue
    <3>2. \A i \in Idx : Plan[i] = "kueue" => i = step
      BY <1>3, <2>2
    <3>3. ASSUME NEW k \in 1 .. Len(cleanups), Plan[cleanups[k].step] = "kueue",
                 cleanups[k].paths # {}
          PROVE  /\ ~obj[cleanups[k].step].mine
                 /\ \A p \in FwPaths : fw'[p] = "test" => p \in cleanups[k].paths
      <4>1. cleanups[k].step \in Idx
        BY StackTypes DEF Entries
      <4>2. cleanups[k].step = step
        BY <3>2, <3>3, <4>1
      <4>3. k = Len(cleanups)
        BY <1>1, <1>2, <4>2 DEF StackInv
      <4> QED BY <1>2, <2>2, <3>1, <3>3, <4>3 DEF KueueInv
    <3> QED BY <2>2, <3>2, <3>3 DEF KueueInv
  <2> QED BY <2>1, <2>2
<1>8. TopInv'
  BY <1>1 DEF TopInv, InCleanup
<1>9. AwaitedInv'
  BY DEF AwaitedInv, Registered
<1>10. NothingForgotten'
  <2>1. \A i : Registered(i)' <=> Registered(i)
    BY DEF Registered
  <2> QED BY <1>2, <1>3, <2>1 DEF NothingForgotten
<1> QED BY <1>4, <1>5, <1>6, <1>7, <1>8, <1>9, <1>10

-----------------------------------------------------------------------------
\* An object may get its deletion timestamp, and nothing else happens to it.
SameObjects ==
  /\ obj' \in [Idx -> [uid : 0 .. (nextUid - 1), mine : BOOLEAN, terminating : BOOLEAN]]
  /\ \A i \in Idx : /\ obj'[i].uid = obj[i].uid /\ obj'[i].mine = obj[i].mine
                    /\ obj[i].terminating => obj'[i].terminating

\* The top cleanup returns nil because nothing of its mutation is left.
LEMMA PopStep ==
  ASSUME IInv, InCleanup, cleanups # <<>>, Pop, SameObjects,
         UNCHANGED <<sched, nextUid, step, snapshot, errors, external, workload>>,
         TopKind = "run" /\ named => ~queued, version' \in Nat, fw' \in [FwPaths -> Writers],
         \A p \in FwPaths : fw'[p] # fw[p] => fw'[p] = "none",
         obj'[Top.step].mine => obj'[Top.step].terminating /\ TopKind \notin Awaited,
         TopKind = "kueue" => \A p \in FwPaths : fw'[p] # "test",
         TopKind = "scheduler" => sched.by = "admin"
  PROVE  IInv'
<1> USE DEF IInv
<1>1. cleanups' = SubSeq(cleanups, 1, Len(cleanups) - 1) /\ pc' = "get" /\ phase' = phase
  BY DEF Pop
<1>2. /\ cleanups' \in Seq(Entries) /\ Len(cleanups) \in Nat \ {0}
      /\ Len(cleanups') = Len(cleanups) - 1
      /\ \A k \in 1 .. Len(cleanups') : cleanups'[k] = cleanups[k] /\ k \in 1 .. Len(cleanups)
      /\ \A i : Registered(i) /\ i # Top.step => Registered(i)'
  BY <1>1, StackTypes, Popped
<1>3. phase # "setup" /\ Top.step \in Idx
  BY TopFacts DEF InCleanup
<1>4. TypeOK'
  <2>1. cleanups' \in Seq([step : Idx, uid : Nat, paths : SUBSET FwPaths, orig : Values])
    BY <1>2 DEF Entries
  <2>2. queued' \in BOOLEAN /\ named' \in BOOLEAN
    BY DEF TypeOK, workload
  <2> QED BY <1>1, <2>1, <2>2 DEF TypeOK, SameObjects
<1>5. StackInv'
  BY <1>1, <1>2, <1>3 DEF StackInv
<1>6. ObjInv'
  <2> QED BY <1>1, <1>3 DEF ObjInv, SameObjects
<1>7. KueueInv'
  <2>1. ASSUME NEW k \in 1 .. Len(cleanups'), Plan[cleanups'[k].step] = "kueue",
               cleanups'[k].paths # {}
        PROVE  /\ ~obj'[cleanups'[k].step].mine
               /\ \A p \in FwPaths : fw'[p] = "test" => p \in cleanups'[k].paths
    <3>1. cleanups[k].step \in Idx /\ cleanups'[k] = cleanups[k] /\ k \in 1 .. Len(cleanups)
      BY <1>2, StackTypes DEF Entries
    <3> QED BY <2>1, <3>1 DEF KueueInv, SameObjects
  <2>2. \A i \in Idx : Plan[i] = "kueue" /\ obj'[i].uid = 0 => \A p \in FwPaths : fw'[p] = "none"
    BY DEF KueueInv, SameObjects
  <2> QED BY <1>1, <1>3, <2>1, <2>2 DEF KueueInv
<1>8. TopInv'
  BY <1>1 DEF TopInv
<1>9. AwaitedInv'
  BY <1>2 DEF AwaitedInv, SameObjects, TopKind, workload
<1>10. NothingForgotten'
  <2>1. \A i \in Idx : obj'[i].mine /\ ~obj'[i].terminating => Registered(i)'
    BY <1>2 DEF NothingForgotten, SameObjects
  <2>2. \A i \in Idx : Plan[i] = "kueue" /\ ~Registered(i)' => \A p \in FwPaths : fw'[p] # "test"
    BY <1>2 DEF NothingForgotten, TopKind
  <2>3. \A i \in Idx : Plan[i] = "scheduler" /\ ~Registered(i)' => sched'.by = "admin"
    BY <1>2 DEF NothingForgotten, TopKind
  <2> QED BY <2>1, <2>2, <2>3 DEF NothingForgotten
<1> QED BY <1>4, <1>5, <1>6, <1>7, <1>8, <1>9, <1>10

\* The top cleanup stays on the stack, for its next call or for the next Cleanup.
LEMMA StayStep ==
  ASSUME IInv, InCleanup, SameObjects, cleanups' = cleanups,
         UNCHANGED <<fw, nextUid, version, step, snapshot, external, workload>>,
         errors' \in Nat,
         phase' \in {"cleanup1", "cleanup2", "stopped"}, pc' \in {"get", "wait", "delete"},
         sched' \in [value : Values, by : {"test", "admin"}],
         sched' = sched \/ sched'.by = "admin",
         TopInv'
  PROVE  IInv'
<1> USE DEF IInv, workload
<1>1. TypeOK'
  BY DEF TypeOK, SameObjects
<1>2. StackInv'
  BY DEF StackInv
<1>3. ObjInv'
  BY DEF ObjInv, SameObjects
<1>4. KueueInv'
  <2>1. \A k \in 1 .. Len(cleanups) : cleanups[k].step \in Idx
    BY StackTypes DEF Entries
  <2> QED BY <2>1 DEF KueueInv, SameObjects
<1>5. \A i : Registered(i)' <=> Registered(i)
  BY DEF Registered
<1>6. AwaitedInv' /\ NothingForgotten'
  BY <1>5 DEF AwaitedInv, NothingForgotten, SameObjects
<1> QED BY <1>1, <1>2, <1>3, <1>4, <1>6

\* Others, and finalizers, act.
LEMMA OutsideStep ==
  ASSUME IInv, UNCHANGED <<local, errors, named>>, queued' \in BOOLEAN,
         queued' => queued \/ \A i \in Idx : Plan[i] = "run" => Registered(i),
         external' \in Nat, version' \in Nat,
         nextUid' \in {nextUid, nextUid + 1},
         obj' \in [Idx -> Objects],
         \A i \in Idx : \/ obj'[i] = obj[i]
                        \/ ~obj'[i].mine /\ obj'[i].uid = 0
                        \/ ~obj'[i].mine /\ obj'[i].uid = nextUid /\ nextUid' = nextUid + 1,
         fw' \in [FwPaths -> Writers], \A p \in FwPaths : fw'[p] = "test" => fw[p] = "test",
         \A i \in Idx : Plan[i] = "kueue" /\ obj'[i].uid = 0 => \A p \in FwPaths : fw'[p] = "none",
         sched' \in [value : Values, by : {"test", "admin"}],
         sched' = sched \/ sched'.by = "admin"
  PROVE  IInv'
<1> USE DEF IInv, local
<1>1. nextUid \in Nat /\ nextUid > 0 /\ nextUid' \in Nat /\ nextUid <= nextUid'
  BY DEF TypeOK, ObjInv
<1>2. \A i \in Idx : obj[i].uid \in Nat /\ obj[i].uid < nextUid
  BY DEF TypeOK, ObjInv
<1>3. \A i \in Idx : obj'[i].uid \in Nat /\ obj'[i].uid < nextUid'
  BY <1>1, <1>2
<1>4. TypeOK'
  <2>1. obj' \in [Idx -> [uid : 0 .. (nextUid' - 1), mine : BOOLEAN, terminating : BOOLEAN]]
    <3>1. \A i \in Idx : obj'[i].uid \in 0 .. (nextUid' - 1)
      BY <1>1, <1>3
    <3> QED BY <3>1 DEF Objects
  <2> QED BY <1>1, <2>1 DEF TypeOK
<1>5. \A i \in Idx : obj'[i].mine => obj'[i] = obj[i]
  OBVIOUS
<1>6. StackInv' 
  BY DEF StackInv, Top
<1>7. ObjInv'
  <2>1. nextUid' > 0
    BY <1>1
  <2>2. \A i \in Idx : obj'[i].uid = 0 => ~obj'[i].mine
    BY <1>5 DEF ObjInv
  <2>3. /\ \A i \in Idx : Plan[i] = "scheduler" => ~obj'[i].mine
        /\ phase' = "setup" =>
             \A i \in Idx : obj'[i].mine => i < step' \/ (i = step' /\ pc' = "wait")
    BY <1>5 DEF ObjInv
  <2> QED BY <1>3, <2>1, <2>2, <2>3 DEF ObjInv
<1>8. KueueInv'
  <2>1. \A k \in 1 .. Len(cleanups) : cleanups[k].step \in Idx
    BY StackTypes DEF Entries
  <2>2. \A k \in 1 .. Len(cleanups) :
          Plan[cleanups[k].step] = "kueue" /\ cleanups[k].paths # {} =>
            /\ ~obj'[cleanups[k].step].mine
            /\ \A p \in FwPaths : fw'[p] = "test" => p \in cleanups[k].paths
    BY <1>5, <2>1 DEF KueueInv
  <2> QED BY <2>2 DEF KueueInv, Kind, Top
<1>9. TopInv'
  BY DEF TopInv, InCleanup, OwnedTop, Top, TopKind
<1>10. \A i : Registered(i)' <=> Registered(i)
  BY DEF Registered
<1>11. AwaitedInv' /\ NothingForgotten'
  BY <1>5, <1>10 DEF AwaitedInv, NothingForgotten
<1> QED BY <1>4, <1>6, <1>7, <1>8, <1>9, <1>11

-----------------------------------------------------------------------------
\* Initially nothing is begun, and only the Kueue may be there.
LEMMA InitInv == Init => IInv
<1> SUFFICES ASSUME Init PROVE IInv
  OBVIOUS
<1>1. PICK installed \in BOOLEAN, present \in SUBSET FwPaths :
        /\ obj = [i \in Idx |-> IF installed /\ Plan[i] = "kueue"
                                  THEN [Absent EXCEPT !.uid = 1] ELSE Absent]
        /\ fw = [p \in FwPaths |-> IF installed /\ p \in present THEN "admin" ELSE "none"]
  BY DEF Init
<1>2. /\ \A i \in Idx : ~obj[i].mine /\ ~obj[i].terminating /\ obj[i].uid \in {0, 1}
      /\ \A i \in Idx : Plan[i] = "kueue" /\ obj[i].uid = 0 => ~installed
      /\ \A p \in FwPaths : fw[p] \in {"none", "admin"} /\ (~installed => fw[p] = "none")
  BY <1>1 DEF Absent
<1>3. /\ sched = [value |-> "v0", by |-> "admin"] /\ nextUid = 2 /\ version = 0
      /\ phase = "setup" /\ step = 1 /\ pc = "get" /\ cleanups = <<>>
      /\ snapshot = [version |-> 0, missing |-> {}] /\ errors = 0 /\ external = 0
      /\ queued = FALSE /\ named = FALSE
  BY DEF Init
<1>4. TypeOK
  <2>1. obj \in [Idx -> [uid : 0 .. (nextUid - 1), mine : BOOLEAN, terminating : BOOLEAN]]
    <3>1. {0, 1} \subseteq 0 .. (nextUid - 1)
      BY <1>3
    <3>2. obj \in [Idx -> [uid : {0, 1}, mine : BOOLEAN, terminating : BOOLEAN]]
      BY <1>1 DEF Absent
    <3> QED BY <3>1, <3>2
  <2>2. fw \in [FwPaths -> Writers]
    BY <1>1 DEF Writers
  <2>3. cleanups \in Seq([step : Idx, uid : Nat, paths : SUBSET FwPaths, orig : Values])
    BY <1>3
  <2>4. queued \in BOOLEAN /\ named \in BOOLEAN
    BY <1>3
  <2>5. step \in 1 .. Len(Plan) + 1
    BY <1>3, PlanFacts
  <2> QED BY <1>3, <2>1, <2>2, <2>3, <2>4, <2>5 DEF TypeOK, Values
<1>5. StackInv /\ KueueInv /\ TopInv
  BY <1>2, <1>3 DEF StackInv, KueueInv, TopInv, InCleanup
<1>6. ObjInv
  BY <1>2, <1>3 DEF ObjInv
<1>7. AwaitedInv /\ NothingForgotten
  BY <1>2, <1>3 DEF AwaitedInv, NothingForgotten
<1> QED BY <1>4, <1>5, <1>6, <1>7 DEF IInv

\* Setup.
LEMMA SetupStep == ASSUME IInv, Setup PROVE IInv'
<1> USE DEF BeginCleanup, NextStep, workload
<1>1. /\ errors \in Nat /\ external \in Nat /\ version \in Nat
      /\ phase \in {"setup", "cleanup1", "cleanup2", "clean", "stopped"}
      /\ pc \in {"get", "apply", "wait", "delete"} /\ named \in BOOLEAN
  BY DEF IInv, TypeOK
<1>2. CASE SetupError
  BY <1>1, <1>2, QuietStep DEF SetupError
<1>3. CASE RegisterOwned
  <2>1. CASE Kind \in Checked /\ obj[step].uid # 0
    BY <1>1, <1>3, <2>1, QuietStep DEF RegisterOwned
  <2>2. CASE ~(Kind \in Checked /\ obj[step].uid # 0)
    <3>1. /\ Entry(step, {}, "v0") \in Entries /\ Entry(step, {}, "v0").step = step
          /\ Entry(step, {}, "v0").paths = {}
      BY <1>3, NotYet DEF RegisterOwned, Entry, Entries, Values
    <3>2. /\ InSetup("get") /\ Push(Entry(step, {}, "v0")) /\ pc' = "apply"
          /\ UNCHANGED <<world, phase, step, snapshot, errors, external, workload>>
      BY <1>3, <2>2 DEF RegisterOwned
    <3> QED BY <3>1, <3>2, PushStep DEF IInv, TypeOK
  <2> QED BY <2>1, <2>2
<1>4. CASE ReadKueue
  <2> DEFINE missing == {p \in FwPaths : fw[p] = "none"}
             e == Entry(step, IF obj[step].uid = 0 THEN {} ELSE missing, "v0")
  <2>1. CASE obj[step].uid # 0 /\ missing = {}
    BY <1>1, <1>4, <2>1, QuietStep DEF ReadKueue, InSetup
  <2>2. CASE ~(obj[step].uid # 0 /\ missing = {})
    <3>1. /\ e \in Entries /\ e.step = step
          /\ e.paths # {} => e.paths = missing
      BY <1>4, NotYet DEF ReadKueue, Entry, Entries, Values
    <3>2. /\ InSetup("get") /\ Push(e) /\ pc' = "apply"
          /\ UNCHANGED <<world, phase, step, errors, external, workload>>
          /\ snapshot' = [version |-> version, missing |-> missing]
      BY <1>4, <2>2 DEF ReadKueue
    <3>3. snapshot' \in [version : Nat, missing : SUBSET FwPaths]
      BY <1>1, <3>2
    <3> HIDE DEF e, missing
    <3> QED BY <3>1, <3>2, <3>3, PushStep
  <2> QED BY <2>1, <2>2
<1>5. CASE CreateOwned
  BY <1>1, <1>5, CreateStep DEF CreateOwned
<1>6. CASE CreateOwnedUnseen
  BY <1>1, <1>6, CreateStep DEF CreateOwnedUnseen
<1>7. CASE CreateOwnedExists
  BY <1>1, <1>7, QuietStep DEF CreateOwnedExists
<1>8. CASE UpdateKueue
  <2>1. CASE obj[step].uid # 0 /\ version = snapshot.version
    BY <1>8, <2>1, UpdateStep DEF UpdateKueue
  <2>2. CASE ~(obj[step].uid # 0 /\ version = snapshot.version)
    BY <1>1, <1>8, <2>2, QuietStep DEF UpdateKueue, world
  <2> QED BY <2>1, <2>2
<1>9. CASE ReadScheduler
  <2>1. /\ Entry(step, {}, Original) \in Entries /\ Entry(step, {}, Original).step = step
        /\ Entry(step, {}, Original).paths = {}
    BY <1>9, NotYet DEF ReadScheduler, Entry, Entries, Original, IInv, TypeOK
  <2>2. /\ InSetup("get") /\ Push(Entry(step, {}, Original)) /\ pc' = "apply"
        /\ UNCHANGED <<world, phase, step, snapshot, errors, external, workload>>
    BY <1>9 DEF ReadScheduler
  <2> QED BY <2>1, <2>2, PushStep DEF IInv, TypeOK
<1>10. CASE UpdateScheduler
  <2>1. sched' \in [value : Values, by : {"test", "admin"}]
    BY <1>10 DEF UpdateScheduler, IInv, TypeOK, Values
  <2> QED BY <1>10, <2>1, UpdateStep DEF UpdateScheduler
<1>11. CASE SchedulerReady
  BY <1>1, <1>11, QuietStep DEF SchedulerReady, InSetup
<1>13. CASE WaitForHubWorkload
  <2>1. /\ phase = "setup" /\ pc = "wait" /\ step \in Idx /\ step <= Len(Plan) /\ Kind = "run"
        /\ UNCHANGED <<world, cleanups, queued, errors, external>>
    BY <1>13, StackTypes, PlanFacts DEF WaitForHubWorkload, InSetup, IInv
  <2>2. \A i \in Idx : Plan[i] = "run" => Registered(i)
    <3>1. Registered(step)
      BY <2>1, TopFacts DEF IInv, StackInv
    <3> QED BY <2>1, <3>1, PlanFacts DEF Kind
  <2>3. CASE queued /\ named' = TRUE /\ NextStep
    BY <1>1, <2>1, <2>2, <2>3, QuietStep
  <2>4. CASE ~queued /\ UNCHANGED named /\ BeginCleanup
    BY <1>1, <2>1, <2>4, QuietStep
  <2> QED BY <1>13, <2>3, <2>4 DEF WaitForHubWorkload
<1>12. CASE EndTest
  BY <1>1, <1>12, QuietStep DEF EndTest
<1> QED BY <1>2, <1>3, <1>4, <1>5, <1>6, <1>7, <1>8, <1>9, <1>10, <1>11, <1>12, <1>13 DEF Setup

\* A cleanup returns an error: the stack stays as it is.
LEMMA FailStep ==
  ASSUME IInv, InCleanup, CleanupFails, SameObjects,
         UNCHANGED <<fw, sched, nextUid, version, step, snapshot, external, workload>>,
         errors' \in Nat
  PROVE  IInv'
<1>1. cleanups' = cleanups /\ pc' = "get" /\ phase' \in {"cleanup2", "stopped"}
  BY DEF CleanupFails, Kept, AfterFailure
<1>2. TopInv' /\ sched' \in [value : Values, by : {"test", "admin"}]
  BY <1>1 DEF TopInv, IInv, TypeOK
<1> QED BY <1>1, <1>2, StayStep

\* Nothing happens to the objects.
LEMMA SameStay == ASSUME IInv, UNCHANGED obj PROVE SameObjects
BY DEF IInv, TypeOK, SameObjects

\* One more deletion timestamp, on an object that is there.
LEMMA Terminate ==
  ASSUME IInv, NEW i \in Idx, NEW t \in BOOLEAN,
         obj[i].terminating => t, obj' = [obj EXCEPT ![i].terminating = t]
  PROVE  /\ SameObjects /\ obj'[i].terminating = t
<1>1. \A j \in Idx : obj'[j] = IF j = i THEN [obj[j] EXCEPT !.terminating = t] ELSE obj[j]
  BY DEF IInv, TypeOK
<1>2. obj' \in [Idx -> [uid : 0 .. (nextUid - 1), mine : BOOLEAN, terminating : BOOLEAN]]
  BY DEF IInv, TypeOK
<1>3. \A j \in Idx : obj[j] \in [uid : 0 .. (nextUid - 1), mine : BOOLEAN, terminating : BOOLEAN]
  BY DEF IInv, TypeOK
<1> QED BY <1>1, <1>2, <1>3 DEF SameObjects

\* Cleanup.
LEMMA CleanupStep == ASSUME IInv, Cleanup PROVE IInv'
<1> USE DEF workload
<1>1. /\ errors \in Nat /\ external \in Nat /\ version \in Nat
      /\ named \in BOOLEAN
      /\ phase \in {"setup", "cleanup1", "cleanup2", "clean", "stopped"}
      /\ pc \in {"get", "apply", "wait", "delete"}
      /\ fw \in [FwPaths -> Writers] /\ sched \in [value : Values, by : {"test", "admin"}]
      /\ nextUid > 0 /\ nextUid \in Nat
  BY DEF IInv, TypeOK, ObjInv
<1>2. ASSUME InCleanup, cleanups # <<>>
      PROVE  /\ Top.step \in Idx /\ TopKind \in Kinds /\ phase \in {"cleanup1", "cleanup2"}
             /\ obj[Top.step].uid = 0 => ~obj[Top.step].mine
             /\ TopKind = "scheduler" => ~obj[Top.step].mine
             /\ TopKind = "kueue" /\ obj[Top.step].uid = 0 => \A p \in FwPaths : fw[p] = "none"
             /\ obj[Top.step].uid < nextUid /\ obj[Top.step].uid \in Nat
             /\ obj[Top.step].terminating \in BOOLEAN
  <2>1. Top.step \in Idx /\ TopKind \in Kinds
    BY <1>2, TopFacts DEF IInv
  <2>2. obj[Top.step].uid \in Nat /\ obj[Top.step].terminating \in BOOLEAN
    BY <2>1 DEF IInv, TypeOK
  <2> QED BY <1>2, <2>1, <2>2 DEF IInv, ObjInv, KueueInv, TopKind, InCleanup
<1>3. CASE CleanupError
  <2>1. InCleanup /\ CleanupFails /\ errors' \in Nat
        /\ UNCHANGED <<world, step, snapshot, external, workload>>
    BY <1>1, <1>3 DEF CleanupError
  <2> QED BY <2>1, SameStay, FailStep DEF world
<1>4. CASE GetOwned
  <2> DEFINE o == obj[Top.step]
  <2>1. /\ InCleanup /\ cleanups # <<>> /\ pc = "get" /\ OwnedTop
        /\ UNCHANGED <<world, step, snapshot, errors, external, workload>>
    BY <1>4 DEF GetOwned, Running
  <2>2. SameObjects
    BY <2>1, SameStay DEF world
  <2>3. CASE o.uid = 0 /\ TopKind # "run" /\ Pop
    BY <1>1, <1>2, <2>1, <2>2, <2>3, PopStep DEF world, OwnedTop
  <2>4. CASE o.uid = 0 /\ TopKind = "run" /\ pc' = "wait" /\ UNCHANGED <<phase, cleanups>>
    <3>1. TopInv'
      BY <2>1, <2>4 DEF TopInv, TopKind, Top
    <3> QED BY <1>1, <1>2, <2>1, <2>2, <2>4, <3>1, StayStep DEF world
  <2>5. CASE CleanupFails
    BY <1>1, <2>1, <2>2, <2>5, FailStep DEF world
  <2>6. CASE /\ o.uid # 0 /\ Owns(o, Top.uid) /\ pc' = "delete"
             /\ UNCHANGED <<phase, cleanups>>
    <3>1. TopInv'
      BY <1>2, <2>1, <2>6 DEF TopInv, OwnedTop, TopKind, Top, Owns, world
    <3> QED BY <1>1, <1>2, <2>1, <2>2, <2>6, <3>1, StayStep DEF world
  <2> QED BY <1>4, <2>3, <2>4, <2>5, <2>6 DEF GetOwned, AlreadyGone
<1>5. ASSUME Running("delete"), NEW t \in BOOLEAN, obj[Top.step].terminating => t,
             obj' = [obj EXCEPT ![Top.step].terminating = t]
      PROVE  /\ InCleanup /\ cleanups # <<>> /\ OwnedTop /\ SameObjects
             /\ obj'[Top.step].terminating = t
  <2>1. InCleanup /\ cleanups # <<>> /\ pc = "delete"
    BY <1>5 DEF Running
  <2>2. OwnedTop
    BY <2>1 DEF IInv, TopInv
  <2>4. Top.step \in Idx
    BY <1>2, <2>1
  <2>5. SameObjects /\ obj'[Top.step].terminating = t
    BY <1>5, <2>4, Terminate
  <2> QED BY <2>1, <2>2, <2>5
<1>6. CASE DeleteOwned
  <2> DEFINE t == obj[Top.step].terminating \/ obj[Top.step].uid # 0
  <2>1. /\ Running("delete") /\ obj' = [obj EXCEPT ![Top.step].terminating = t]
        /\ UNCHANGED <<fw, sched, nextUid, version, step, snapshot, errors, external, workload>>
    BY <1>6 DEF DeleteOwned
  <2>2. t \in BOOLEAN /\ (obj[Top.step].terminating => t)
    OBVIOUS
  <2>3. /\ InCleanup /\ cleanups # <<>> /\ OwnedTop /\ SameObjects
        /\ obj'[Top.step].terminating = t
    <3> HIDE DEF t
    <3> QED BY <1>5, <2>1, <2>2
  <2>4. CASE Waits(TopKind) /\ pc' = "wait" /\ UNCHANGED <<phase, cleanups>>
    <3>1. TopKind # "scheduler"
      BY <2>4 DEF Waits, Awaited
    <3>2. TopInv'
      BY <2>1, <2>4, <3>1 DEF TopInv, TopKind, Top
    <3> QED BY <1>1, <1>2, <2>1, <2>3, <2>4, <3>2, StayStep
  <2>5. CASE ~Waits(TopKind) /\ Pop
    <3>1. TopKind \notin {"kueue", "scheduler", "run"} /\ TopKind \notin Awaited
      BY <2>3, <2>5 DEF Waits, Awaited, OwnedTop
    <3>2. obj'[Top.step].mine => obj'[Top.step].terminating /\ TopKind \notin Awaited
      BY <1>2, <2>3, <3>1 DEF SameObjects
    <3> QED BY <1>1, <2>1, <2>3, <2>5, <3>1, <3>2, PopStep
  <2> QED BY <1>6, <2>4, <2>5 DEF DeleteOwned
<1>7. CASE DeleteOwnedUnseen
  <2>1. /\ Running("delete") /\ obj' = [obj EXCEPT ![Top.step].terminating = TRUE]
        /\ CleanupFails /\ errors' \in Nat
        /\ UNCHANGED <<fw, sched, nextUid, version, step, snapshot, external, workload>>
    BY <1>1, <1>7 DEF DeleteOwnedUnseen
  <2>2. InCleanup /\ SameObjects
    BY <1>5, <2>1
  <2> QED BY <2>1, <2>2, FailStep
<1>8. CASE ObservedGone
  <2>1. /\ InCleanup /\ cleanups # <<>> /\ pc = "wait" /\ OwnedTop
        /\ UNCHANGED <<world, step, snapshot, errors, external, workload>>
        /\ (Gone(Top.step) /\ Pop) \/ CleanupFails
    BY <1>8 DEF ObservedGone, Running
  <2>2. SameObjects
    BY <2>1, SameStay DEF world
  <2>3. CASE Gone(Top.step) /\ Pop
    BY <1>1, <1>2, <2>1, <2>2, <2>3, PopStep DEF world, OwnedTop, Gone, TopKind
  <2>4. CASE CleanupFails
    BY <1>1, <2>1, <2>2, <2>4, FailStep DEF world
  <2> QED BY <2>1, <2>3, <2>4
<1>9. CASE RestoreKueue
  <2>1. /\ InCleanup /\ cleanups # <<>> /\ TopKind = "kueue" /\ Top.paths # {}
        /\ UNCHANGED <<obj, sched, nextUid, step, snapshot, errors, external, workload>>
    BY <1>9 DEF RestoreKueue, Running
  <2>2. SameObjects
    BY <2>1, SameStay
  <2>3. CASE CleanupFails /\ UNCHANGED <<fw, version>>
    BY <1>1, <2>1, <2>2, <2>3, FailStep
  <2>4. CASE /\ fw' = [p \in FwPaths |-> IF p \in Top.paths THEN "none" ELSE fw[p]]
             /\ version' = version + 1 /\ Pop
    <3>1. /\ ~obj[Top.step].mine
          /\ \A p \in FwPaths : fw[p] = "test" => p \in Top.paths
      <4>1. Len(cleanups) \in 1 .. Len(cleanups) /\ Top = cleanups[Len(cleanups)]
        BY <2>1, TopFacts DEF IInv
      <4> QED BY <2>1, <4>1 DEF IInv, KueueInv, TopKind
    <3>2. fw' \in [FwPaths -> Writers] /\ version' \in Nat
      BY <1>1, <2>4 DEF Writers
    <3>3. /\ \A p \in FwPaths : fw'[p] # fw[p] => fw'[p] = "none"
          /\ \A p \in FwPaths : fw'[p] # "test"
      BY <2>4, <3>1
    <3> QED BY <1>1, <2>1, <2>2, <2>4, <3>1, <3>2, <3>3, PopStep
  <2> QED BY <1>9, <2>3, <2>4 DEF RestoreKueue
<1>10. CASE RestoreScheduler
  <2>1. /\ InCleanup /\ cleanups # <<>> /\ TopKind = "scheduler"
        /\ UNCHANGED <<obj, fw, nextUid, version, step, snapshot, errors, external, workload>>
    BY <1>10 DEF RestoreScheduler, Running
  <2>2. SameObjects
    BY <2>1, SameStay
  <2>3. CASE CleanupFails /\ UNCHANGED sched
    BY <1>1, <2>1, <2>2, <2>3, FailStep
  <2>4. CASE /\ sched' = [value |-> Top.orig, by |-> "admin"]
             /\ pc' = "wait" /\ UNCHANGED <<phase, cleanups>>
    <3>1. sched' \in [value : Values, by : {"test", "admin"}] /\ sched'.by = "admin"
      BY <2>1, <2>4, TopFacts DEF IInv, Entries
    <3>2. TopInv'
      BY <2>4, <3>1 DEF TopInv
    <3> QED BY <1>1, <1>2, <2>1, <2>2, <2>4, <3>1, <3>2, StayStep
  <2> QED BY <1>10, <2>3, <2>4 DEF RestoreScheduler
<1>11. CASE SchedulerRestored
  <2>1. /\ InCleanup /\ cleanups # <<>> /\ pc = "wait" /\ TopKind = "scheduler" /\ Pop
        /\ UNCHANGED <<world, step, snapshot, errors, external, workload>>
    BY <1>11 DEF SchedulerRestored, Running
  <2>2. SameObjects /\ sched.by = "admin"
    BY <2>1, SameStay DEF IInv, TopInv, world
  <2> QED BY <1>1, <1>2, <2>1, <2>2, PopStep DEF world
<1>12. CASE CleanupReturns
  BY <1>1, <1>12, QuietStep DEF CleanupReturns, InCleanup
<1> QED BY <1>3, <1>4, <1>6, <1>7, <1>8, <1>9, <1>10, <1>11, <1>12 DEF Cleanup

\* Others and finalizers.
LEMMA OutsideSteps ==
  ASSUME IInv, \/ Environment \/ CollectWorkload
               \/ \E i \in Idx : Vanish(i) \/ QueueWorkload(i)
  PROVE  IInv'
<1> USE DEF Outside, workload
<1>1. /\ errors \in Nat /\ external \in Nat /\ version \in Nat /\ nextUid \in Nat
      /\ queued \in BOOLEAN /\ obj \in [Idx -> Objects] /\ fw \in [FwPaths -> Writers]
      /\ sched \in [value : Values, by : {"test", "admin"}]
      /\ \A i \in Idx : Plan[i] = "kueue" /\ obj[i].uid = 0 => \A p \in FwPaths : fw[p] = "none"
  <2>1. obj \in [Idx -> Objects]
    BY DEF IInv, TypeOK, Objects
  <2> QED BY <2>1 DEF IInv, TypeOK, KueueInv
<1>2. [uid |-> nextUid, mine |-> FALSE, terminating |-> FALSE] \in Objects /\ Absent \in Objects
  BY <1>1 DEF Objects, Absent
<1>3. \A i, j \in Idx : Plan[i] = "kueue" /\ Plan[j] = "kueue" => i = j
  BY PlanFacts
<1>4. ASSUME NEW i \in Idx, Vanish(i) PROVE IInv'
  <2>1. \A j \in Idx : obj'[j] = IF j = i THEN Absent ELSE obj[j]
    BY <1>1, <1>4 DEF Vanish
  <2>2. obj' \in [Idx -> Objects]
    BY <1>1, <1>2, <1>4 DEF Vanish
  <2>3. /\ fw' \in [FwPaths -> Writers] /\ \A p \in FwPaths : fw'[p] = "test" => fw[p] = "test"
        /\ Plan[i] = "kueue" => \A p \in FwPaths : fw'[p] = "none"
        /\ Plan[i] # "kueue" => fw' = fw
    BY <1>1, <1>4 DEF Vanish, Writers
  <2>4. \A j \in Idx : Plan[j] = "kueue" /\ obj'[j].uid = 0 => \A p \in FwPaths : fw'[p] = "none"
    BY <1>1, <1>3, <2>1, <2>3
  <2> QED BY <1>1, <1>4, <2>1, <2>2, <2>3, <2>4, OutsideStep DEF Vanish, Absent
<1>5. ASSUME NEW i \in Idx, OthersCreate(i) PROVE IInv'
  <2>1. \A j \in Idx : obj'[j] = IF j = i THEN [uid |-> nextUid, mine |-> FALSE, terminating |-> FALSE]
                                 ELSE obj[j]
    BY <1>1, <1>5 DEF OthersCreate
  <2>2. obj' \in [Idx -> Objects]
    BY <1>1, <1>2, <1>5 DEF OthersCreate
  <2>3. \A j \in Idx : Plan[j] = "kueue" /\ obj'[j].uid = 0 => \A p \in FwPaths : fw'[p] = "none"
    <3>1. nextUid > 0
      BY DEF IInv, ObjInv
    <3> QED BY <1>1, <1>5, <2>1, <3>1 DEF OthersCreate
  <2> QED BY <1>1, <1>5, <2>1, <2>2, <2>3, OutsideStep DEF OthersCreate
<1>6. ASSUME NEW i \in Idx, OthersReplace(i) PROVE IInv'
  <2>1. \A j \in Idx : obj'[j] = IF j = i THEN [uid |-> nextUid, mine |-> FALSE, terminating |-> FALSE]
                                 ELSE obj[j]
    BY <1>1, <1>6 DEF OthersReplace
  <2>2. obj' \in [Idx -> Objects]
    BY <1>1, <1>2, <1>6 DEF OthersReplace
  <2>3. /\ fw' \in [FwPaths -> Writers] /\ \A p \in FwPaths : fw'[p] = "test" => fw[p] = "test"
        /\ \A p \in FwPaths : fw'[p] # fw[p] => fw'[p] = "none"
    BY <1>1, <1>6 DEF OthersReplace, Writers
  <2>4. \A j \in Idx : Plan[j] = "kueue" /\ obj'[j].uid = 0 => \A p \in FwPaths : fw'[p] = "none"
    <3>1. nextUid > 0
      BY DEF IInv, ObjInv
    <3> QED BY <1>1, <2>1, <2>3, <3>1
  <2> QED BY <1>1, <1>6, <2>1, <2>2, <2>3, <2>4, OutsideStep DEF OthersReplace
<1>7. ASSUME NEW i \in Idx, OthersDelete(i) PROVE IInv'
  <2>1. \A j \in Idx : obj'[j] = IF j = i THEN Absent ELSE obj[j]
    BY <1>1, <1>7 DEF OthersDelete
  <2>2. obj' \in [Idx -> Objects]
    BY <1>1, <1>2, <1>7 DEF OthersDelete
  <2>3. /\ fw' \in [FwPaths -> Writers] /\ \A p \in FwPaths : fw'[p] = "test" => fw[p] = "test"
        /\ Plan[i] = "kueue" => \A p \in FwPaths : fw'[p] = "none"
        /\ Plan[i] # "kueue" => fw' = fw
    BY <1>1, <1>7 DEF OthersDelete, Writers
  <2>4. \A j \in Idx : Plan[j] = "kueue" /\ obj'[j].uid = 0 => \A p \in FwPaths : fw'[p] = "none"
    BY <1>1, <1>3, <2>1, <2>3
  <2> QED BY <1>1, <1>7, <2>1, <2>2, <2>3, <2>4, OutsideStep DEF OthersDelete, Absent
<1>8. ASSUME NEW i \in Idx, NEW p \in FwPaths, OthersAddFramework(i, p) PROVE IInv'
  <2>1. /\ Plan[i] = "kueue" /\ obj[i].uid # 0 /\ fw' = [fw EXCEPT ![p] = "admin"]
        /\ UNCHANGED <<obj, sched, nextUid, local, errors, workload>>
        /\ version' = version + 1 /\ external' = external + 1
    BY <1>8 DEF OthersAddFramework
  <2>2. fw' \in [FwPaths -> Writers] /\ \A q \in FwPaths : fw'[q] = "test" => fw[q] = "test"
    BY <1>1, <2>1 DEF Writers
  <2>3. \A j \in Idx : Plan[j] = "kueue" /\ obj'[j].uid = 0 => \A q \in FwPaths : fw'[q] = "none"
    BY <1>3, <2>1
  <2> QED BY <1>1, <2>1, <2>2, <2>3, OutsideStep
<1>9. ASSUME NEW v \in AdminValues, OthersSetScheduler(v) PROVE IInv'
  <2>1. sched' \in [value : Values, by : {"test", "admin"}] /\ sched'.by = "admin"
    BY <1>9, BoundAssumption DEF OthersSetScheduler
  <2> QED BY <1>1, <1>9, <2>1, OutsideStep DEF OthersSetScheduler
<1>10. ASSUME NEW i \in Idx, QueueWorkload(i) PROVE IInv'
  <2>1. \A j \in Idx : Plan[j] = "run" => Registered(j)
    <3>1. Registered(i)
      BY <1>10 DEF QueueWorkload, IInv, AwaitedInv, Awaited
    <3> QED BY <1>10, <3>1, PlanFacts DEF QueueWorkload
  <2> QED BY <1>1, <1>10, <2>1, OutsideStep DEF QueueWorkload, world
<1>11. CASE CollectWorkload
  BY <1>1, <1>11, OutsideStep DEF CollectWorkload, world
<1> QED BY <1>4, <1>5, <1>6, <1>7, <1>8, <1>9, <1>10, <1>11 DEF Environment

-----------------------------------------------------------------------------
\* IInv is an invariant.
THEOREM Invariant == Spec => []IInv
<1>1. ASSUME IInv, UNCHANGED vars PROVE IInv'
  <2> USE <1>1 DEF vars, world, local, workload
  <2>1. TypeOK'
    BY DEF IInv, TypeOK
  <2>2. StackInv' /\ ObjInv' /\ KueueInv' /\ TopInv'
    BY DEF IInv, StackInv, ObjInv, KueueInv, TopInv, Top, TopKind, Kind, InCleanup, OwnedTop
  <2>3. AwaitedInv' /\ NothingForgotten'
    BY DEF IInv, AwaitedInv, NothingForgotten, Registered
  <2> QED BY <2>1, <2>2, <2>3 DEF IInv
<1>2. ASSUME IInv, [Next]_vars PROVE IInv'
  BY <1>1, <1>2, SetupStep, CleanupStep, OutsideSteps DEF Next, Finished
<1> QED BY <1>2, InitInv, PTL DEF Spec

\* Every variable keeps its type, and every uid in use was drawn before.
THEOREM TypeCorrect == Spec => []TypeOK
<1>1. IInv => TypeOK
  BY DEF IInv
<1> QED BY <1>1, Invariant, PTL

\* What the test has made or changed keeps a cleanup that finds it, through
\* lost answers, failing cleanups and whatever others do.
THEOREM NothingEverForgotten == Spec => []NothingForgotten
<1>1. IInv => NothingForgotten
  BY DEF IInv
<1> QED BY <1>1, Invariant, PTL

\* No earlier cleanup runs before what Cleanup waits for is gone.
THEOREM BarrierHolds == Spec => []Barrier
<1>1. IInv => Barrier
  BY DEF IInv, AwaitedInv, Barrier
<1> QED BY <1>1, Invariant, PTL

-----------------------------------------------------------------------------
(* What Cleanup achieves while nobody else touches the clusters.           *)

\* What the cleanup of the entry e does when it deletes.
Deletes(e) ==
  \/ Plan[e.step] \notin {"kueue", "scheduler"}
  \/ Plan[e.step] = "kueue" /\ e.paths = {}

\* The cleanup e finds what Setup has left to it.
Finds(e) ==
  /\ Deletes(e) /\ obj[e.step].uid # 0 => Owns(obj[e.step], e.uid)
  /\ Plan[e.step] = "kueue" /\ e.paths # {} => obj[e.step].uid # 0
  /\ Plan[e.step] = "scheduler" => e.orig = "v0"

EntriesAlone ==
  /\ \A k \in 1 .. Len(cleanups) : Finds(cleanups[k])
  /\ phase = "setup" /\ pc = "apply" => Top.uid = 0

\* The settings are those Setup found or those it wrote.
SchedulerAlone ==
  sched \in {[value |-> "v0", by |-> "admin"], [value |-> "set", by |-> "test"]}

\* What is not the test's is the Kueue that was there, and nobody deletes it.
ObjectsAlone ==
  \A i \in Idx : obj[i].uid # 0 /\ ~obj[i].mine => Plan[i] = "kueue" /\ ~obj[i].terminating

\* What a cleanup waits for is gone or on its way.
WaitAlone ==
  Running("wait") /\ Deletes(Top) => obj[Top.step].uid = 0 \/ obj[Top.step].terminating

\* Only a failing call has made Cleanup fail.
CountAlone ==
  /\ phase = "cleanup2" => errors >= 1
  /\ phase = "stopped" => errors >= 2

Alone == EntriesAlone /\ SchedulerAlone /\ ObjectsAlone /\ WaitAlone /\ CountAlone

\* Only a mutation of the plan has written, and a Cleanup that returned nil is
\* through.
DoneInv ==
  /\ \A p \in FwPaths : fw[p] = "test" => \E i \in Idx : Plan[i] = "kueue"
  /\ sched.by = "test" => \E i \in Idx : Plan[i] = "scheduler"
  /\ phase = "clean" => cleanups = <<>>

\* The inductive invariant, with what holds while the test is alone.
AloneInv == external = 0 => Alone
FullInv == IInv /\ AloneInv /\ DoneInv

\* A step after which the objects have the owners they had, and the stack has
\* no new entry.
SameOwners ==
  \A i \in Idx :
    /\ obj'[i].uid = obj[i].uid /\ obj'[i].mine = obj[i].mine
    /\ obj'[i].terminating # obj[i].terminating => obj[i].mine

NoNewEntries ==
  \A k \in 1 .. Len(cleanups') : \E j \in 1 .. Len(cleanups) : cleanups'[k] = cleanups[j]

LEMMA AloneStep ==
  ASSUME IInv, Alone, SameOwners, NoNewEntries, SchedulerAlone', WaitAlone', CountAlone',
         phase' = "setup" => pc' # "apply"
  PROVE  Alone'
<1>1. EntriesAlone'
  <2> SUFFICES ASSUME NEW k \in 1 .. Len(cleanups')
               PROVE  Finds(cleanups[k])'
    BY DEF EntriesAlone
  <2>1. PICK j \in 1 .. Len(cleanups) : cleanups'[k] = cleanups[j]
    BY DEF NoNewEntries
  <2>2. Finds(cleanups[j]) /\ cleanups[j].step \in Idx
    BY StackTypes DEF Alone, EntriesAlone, IInv, Entries
  <2> QED BY <2>1, <2>2 DEF Finds, Deletes, Owns, SameOwners
<1>2. ObjectsAlone'
  BY DEF Alone, ObjectsAlone, SameOwners
<1> QED BY <1>1, <1>2 DEF Alone

\* The stack is left alone, or its top is removed.
LEMMA NoneNew ==
  ASSUME IInv, \/ cleanups' = cleanups
               \/ cleanups # <<>> /\ cleanups' = SubSeq(cleanups, 1, Len(cleanups) - 1)
  PROVE  NoNewEntries
<1>1. CASE cleanups' = cleanups
  BY <1>1 DEF NoNewEntries
<1>2. CASE cleanups # <<>> /\ cleanups' = SubSeq(cleanups, 1, Len(cleanups) - 1)
  <2>1. /\ Len(cleanups) \in Nat \ {0} /\ Len(cleanups') = Len(cleanups) - 1
        /\ \A k \in 1 .. Len(cleanups') : cleanups'[k] = cleanups[k]
    BY <1>2, StackTypes, Popped DEF IInv
  <2>2. \A k \in 1 .. Len(cleanups') : k \in 1 .. Len(cleanups)
    BY <2>1
  <2> QED BY <2>1, <2>2 DEF NoNewEntries
<1> QED BY <1>1, <1>2

\* An object keeps its owner when nothing or its deletion happens to it.
LEMMA OwnersSame == ASSUME UNCHANGED obj PROVE SameOwners
BY DEF SameOwners

\* Setup or Cleanup goes on with its next get.
LEMMA AloneGet ==
  ASSUME IInv, Alone, SameOwners, NoNewEntries, sched' = sched, pc' = "get", CountAlone'
  PROVE  Alone'
<1>1. SchedulerAlone' /\ WaitAlone'
  BY DEF Alone, SchedulerAlone, WaitAlone, Running
<1> QED BY <1>1, AloneStep

\* Where Setup is nothing has failed.
LEMMA BeginCount ==
  ASSUME phase' \in {"setup", "cleanup1", "clean"} PROVE CountAlone'
BY DEF CountAlone

-----------------------------------------------------------------------------
LEMMA AlonePush ==
  ASSUME IInv, Alone, InSetup("get"), NEW e \in Entries, e.step = step, e.uid = 0, Push(e),
         Finds(e), pc' = "apply", UNCHANGED <<world, phase>>
  PROVE  Alone'
<1>1. /\ Len(cleanups) \in Nat /\ Len(cleanups') = Len(cleanups) + 1
      /\ cleanups' # <<>> /\ Top' = e
      /\ \A k \in 1 .. Len(cleanups) : cleanups'[k] = cleanups[k]
  BY StackTypes, Pushed DEF IInv
<1>2. EntriesAlone'
  <2>1. ASSUME NEW k \in 1 .. Len(cleanups') PROVE Finds(cleanups[k])'
    <3>1. k \in 1 .. Len(cleanups) \/ k = Len(cleanups')
      BY <1>1
    <3>2. Finds(cleanups'[k])
      BY <1>1, <3>1 DEF Top, Alone, EntriesAlone
    <3> QED BY <3>2 DEF Finds, Deletes, Owns, world
  <2> QED BY <1>1, <2>1 DEF EntriesAlone
<1>3. SchedulerAlone' /\ ObjectsAlone'
  BY DEF Alone, SchedulerAlone, ObjectsAlone, world
<1>4. WaitAlone' /\ CountAlone'
  BY DEF InSetup, WaitAlone, CountAlone, Running
<1> QED BY <1>2, <1>3, <1>4 DEF Alone

\* Before its first call a mutation has left nothing on the clusters, but the
\* Kueue may have been there.
LEMMA NothingYet ==
  ASSUME IInv, Alone, InSetup("get")
  PROVE  /\ step \in Idx /\ (Kind # "kueue" => obj[step].uid = 0)
         /\ Kind = "scheduler" => sched.value = "v0"
<1>1. step \in Idx /\ ~Registered(step)
  BY NotYet
<1>2. ~obj[step].mine
  <2>1. step \in Nat
    BY <1>1, PlanFacts
  <2>2. obj[step].mine => step < step
    BY <1>1 DEF IInv, ObjInv, InSetup
  <2> QED BY <2>1, <2>2
<1>3. Kind # "kueue" => obj[step].uid = 0
  BY <1>1, <1>2 DEF Alone, ObjectsAlone, Kind
<1>4. Kind = "scheduler" => sched.value = "v0"
  BY <1>1 DEF IInv, NothingForgotten, Kind, Alone, SchedulerAlone
<1> QED BY <1>1, <1>3, <1>4

LEMMA AloneCreate ==
  ASSUME IInv, Alone, InSetup("apply"), Kind \notin {"kueue", "scheduler"} \/ CreatesKueue,
         Fresh(step), sched' = sched, pc' \in {"get", "wait"},
         \/ /\ cleanups' = [cleanups EXCEPT ![Len(cleanups)].uid = nextUid]
            /\ phase' = phase
         \/ cleanups' = cleanups /\ phase' = "cleanup1" /\ pc' = "get"
  PROVE  Alone'
<1>1. /\ phase = "setup" /\ pc = "apply" /\ step \in Idx
  BY StackTypes, PlanFacts DEF InSetup, IInv
<1>2. /\ cleanups # <<>> /\ Top.step = step /\ Len(cleanups) \in Nat \ {0}
      /\ Top = cleanups[Len(cleanups)] /\ Top \in Entries /\ nextUid \in Nat
      /\ \A k \in 1 .. Len(cleanups) - 1 : cleanups[k].step < step
      /\ Top.uid = 0 /\ nextUid > 0
  BY <1>1, TopFacts DEF IInv, StackInv, ObjInv, Alone, EntriesAlone, TypeOK
<1>3. /\ Len(cleanups') = Len(cleanups)
      /\ \A k \in 1 .. Len(cleanups) - 1 : cleanups'[k] = cleanups[k]
      /\ cleanups'[Len(cleanups)] \in {Top, [Top EXCEPT !.uid = nextUid]}
  <2>1. CASE cleanups' = cleanups
    BY <1>2, <2>1
  <2>2. CASE cleanups' = [cleanups EXCEPT ![Len(cleanups)].uid = nextUid]
    <3>1. cleanups' = [cleanups EXCEPT ![Len(cleanups)] = [Top EXCEPT !.uid = nextUid]]
      BY <1>2, <2>2
    <3>2. [Top EXCEPT !.uid = nextUid] \in Entries /\ Len(cleanups) \in 1 .. Len(cleanups)
      BY <1>2 DEF Entries
    <3>3. /\ Len(cleanups') = Len(cleanups)
          /\ \A k \in 1 .. Len(cleanups) :
               cleanups'[k] = IF k = Len(cleanups) THEN [Top EXCEPT !.uid = nextUid] ELSE cleanups[k]
      BY <3>1, <3>2, StackTypes, ExceptSeq DEF IInv
    <3>4. \A k \in 1 .. Len(cleanups) - 1 : k \in 1 .. Len(cleanups) /\ k # Len(cleanups)
      BY <1>2
    <3> QED BY <3>2, <3>3, <3>4
  <2> QED BY <2>1, <2>2
<1>4. \A i \in Idx :
        obj'[i] = IF i = step THEN [uid |-> nextUid, mine |-> TRUE, terminating |-> FALSE]
                  ELSE obj[i]
  BY DEF Fresh, IInv, TypeOK
<1>5. EntriesAlone'
  <2>1. ASSUME NEW k \in 1 .. Len(cleanups) - 1 PROVE Finds(cleanups[k])'
    <3>1. Finds(cleanups[k]) /\ cleanups[k] \in Entries /\ cleanups[k].step < step
      BY <1>2, StackTypes DEF IInv, Alone, EntriesAlone
    <3>2. cleanups[k].step \in Idx /\ cleanups[k].step # step
      BY <1>1, <3>1, PlanFacts DEF Entries
    <3>3. obj'[cleanups[k].step] = obj[cleanups[k].step]
      BY <1>4, <3>2
    <3> QED BY <1>3, <3>1, <3>3 DEF Finds, Deletes, Owns
  <2>2. Finds(cleanups[Len(cleanups)])'
    <3> DEFINE e == cleanups'[Len(cleanups)]
    <3>1. e.step = step /\ e.uid \in {0, nextUid} /\ e.paths = Top.paths
      BY <1>2, <1>3 DEF Entries
    <3>2. obj'[step] = [uid |-> nextUid, mine |-> TRUE, terminating |-> FALSE]
      BY <1>1, <1>4
    <3>3. Plan[step] # "scheduler"
      BY DEF Kind, CreatesKueue
    <3> QED BY <1>2, <3>1, <3>2, <3>3 DEF Finds, Owns
  <2>3. \A k \in 1 .. Len(cleanups') : k \in 1 .. Len(cleanups) - 1 \/ k = Len(cleanups)
    BY <1>2, <1>3
  <2> QED BY <2>1, <2>2, <2>3 DEF EntriesAlone
<1>6. SchedulerAlone' /\ ObjectsAlone'
  BY <1>4 DEF Alone, SchedulerAlone, ObjectsAlone
<1>7. WaitAlone' /\ CountAlone'
  BY <1>1 DEF WaitAlone, CountAlone, Running, InCleanup
<1> QED BY <1>5, <1>6, <1>7 DEF Alone

LEMMA AloneSetup == ASSUME IInv, Alone, Setup PROVE Alone'
<1> USE OwnersSame, NoneNew, BeginCount DEF BeginCleanup, NextStep, world
<1>1. CASE SetupError
  BY <1>1, AloneGet DEF SetupError
<1>2. CASE RegisterOwned
  <2>1. CASE Kind \in Checked /\ obj[step].uid # 0
    BY <1>2, <2>1, AloneGet DEF RegisterOwned
  <2>2. CASE ~(Kind \in Checked /\ obj[step].uid # 0)
    <3> DEFINE e == Entry(step, {}, "v0")
    <3>1. InSetup("get") /\ Kind \notin {"kueue", "scheduler"}
      BY <1>2 DEF RegisterOwned
    <3>2. step \in Idx /\ obj[step].uid = 0
      BY <3>1, NothingYet
    <3>3. /\ e \in Entries /\ e.step = step /\ e.uid = 0 /\ Finds(e)
      BY <3>1, <3>2 DEF Entry, Entries, Values, Finds, Kind
    <3>4. Push(e) /\ pc' = "apply" /\ UNCHANGED <<world, phase>>
      BY <1>2, <2>2 DEF RegisterOwned
    <3> HIDE DEF e
    <3> QED BY <3>1, <3>3, <3>4, AlonePush
  <2> QED BY <2>1, <2>2
<1>3. CASE ReadKueue
  <2> DEFINE missing == {p \in FwPaths : fw[p] = "none"}
             e == Entry(step, IF obj[step].uid = 0 THEN {} ELSE missing, "v0")
  <2>1. CASE obj[step].uid # 0 /\ missing = {}
    BY <1>3, <2>1, AloneGet DEF ReadKueue, InSetup
  <2>2. CASE ~(obj[step].uid # 0 /\ missing = {})
    <3>1. InSetup("get") /\ Kind = "kueue"
      BY <1>3 DEF ReadKueue
    <3>2. step \in Idx
      BY <3>1, NothingYet
    <3>3. /\ e \in Entries /\ e.step = step /\ e.uid = 0
          /\ e.paths = {} <=> obj[step].uid = 0
      BY <2>2, <3>2 DEF Entry, Entries, Values
    <3>4. Push(e) /\ pc' = "apply" /\ UNCHANGED <<world, phase>>
      BY <1>3, <2>2 DEF ReadKueue
    <3> HIDE DEF e
    <3>5. Finds(e)
      BY <3>1, <3>3 DEF Finds, Deletes, Kind
    <3> QED BY <3>1, <3>3, <3>4, <3>5, AlonePush
  <2> QED BY <2>1, <2>2
<1>4. CASE CreateOwned
  BY <1>4, AloneCreate DEF CreateOwned
<1>5. CASE CreateOwnedUnseen
  BY <1>5, AloneCreate DEF CreateOwnedUnseen
<1>6. CASE CreateOwnedExists
  BY <1>6, AloneGet DEF CreateOwnedExists
<1>7. CASE UpdateKueue
  BY <1>7, AloneGet DEF UpdateKueue, InSetup
<1>8. CASE ReadScheduler
  <2> DEFINE e == Entry(step, {}, Original)
  <2>1. InSetup("get") /\ Kind = "scheduler"
    BY <1>8 DEF ReadScheduler
  <2>2. step \in Idx /\ sched.value = "v0"
    BY <2>1, NothingYet
  <2>3. e \in Entries /\ e.step = step /\ e.uid = 0 /\ Finds(e)
    BY <2>1, <2>2 DEF Entry, Entries, Values, Original, Finds, Deletes, Kind
  <2>4. Push(e) /\ pc' = "apply" /\ UNCHANGED <<world, phase>>
    BY <1>8 DEF ReadScheduler
  <2> HIDE DEF e
  <2> QED BY <2>1, <2>3, <2>4, AlonePush
<1>9. CASE UpdateScheduler
  <2>1. /\ UNCHANGED <<obj, cleanups>> /\ phase' = "setup" /\ pc' = "wait"
        /\ sched' = IF sched.value = "set" THEN sched ELSE [value |-> "set", by |-> "test"]
    BY <1>9 DEF UpdateScheduler, InSetup
  <2>2. SchedulerAlone'
    BY <2>1 DEF Alone, SchedulerAlone
  <2>3. WaitAlone'
    BY <2>1 DEF WaitAlone, Running, InCleanup
  <2> QED BY <2>1, <2>2, <2>3, AloneStep
<1>10. CASE SchedulerReady
  BY <1>10, AloneGet DEF SchedulerReady, InSetup
<1>11. CASE EndTest
  BY <1>11, AloneGet DEF EndTest
<1>12. CASE WaitForHubWorkload
  BY <1>12, AloneGet DEF WaitForHubWorkload, InSetup
<1> QED BY <1>1, <1>2, <1>3, <1>4, <1>5, <1>6, <1>7, <1>8, <1>9, <1>10, <1>11, <1>12 DEF Setup

\* Each failure of Cleanup is paid for by a failing call.
LEMMA FailCount ==
  ASSUME IInv, Alone, InCleanup, CleanupFails, errors' = errors + 1 PROVE CountAlone'
<1>1. errors \in Nat
  BY DEF IInv, TypeOK
<1> QED BY <1>1 DEF Alone, CountAlone, CleanupFails, AfterFailure, InCleanup

\* The deletion of the top's object, if it is there.
LEMMA DeletesOwn ==
  ASSUME IInv, Alone, Running("delete"),
         NEW t \in BOOLEAN, obj' = [obj EXCEPT ![Top.step].terminating = t],
         t # obj[Top.step].terminating => obj[Top.step].uid # 0
  PROVE  SameOwners /\ obj'[Top.step].terminating = t
<1>1. cleanups # <<>> /\ OwnedTop
  BY DEF Running, IInv, TopInv
<1>2. Top.step \in Idx /\ Top = cleanups[Len(cleanups)] /\ Len(cleanups) \in 1 .. Len(cleanups)
  BY <1>1, TopFacts DEF IInv
<1>3. obj[Top.step].uid # 0 => obj[Top.step].mine
  BY <1>1, <1>2 DEF Alone, EntriesAlone, Finds, Deletes, OwnedTop, TopKind, Owns
<1>4. \A i \in Idx : obj'[i] = IF i = Top.step THEN [obj[i] EXCEPT !.terminating = t] ELSE obj[i]
  BY <1>2 DEF IInv, TypeOK
<1>5. /\ obj'[Top.step].uid = obj[Top.step].uid /\ obj'[Top.step].mine = obj[Top.step].mine
      /\ obj'[Top.step].terminating = t
  <2>1. obj[Top.step] \in Objects
    BY <1>2 DEF IInv, TypeOK, Objects
  <2> QED BY <1>2, <1>4, <2>1 DEF Objects
<1>6. ASSUME NEW i \in Idx
      PROVE  /\ obj'[i].uid = obj[i].uid /\ obj'[i].mine = obj[i].mine
             /\ obj'[i].terminating # obj[i].terminating => obj[i].mine
  <2>1. CASE i = Top.step
    BY <1>3, <1>5, <2>1
  <2>2. CASE i # Top.step
    BY <1>4, <2>2
  <2> QED BY <2>1, <2>2
<1> QED BY <1>5, <1>6 DEF SameOwners

LEMMA AloneCleanup == ASSUME IInv, Alone, Cleanup PROVE Alone'
<1> USE OwnersSame, NoneNew DEF world, Pop
<1>1. ASSUME InCleanup, cleanups # <<>>
      PROVE  Finds(Top) /\ (OwnedTop <=> Deletes(Top)) /\ phase \in {"cleanup1", "cleanup2"}
  <2>1. Top = cleanups[Len(cleanups)] /\ Len(cleanups) \in 1 .. Len(cleanups)
    BY <1>1, TopFacts DEF IInv
  <2> QED BY <1>1, <2>1 DEF Alone, EntriesAlone, OwnedTop, Deletes, TopKind, InCleanup
<1>2. phase' = phase /\ errors' = errors => CountAlone'
  BY DEF Alone, CountAlone
<1>3. CASE CleanupError
  <2>1. CountAlone'
    BY <1>3, FailCount DEF CleanupError
  <2> QED BY <1>3, <2>1, AloneGet DEF CleanupError, CleanupFails, Kept
<1>4. CASE GetOwned
  <2> DEFINE o == obj[Top.step]
  <2>1. /\ InCleanup /\ cleanups # <<>> /\ OwnedTop /\ UNCHANGED <<world, errors>>
    BY <1>4 DEF GetOwned, Running
  <2>2. CASE o.uid = 0 /\ TopKind = "run" /\ pc' = "wait" /\ UNCHANGED <<phase, cleanups>>
    <3>1. SchedulerAlone' /\ WaitAlone'
      BY <2>1, <2>2 DEF Alone, SchedulerAlone, WaitAlone, Top
    <3> QED BY <1>1, <1>2, <2>1, <2>2, <3>1, AloneStep
  <2>3. CASE o.uid = 0 /\ Pop
    BY <1>2, <2>1, <2>3, AloneGet
  <2>4. CASE /\ o.uid # 0 /\ Owns(o, Top.uid) /\ pc' = "delete"
             /\ UNCHANGED <<phase, cleanups>>
    <3>1. SchedulerAlone' /\ WaitAlone'
      BY <2>1, <2>4 DEF Alone, SchedulerAlone, WaitAlone, Running
    <3> QED BY <1>1, <1>2, <2>1, <2>4, <3>1, AloneStep
  <2>5. o.uid # 0 => Owns(o, Top.uid)
    BY <1>1, <2>1 DEF Finds
  <2> QED BY <1>4, <2>2, <2>3, <2>4, <2>5 DEF GetOwned, AlreadyGone
<1>5. CASE DeleteOwned
  <2> DEFINE t == obj[Top.step].terminating \/ obj[Top.step].uid # 0
  <2>1. /\ Running("delete") /\ obj' = [obj EXCEPT ![Top.step].terminating = t]
        /\ UNCHANGED <<sched, errors>> /\ InCleanup /\ cleanups # <<>>
    BY <1>5 DEF DeleteOwned, Running
  <2>2. Top.step \in Idx
    BY <2>1, TopFacts DEF IInv
  <2>3. t \in BOOLEAN /\ (t # obj[Top.step].terminating => obj[Top.step].uid # 0)
    BY <2>2 DEF IInv, TypeOK
  <2>4. SameOwners /\ obj'[Top.step].terminating = t
    <3> HIDE DEF t
    <3> QED BY <2>1, <2>3, DeletesOwn
  <2>5. CASE pc' = "wait" /\ UNCHANGED <<phase, cleanups>>
    <3>1. SchedulerAlone' /\ WaitAlone'
      BY <2>1, <2>2, <2>4, <2>5 DEF Alone, SchedulerAlone, WaitAlone, Top, SameOwners
    <3> QED BY <1>1, <1>2, <2>1, <2>4, <2>5, <3>1, AloneStep
  <2>6. CASE Pop
    BY <1>2, <2>1, <2>4, <2>6, AloneGet
  <2> QED BY <1>5, <2>5, <2>6 DEF DeleteOwned
<1>6. CASE DeleteOwnedUnseen
  <2>1. SameOwners /\ InCleanup
    BY <1>6, DeletesOwn DEF DeleteOwnedUnseen, Running
  <2>2. CountAlone'
    BY <1>6, <2>1, FailCount DEF DeleteOwnedUnseen
  <2> QED BY <1>6, <2>1, <2>2, AloneGet DEF DeleteOwnedUnseen, CleanupFails, Kept
<1>7. CASE ObservedGone
  <2>1. /\ Running("wait") /\ InCleanup /\ cleanups # <<>> /\ OwnedTop
        /\ UNCHANGED <<world, errors>>
    BY <1>7 DEF ObservedGone, Running
  <2>2. obj[Top.step].uid = 0 \/ obj[Top.step].terminating
    BY <1>1, <2>1 DEF Alone, WaitAlone
  <2>3. Pop
    BY <1>7, <2>2 DEF ObservedGone
  <2> QED BY <1>2, <2>1, <2>3, AloneGet
<1>8. CASE RestoreKueue
  <2>1. InCleanup /\ cleanups # <<>> /\ obj[Top.step].uid # 0
    BY <1>1, <1>8 DEF RestoreKueue, Running, Finds, TopKind
  <2>2. UNCHANGED <<obj, sched, errors>> /\ Pop
    BY <1>8, <2>1 DEF RestoreKueue
  <2> QED BY <1>2, <2>1, <2>2, AloneGet
<1>9. CASE RestoreScheduler
  <2>1. /\ InCleanup /\ cleanups # <<>> /\ TopKind = "scheduler" /\ Top.orig = "v0"
    BY <1>1, <1>9 DEF RestoreScheduler, Running, Finds, TopKind
  <2>2. sched.value \in {Top.orig, "set"}
    BY <2>1 DEF Alone, SchedulerAlone
  <2>3. /\ sched' = [value |-> "v0", by |-> "admin"] /\ pc' = "wait"
        /\ UNCHANGED <<obj, phase, cleanups, errors>>
    BY <1>9, <2>1, <2>2 DEF RestoreScheduler
  <2>4. SchedulerAlone' /\ WaitAlone'
    BY <2>1, <2>3 DEF SchedulerAlone, WaitAlone, Deletes, Top, TopKind
  <2> QED BY <1>2, <2>3, <2>4, AloneStep
<1>10. CASE SchedulerRestored
  BY <1>2, <1>10, AloneGet DEF SchedulerRestored, Running
<1>11. CASE CleanupReturns
  <2>1. SchedulerAlone' /\ WaitAlone' /\ CountAlone'
    BY <1>11 DEF CleanupReturns, Alone, SchedulerAlone, WaitAlone, CountAlone, Running, InCleanup
  <2> QED BY <1>11, <2>1, AloneStep DEF CleanupReturns
<1> QED BY <1>3, <1>4, <1>5, <1>6, <1>7, <1>8, <1>9, <1>10, <1>11 DEF Cleanup

\* Only what the test has deleted vanishes.
LEMMA AloneVanish == ASSUME IInv, Alone, NEW i \in Idx, Vanish(i) PROVE Alone'
<1>1. \A j \in Idx : obj'[j] = IF j = i THEN Absent ELSE obj[j]
  BY DEF Vanish, IInv, TypeOK
<1>2. /\ UNCHANGED <<sched, local, errors>> /\ obj[i].terminating
      /\ obj[i].uid # 0 => obj[i].mine
  BY DEF Vanish, Alone, ObjectsAlone
<1>3. ASSUME NEW k \in 1 .. Len(cleanups) PROVE Finds(cleanups[k])'
  <2>1. Finds(cleanups[k]) /\ cleanups[k].step \in Idx /\ cleanups' = cleanups
    BY <1>2, StackTypes DEF Alone, EntriesAlone, IInv, Entries, local
  <2>2. CASE cleanups[k].step # i
    BY <1>1, <2>1, <2>2 DEF Finds, Deletes, Owns
  <2>3. CASE cleanups[k].step = i
    <3>1. obj'[cleanups[k].step].uid = 0
      BY <1>1, <2>1, <2>3 DEF Absent
    <3>2. ~(Plan[i] = "kueue" /\ cleanups[k].paths # {})
      BY <1>2, <2>1, <2>3 DEF IInv, KueueInv, Finds
    <3> QED BY <2>1, <2>3, <3>1, <3>2 DEF Finds
  <2> QED BY <2>2, <2>3
<1>4. EntriesAlone'
  BY <1>2, <1>3 DEF Alone, EntriesAlone, local, Top
<1>5. SchedulerAlone' /\ ObjectsAlone' /\ CountAlone'
  BY <1>1, <1>2 DEF Alone, SchedulerAlone, ObjectsAlone, CountAlone, local, Absent
<1>6. WaitAlone'
  <2> SUFFICES ASSUME Running("wait"), Deletes(Top)
               PROVE  obj'[Top.step].uid = 0 \/ obj'[Top.step].terminating
    BY <1>2 DEF WaitAlone, Running, InCleanup, Deletes, Top, local
  <2>1. Top.step \in Idx
    BY TopFacts DEF Running, IInv
  <2> QED BY <1>1, <2>1 DEF Alone, WaitAlone, Absent
<1> QED BY <1>4, <1>5, <1>6 DEF Alone

\* FullInv is an invariant: actions of others end the solitude.
LEMMA AloneInit == Init => AloneInv /\ DoneInv
<1> SUFFICES ASSUME Init PROVE AloneInv /\ DoneInv
  OBVIOUS
<1>1. /\ sched = [value |-> "v0", by |-> "admin"] /\ phase = "setup" /\ pc = "get"
      /\ cleanups = <<>> /\ Len(cleanups) = 0
  BY DEF Init
<1>2. /\ \A i \in Idx : obj[i].uid # 0 => Plan[i] = "kueue" /\ ~obj[i].terminating
      /\ \A p \in FwPaths : fw[p] # "test"
  BY DEF Init, Absent
<1>3. EntriesAlone /\ SchedulerAlone /\ ObjectsAlone
  BY <1>1, <1>2 DEF EntriesAlone, SchedulerAlone, ObjectsAlone
<1>4. WaitAlone /\ CountAlone
  BY <1>1 DEF WaitAlone, CountAlone, Running
<1> QED BY <1>1, <1>2, <1>3, <1>4 DEF AloneInv, Alone, DoneInv

LEMMA AloneNext == ASSUME IInv, AloneInv, [Next]_vars PROVE AloneInv'
<1> SUFFICES ASSUME external' = 0 PROVE Alone'
  BY DEF AloneInv
<1>1. external \in Nat
  BY DEF IInv, TypeOK
<1>2. CASE Setup
  <2>1. external' = external
    BY <1>2 DEF Setup, SetupError, RegisterOwned, ReadKueue, CreateOwned, CreateOwnedUnseen,
                CreateOwnedExists, UpdateKueue, ReadScheduler, UpdateScheduler,
                WaitForHubWorkload, SchedulerReady, EndTest
  <2> QED BY <1>2, <2>1, AloneSetup DEF AloneInv
<1>3. CASE Cleanup
  <2>1. external' = external
    BY <1>3 DEF Cleanup, CleanupError, GetOwned, DeleteOwned, DeleteOwnedUnseen, ObservedGone,
                RestoreKueue, RestoreScheduler, SchedulerRestored, CleanupReturns
  <2> QED BY <1>3, <2>1, AloneCleanup DEF AloneInv
<1>4. CASE \E i \in Idx : Vanish(i)
  BY <1>4, AloneVanish DEF AloneInv, Vanish
<1>5. CASE Environment
  <2>1. external' = external + 1
    BY <1>5 DEF Environment, OthersCreate, OthersReplace, OthersDelete, OthersAddFramework,
                OthersSetScheduler, Outside
  <2> QED BY <1>1, <2>1
<1>6. CASE UNCHANGED vars \/ CollectWorkload \/ \E i \in Idx : QueueWorkload(i)
  BY <1>6 DEF CollectWorkload, QueueWorkload, AloneInv, Alone, EntriesAlone, SchedulerAlone, ObjectsAlone, WaitAlone, CountAlone,
              Finds, Deletes, Owns, Top, Running, InCleanup, vars, world, local
<1> QED BY <1>2, <1>3, <1>4, <1>5, <1>6 DEF Next, Finished

\* The test writes frameworks and scheduler settings for mutations of its plan,
\* and Cleanup returns nil with nothing left to do.
LEMMA DoneNext == ASSUME IInv, DoneInv, [Next]_vars PROVE DoneInv'
<1>1. ASSUME NEW p \in FwPaths, fw'[p] = "test", fw[p] # "test"
      PROVE  \E i \in Idx : Plan[i] = "kueue"
  <2>1. CASE CreateOwned \/ CreateOwnedUnseen \/ UpdateKueue
    <3>1. step \in Idx /\ Kind = "kueue"
      BY <1>1, <2>1, StackTypes
         DEF CreateOwned, CreateOwnedUnseen, UpdateKueue, IInv, InSetup, Idx
    <3> QED BY <3>1 DEF Kind
  <2>2. CASE RestoreKueue \/ Environment \/ \E i \in Idx : Vanish(i)
    <3>1. fw \in [FwPaths -> Writers]
      BY DEF IInv, TypeOK
    <3>2. fw'[p] \in {fw[p], "none", "admin"}
      BY <2>2, <3>1 DEF RestoreKueue, Environment, Vanish, OthersCreate, OthersReplace,
                        OthersDelete, OthersAddFramework, OthersSetScheduler
    <3> QED BY <1>1, <3>2
  <2>3. CASE UNCHANGED fw
    BY <1>1, <2>3
  <2> QED BY <2>1, <2>2, <2>3
          DEF Next, Setup, Cleanup, Finished, vars, world, SetupError, RegisterOwned,
              ReadKueue, CreateOwnedExists, ReadScheduler, UpdateScheduler, WaitForHubWorkload,
              SchedulerReady, EndTest, CleanupError, GetOwned, DeleteOwned, DeleteOwnedUnseen,
              ObservedGone, RestoreScheduler, SchedulerRestored, CleanupReturns, QueueWorkload,
              CollectWorkload
<1>2. ASSUME sched'.by = "test", sched.by # "test"
      PROVE  \E i \in Idx : Plan[i] = "scheduler"
  <2>1. CASE UpdateScheduler
    <3>1. step \in Idx /\ Kind = "scheduler"
      BY <2>1, StackTypes DEF UpdateScheduler, IInv, InSetup, Idx
    <3> QED BY <3>1 DEF Kind
  <2>2. CASE sched' = sched \/ sched'.by = "admin"
    BY <1>2, <2>2
  <2> QED BY <2>1, <2>2
          DEF Next, Setup, Cleanup, Environment, Finished, vars, world, SetupError,
              RegisterOwned, ReadKueue, CreateOwned, CreateOwnedUnseen, CreateOwnedExists,
              UpdateKueue, ReadScheduler, WaitForHubWorkload, SchedulerReady, EndTest, CleanupError, GetOwned,
              DeleteOwned, DeleteOwnedUnseen, ObservedGone, RestoreKueue, RestoreScheduler,
              SchedulerRestored, CleanupReturns, Vanish, OthersCreate, OthersReplace,
              OthersDelete, OthersAddFramework, OthersSetScheduler, QueueWorkload,
              CollectWorkload
<1>3. ASSUME phase' = "clean" PROVE cleanups' = <<>>
  <2>1. CASE CleanupReturns
    BY <2>1 DEF CleanupReturns
  <2>2. CASE UNCHANGED local
    BY <1>3, <2>2 DEF local, DoneInv
  <2>3. CASE Setup
    BY <1>3, <2>3
       DEF Setup, SetupError, RegisterOwned, ReadKueue, CreateOwned, CreateOwnedUnseen,
           CreateOwnedExists, UpdateKueue, ReadScheduler, UpdateScheduler, WaitForHubWorkload,
           SchedulerReady, EndTest, InSetup, BeginCleanup, NextStep
  <2>4. CASE Cleanup /\ ~CleanupReturns
    <3>1. InCleanup /\ phase' \in {phase, "cleanup2", "stopped"}
      BY <2>4 DEF Cleanup, CleanupError, GetOwned, DeleteOwned, DeleteOwnedUnseen,
                  ObservedGone, RestoreKueue, RestoreScheduler, SchedulerRestored, Running,
                  CleanupFails, AfterFailure, Pop, AlreadyGone
    <3> QED BY <1>3, <3>1 DEF InCleanup
  <2> QED BY <2>1, <2>2, <2>3, <2>4
          DEF Next, Environment, Vanish, Outside, OthersCreate, OthersReplace, OthersDelete,
              OthersAddFramework, OthersSetScheduler, Finished, QueueWorkload, CollectWorkload, vars
<1> QED BY <1>1, <1>2, <1>3 DEF DoneInv

\* Both layers hold in every reachable state: what is on the stack accounts for
\* all the test has done, and alone on the clusters Cleanup carries it out
\* (environment.go:120-131).
THEOREM FullInvariant == Spec => []FullInv
<1>1. Init => AloneInv /\ DoneInv
  BY AloneInit
<1>2. IInv /\ AloneInv /\ DoneInv /\ [Next]_vars => AloneInv' /\ DoneInv'
  BY AloneNext, DoneNext
<1>3. Spec => [](AloneInv /\ DoneInv)
  BY <1>1, <1>2, Invariant, PTL DEF Spec
<1>4. IInv /\ AloneInv /\ DoneInv => FullInv
  BY DEF FullInv
<1> QED BY <1>3, <1>4, Invariant, PTL

\* Where nobody else has touched the clusters, a Cleanup that returned nil has
\* left nothing of the test's, and the Kueue and the scheduler as they were.
THEOREM CleanRestores == Spec => []CleanMeansRestored
<1>1. ASSUME FullInv, phase = "clean", external = 0
      PROVE  /\ \A i \in Idx : ~(obj[i].mine /\ ~obj[i].terminating)
             /\ \A p \in FwPaths : fw[p] # "test"
             /\ sched = [value |-> "v0", by |-> "admin"]
  <2>1. \A i : ~Registered(i)
    BY <1>1 DEF FullInv, DoneInv, Registered
  <2>2. NothingForgotten /\ DoneInv /\ SchedulerAlone
    BY <1>1 DEF FullInv, IInv, AloneInv, Alone
  <2>3. sched.by # "test"
    BY <2>1, <2>2 DEF NothingForgotten, DoneInv
  <2> QED BY <2>1, <2>2, <2>3 DEF NothingForgotten, DoneInv, SchedulerAlone
<1>2. FullInv => CleanMeansRestored
  BY <1>1 DEF CleanMeansRestored
<1> QED BY <1>2, FullInvariant, PTL

\* Where nobody else has touched the clusters, it takes two failing calls to make
\* the second Cleanup fail.
THEOREM OneErrorIsSurvived == Spec => []OneErrorSurvived
<1>1. FullInv => OneErrorSurvived
  BY DEF FullInv, IInv, TypeOK, AloneInv, Alone, CountAlone, OneErrorSurvived
<1> QED BY <1>1, FullInvariant, PTL

=============================================================================
