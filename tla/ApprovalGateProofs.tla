------------------------- MODULE ApprovalGateProofs -------------------------
(***************************************************************************)
(* The safety properties of ApprovalGate for any users, aliases, test      *)
(* cases and bounds.  Credentials fit because whoever a change of          *)
(* membership touches is marked, or listed as an exception, and a cached   *)
(* login names no group of a namespace that came after it.                 *)
(***************************************************************************)
EXTENDS ApprovalGate, TLAPS

Active == {"spec", "step", "new", "patch", "login", "opc"}

\* Which spec is under way where.
PlaceInv ==
  /\ pc \in {"step", "new", "patch", "login", "opc"} => step <= Len(case.specs)
  /\ pc \in {"new", "patch"} => Cur.op = "ensure"
  /\ pc \in {"login", "opc"} => Cur.op = "act"
  /\ \A i \in passed : i < step
  /\ "state" \in DOMAIN task

\* Files on disk are those of the cached users, and the temporary one while opc
\* runs.
FileInv ==
  /\ files \subseteq kubeconfigs \cup {"impersonate"}
  /\ "impersonate" \in files => pc = "opc"
  /\ NoCredentialsLeft

\* The last successful EnsureGroupMembers of an alias has set its group.
AskedInv ==
  pc \in Active =>
    \A a \in Aliases : \A i \in Asked(a) :
      (\A j \in Ensures(a) : j <= i) => groups[MAGGroupName(ns, a)] = case.specs[i].users

\* What EnsureGroupMembers has read still holds, but for users who are exceptions.
OldInv ==
  pc \in {"new", "patch"} =>
    /\ Members(MAGGroupName(ns, Cur.alias)) \subseteq old.users \cup stale
    /\ old.exists => Members(MAGGroupName(ns, Cur.alias)) = old.users

\* Groups of later test cases do not exist, and no login names one.
NamesInv ==
  \A n \in Namespaces, a \in Aliases :
    n > ns => /\ groups[MAGGroupName(n, a)] = Absent
              /\ \A u \in Users : MAGGroupName(n, a) \notin login[u]

\* X names exactly the groups of this test case that have u.
Agree(X, u) ==
  \A a \in Aliases : MAGGroupName(ns, a) \in X <=> u \in Members(MAGGroupName(ns, a))

\* A cached login is good unless its user is marked, an exception or logging in.
LoginInv ==
  pc \in Active =>
    \A u \in kubeconfigs \ (dirty \cup stale) :
      ~(pc = "login" /\ u = Cur.user) => Agree(login[u], u)

CredsInv == pc = "opc" /\ Cur.user \notin stale => Agree(creds, Cur.user)

\* The inductive invariant.
IInv == /\ TypeOK /\ PlaceInv /\ FileInv /\ AskedInv /\ OldInv /\ NamesInv /\ LoginInv
        /\ CredsInv

-----------------------------------------------------------------------------
\* The spec at a position of the test case is one of the suite.
LEMMA SpecFacts ==
  ASSUME TypeOK
  PROVE  /\ Len(case.specs) \in Nat /\ DOMAIN case.specs = 1..Len(case.specs)
         /\ step \in 1..(Len(case.specs) + 1) /\ ns \in 1..MaxCases /\ MaxCases \in Nat
         /\ step <= Len(case.specs) => /\ step \in DOMAIN case.specs
                                       /\ Cur.op = "ensure" => /\ Cur.alias \in Aliases
                                                               /\ Cur.users \subseteq Users
                                       /\ Cur.op = "act" => Cur.user \in Users
BY CasesAssumption, MagBoundsAssumption DEF TypeOK, Cur

\* The groups of the test case.
LEMMA OwnGroups ==
  ASSUME TypeOK
  PROVE  /\ ns \in Namespaces /\ Other \in Namespaces /\ Other # ns
         /\ \A n \in Namespaces, a \in Aliases : MAGGroupName(n, a) \in GroupNames
         /\ \A n, m, a, b : MAGGroupName(n, a) = MAGGroupName(m, b) <=> n = m /\ a = b
         /\ \A g \in GroupNames : \E n \in Namespaces, a \in Aliases : g = MAGGroupName(n, a)
<1>1. ns \in Namespaces /\ Other \in Namespaces /\ Other # ns
  BY MagBoundsAssumption DEF TypeOK, Namespaces, Other
<1> QED BY <1>1 DEF MAGGroupName, GroupNames

\* Agree says what CredentialsFit asks for.
LEMMA AgreeMeans ==
  ASSUME TypeOK, NEW X, NEW u
  PROVE  /\ Agree(X, u) => X \cap Own = MemberOf(u) \cap Own
         /\ Agree(MemberOf(u), u)
BY OwnGroups DEF Agree, Own, MemberOf

\* A group that exists is not the absent one.
LEMMA SetsOfUsers == ASSUME NEW S \in SUBSET Users PROVE S # Absent
BY UsersAssumption DEF Absent

-----------------------------------------------------------------------------
\* What no step but PatchGroup and the ends of a test case does to its groups: one
\* that was absent may now be empty, and groups of later test cases do not appear.
GroupsKept ==
  /\ UNCHANGED <<case, ns>>
  /\ \A a \in Aliases :
       LET g == MAGGroupName(ns, a)
       IN groups'[g] = groups[g] \/ (groups[g] = Absent /\ groups'[g] = {})
  /\ \A n \in Namespaces, a \in Aliases : n > ns => groups'[MAGGroupName(n, a)] = Absent

\* The spec goes on, or ends: one that has passed is no EnsureGroupMembers.
SpecKept ==
  \/ UNCHANGED <<step, passed>>
  \/ /\ step' = step + 1 /\ step <= Len(case.specs)
     /\ passed' = passed \/ (passed' = passed \cup {step} /\ Cur.op # "ensure")

LEMMA MembersKept ==
  ASSUME GroupsKept, NEW a \in Aliases
  PROVE  Members(MAGGroupName(ns, a))' = Members(MAGGroupName(ns, a))
<1> DEFINE g == MAGGroupName(ns, a)
<1>1. CASE groups'[g] = groups[g]
  BY <1>1 DEF GroupsKept, Members, Exists, MAGGroupName
<1>2. CASE groups[g] = Absent /\ groups'[g] = {}
  BY <1>2 DEF GroupsKept, Members, Exists, MAGGroupName
<1> QED BY <1>1, <1>2 DEF GroupsKept

LEMMA AskedKept ==
  ASSUME TypeOK, PlaceInv, AskedInv, pc \in Active, GroupsKept, SpecKept
  PROVE  AskedInv'
<1> SUFFICES ASSUME NEW a \in Aliases, NEW i \in Asked(a)', \A j \in Ensures(a)' : j <= i
             PROVE  groups'[MAGGroupName(ns, a)] = case.specs[i].users
  BY DEF AskedInv, GroupsKept, MAGGroupName
<1>1. step \in Nat /\ Len(case.specs) \in Nat /\ DOMAIN case.specs = 1..Len(case.specs)
  BY SpecFacts
<1>2. case' = case /\ passed \subseteq DOMAIN case.specs
  BY DEF GroupsKept, TypeOK
<1>3. i \in Asked(a) /\ \A j \in Ensures(a) : j <= i
  <2>1. CASE UNCHANGED <<step, passed>>
    BY <1>2, <2>1 DEF Asked, Ensures
  <2>2. CASE step' = step + 1 /\ step <= Len(case.specs)
    <3>1. i \in Asked(a)
      BY <1>2, <2>2 DEF SpecKept, Asked, Cur
    <3>2. Ensures(a) \subseteq Ensures(a)'
      BY <1>1, <1>2, <2>2 DEF Ensures
    <3> QED BY <3>1, <3>2
  <2> QED BY <2>1, <2>2 DEF SpecKept
<1>4. groups[MAGGroupName(ns, a)] = case.specs[i].users
  BY <1>3 DEF AskedInv
<1>5. case.specs[i].users # Absent
  BY <1>2, <1>3, CasesAssumption, SetsOfUsers DEF Asked, TypeOK
<1> QED BY <1>4, <1>5 DEF GroupsKept

\* A step that leaves the groups and the logins alone and forgets no mark, but of
\* the user who logs in.
LEMMA FrameStep ==
  ASSUME IInv, TypeOK', PlaceInv', FileInv', OldInv', CredsInv',
         pc \in Active, pc' \in Active, GroupsKept, SpecKept,
         UNCHANGED <<login, kubeconfigs>>, stale \subseteq stale',
         dirty \subseteq dirty' \/ (step' = step /\ pc' = "login" /\ dirty \subseteq dirty' \cup {Cur.user}),
         pc = "login" => (pc' = "login" /\ step' = step) \/ Cur.user \in stale'
  PROVE  IInv'
<1> USE DEF IInv
<1>1. AskedInv'
  BY AskedKept
<1>2. NamesInv'
  BY DEF NamesInv, GroupsKept, MAGGroupName
<1>3. LoginInv'
  <2>1. ASSUME NEW u \in kubeconfigs, u \notin dirty', u \notin stale',
               ~(pc' = "login" /\ u = Cur.user')
        PROVE  Agree(login[u], u)'
    <3>1. step' = step => Cur' = Cur
      BY DEF Cur, GroupsKept
    <3>2. u \in kubeconfigs \ (dirty \cup stale) /\ ~(pc = "login" /\ u = Cur.user)
      BY <2>1, <3>1
    <3>3. Agree(login[u], u)
      BY <3>2 DEF LoginInv
    <3> QED BY <3>3, MembersKept DEF Agree, GroupsKept, MAGGroupName
  <2> QED BY <2>1 DEF LoginInv
<1> QED BY <1>1, <1>2, <1>3

\* The ends of a spec, and commands that fail.
LEMMA SpecEnds ==
  ASSUME TypeOK, PlaceInv, UNCHANGED testcase, step <= Len(case.specs), Pass \/ Fail
  PROVE  /\ pc' = "spec" /\ step' = step + 1 /\ step' \in 1..(Len(case'.specs) + 1)
         /\ passed' \subseteq DOMAIN case'.specs
         /\ \A i \in passed' : i < step'
         /\ passed' = passed \/ passed' = passed \cup {step}
<1>1. case' = case /\ step \in Nat /\ step \in DOMAIN case.specs /\ Len(case.specs) \in Nat
  BY SpecFacts DEF testcase
<1>2. pc' = "spec" /\ step' = step + 1 /\ (passed' = passed \/ passed' = passed \cup {step})
  BY DEF Pass, Fail, Goto
<1>3. step' \in 1..(Len(case'.specs) + 1)
  BY <1>1, <1>2, SpecFacts
<1>4. passed \subseteq DOMAIN case.specs /\ DOMAIN case.specs \subseteq Nat
  BY SpecFacts DEF TypeOK
<1>5. \A i \in passed' : i < step'
  <2> SUFFICES ASSUME NEW i \in passed' PROVE i < step'
    OBVIOUS
  <2>1. i = step \/ (i \in Nat /\ i < step)
    BY <1>2, <1>4 DEF PlaceInv
  <2> QED BY <1>1, <1>2, <2>1
<1>6. passed' \subseteq DOMAIN case'.specs
  BY <1>1, <1>2, <1>4
<1> QED BY <1>2, <1>3, <1>5, <1>6

LEMMA FaultsTyped ==
  ASSUME TypeOK, Fine \/ Fault
  PROVE  faults' \in 0..MaxFaults /\ trouble' \in BOOLEAN
<1>1. CASE Fine
  BY <1>1 DEF TypeOK, Fine
<1>2. CASE Fault
  BY <1>2, MagBoundsAssumption DEF TypeOK, Fault
<1> QED BY <1>1, <1>2

LEMMA GroupsSame ==
  ASSUME NamesInv, UNCHANGED <<testcase, groups>>
  PROVE  GroupsKept
BY DEF NamesInv, GroupsKept, testcase

LEMMA InitInv == Init => IInv
<1> SUFFICES ASSUME Init PROVE IInv
  OBVIOUS
<1>1. Len(case.specs) \in Nat /\ 1 \in 1..MaxCases /\ 1 \in 1..(Len(case.specs) + 1)
      /\ MaxFaults \in 0..MaxFaults
  BY CasesAssumption, MagBoundsAssumption DEF Init
<1>2. TypeOK
  BY <1>1 DEF Init, TypeOK, Absent, NoTask
<1>3. PlaceInv /\ FileInv /\ OldInv /\ CredsInv
  BY DEF Init, PlaceInv, FileInv, NoCredentialsLeft, OldInv, CredsInv, NoTask
<1>4. AskedInv /\ LoginInv
  BY DEF Init, AskedInv, Asked, LoginInv
<1>5. NamesInv
  BY <1>2, OwnGroups DEF Init, NamesInv
<1> QED BY <1>2, <1>3, <1>4, <1>5 DEF IInv

-----------------------------------------------------------------------------
\* One lemma per step.
LEMMA StartSpecStep == ASSUME IInv, StartSpec PROVE IInv'
<1> USE DEF IInv
<1>1. UNCHANGED <<testcase, groups, task, old, dirty, kubeconfigs, login, server, mode, hosted,
                  creds, files, stale>> /\ (Fine \/ Fault) /\ pc = "spec" /\ step <= Len(case.specs)
  BY DEF StartSpec, cluster, cache
<1>2. GroupsKept /\ faults' \in 0..MaxFaults /\ trouble' \in BOOLEAN
  BY <1>1, GroupsSame, FaultsTyped
<1>3. CASE pc' = "step" /\ UNCHANGED <<passed, step>>
  <2>1. TypeOK'
    BY <1>1, <1>2, <1>3 DEF TypeOK, testcase
  <2>2. PlaceInv' /\ FileInv' /\ OldInv' /\ CredsInv'
    BY <1>1, <1>3 DEF PlaceInv, FileInv, NoCredentialsLeft, OldInv, CredsInv, testcase
  <2> QED BY <1>1, <1>2, <1>3, <2>1, <2>2, FrameStep DEF SpecKept, Active
<1>4. CASE Fail
  <2>1. TypeOK'
    BY <1>1, <1>2, <1>4, SpecEnds DEF TypeOK, testcase
  <2>2. PlaceInv' /\ FileInv' /\ OldInv' /\ CredsInv'
    BY <1>1, <1>4, SpecEnds DEF PlaceInv, FileInv, NoCredentialsLeft, OldInv, CredsInv, testcase
  <2> QED BY <1>1, <1>2, <1>4, <2>1, <2>2, SpecEnds, FrameStep DEF SpecKept, Active, Fail
<1> QED BY <1>3, <1>4 DEF StartSpec, Goto

LEMMA CreateStep == ASSUME IInv, CreateApprovalPipelineRun PROVE IInv'
<1> USE DEF IInv
<1>1. /\ UNCHANGED <<testcase, groups, old, dirty, kubeconfigs, login, server, mode, hosted,
                     creds, files, stale>>
      /\ Fine \/ Fault
      /\ pc = "step" /\ step <= Len(case.specs) /\ Cur.op # "ensure"
  BY DEF CreateApprovalPipelineRun, cache, At, PlaceInv
<1>2. (Pass \/ Fail) /\ task'.state \in {"none", "pending", "approved", "rejected"}
      /\ "state" \in DOMAIN task'
  BY DEF CreateApprovalPipelineRun, NewTask, TypeOK, PlaceInv
<1>3. GroupsKept /\ faults' \in 0..MaxFaults /\ trouble' \in BOOLEAN
  BY <1>1, GroupsSame, FaultsTyped
<1>4. TypeOK'
  BY <1>1, <1>2, <1>3, SpecEnds DEF TypeOK, testcase
<1>5. PlaceInv' /\ FileInv' /\ OldInv' /\ CredsInv'
  BY <1>1, <1>2, SpecEnds DEF PlaceInv, FileInv, NoCredentialsLeft, OldInv, CredsInv, testcase
<1>6. SpecKept
  BY <1>1, <1>2, SpecEnds DEF SpecKept
<1> QED BY <1>1, <1>2, <1>3, <1>4, <1>5, <1>6, SpecEnds, FrameStep DEF Active

LEMMA WaitStep == ASSUME IInv, WaitForTask PROVE IInv'
<1> USE DEF IInv
<1>1. /\ UNCHANGED <<testcase, groups, task, old, dirty, kubeconfigs, login, server, mode, hosted,
                     creds, files, stale>>
      /\ Fine \/ Fault
      /\ pc = "step" /\ step <= Len(case.specs) /\ Cur.op # "ensure"
  BY DEF WaitForTask, cache, cluster, PlaceInv
<1>2. Pass \/ Fail
  BY DEF WaitForTask, Result
<1>3. GroupsKept /\ faults' \in 0..MaxFaults /\ trouble' \in BOOLEAN
  BY <1>1, GroupsSame, FaultsTyped
<1>4. TypeOK'
  BY <1>1, <1>2, <1>3, SpecEnds DEF TypeOK, testcase
<1>5. PlaceInv' /\ FileInv' /\ OldInv' /\ CredsInv'
  BY <1>1, <1>2, SpecEnds DEF PlaceInv, FileInv, NoCredentialsLeft, OldInv, CredsInv, testcase
<1>6. SpecKept
  BY <1>1, <1>2, SpecEnds DEF SpecKept
<1> QED BY <1>1, <1>2, <1>3, <1>4, <1>5, <1>6, SpecEnds, FrameStep DEF Active

LEMMA UseImpersonationStep == ASSUME IInv, UseImpersonation PROVE IInv'
<1> USE DEF IInv
<1>1. /\ UNCHANGED <<testcase, step, pc, passed, groups, task, old, dirty, kubeconfigs, login,
                     server, hosted, creds, files, stale>>
      /\ Fine \/ Fault
      /\ pc = "step"
  BY DEF UseImpersonation, cluster, At
<1>2. GroupsKept /\ faults' \in 0..MaxFaults /\ trouble' \in BOOLEAN
  BY <1>1, GroupsSame, FaultsTyped
<1>3. mode' \in {"unset", "login", "impersonate"}
  BY DEF UseImpersonation
<1>4. TypeOK'
  BY <1>1, <1>2, <1>3 DEF TypeOK, testcase
<1>5. PlaceInv' /\ FileInv' /\ OldInv' /\ CredsInv'
  BY <1>1 DEF PlaceInv, FileInv, NoCredentialsLeft, OldInv, CredsInv, testcase, Cur
<1> QED BY <1>1, <1>2, <1>4, <1>5, FrameStep DEF Active, SpecKept

LEMMA NewKubeconfigStep == ASSUME IInv, NewKubeconfig PROVE IInv'
<1> USE DEF IInv
<1>1. /\ UNCHANGED <<testcase, step, passed, groups, task, old, dirty, kubeconfigs, login,
                     server, mode, hosted, creds, files, stale>>
      /\ Fine \/ Fault
      /\ pc = "step" /\ Cur.op = "act" /\ pc' = "login"
  BY DEF NewKubeconfig, cluster, cache, At, Goto
<1>2. GroupsKept /\ faults' \in 0..MaxFaults /\ trouble' \in BOOLEAN
  BY <1>1, GroupsSame, FaultsTyped
<1>3. TypeOK'
  BY <1>1, <1>2 DEF TypeOK, testcase
<1>4. PlaceInv' /\ FileInv' /\ OldInv' /\ CredsInv'
  BY <1>1 DEF PlaceInv, FileInv, NoCredentialsLeft, OldInv, CredsInv, testcase, Cur
<1> QED BY <1>1, <1>2, <1>3, <1>4, FrameStep DEF Active, SpecKept

LEMMA CachedKubeconfigStep == ASSUME IInv, CachedKubeconfig PROVE IInv'
<1> USE DEF IInv
<1>1. /\ UNCHANGED <<testcase, step, passed, groups, task, old, kubeconfigs, login,
                     server, mode, hosted, files, stale>>
      /\ Fine /\ Cur.user \in kubeconfigs
      /\ pc = "step" /\ Cur.op = "act" /\ pc' \in {"login", "opc"}
  BY DEF CachedKubeconfig, cluster, At, Goto
<1>2. GroupsKept /\ faults' \in 0..MaxFaults /\ trouble' \in BOOLEAN
  BY <1>1, GroupsSame, FaultsTyped
<1>3. Cur.user \in Users /\ dirty' \subseteq dirty
  BY <1>1, SpecFacts DEF PlaceInv, CachedKubeconfig
<1>4. creds' \subseteq GroupNames
  BY <1>3 DEF CachedKubeconfig, TypeOK
<1>5. TypeOK'
  BY <1>1, <1>2, <1>3, <1>4 DEF TypeOK, testcase
<1>6. PlaceInv' /\ FileInv' /\ OldInv'
  BY <1>1 DEF PlaceInv, FileInv, NoCredentialsLeft, OldInv, testcase, Cur
<1>7. CredsInv'
  <2> SUFFICES ASSUME pc' = "opc", Cur.user \notin stale PROVE Agree(creds, Cur.user)'
    BY <1>1 DEF CredsInv, Cur, testcase
  <2>1. creds' = login[Cur.user] /\ Cur.user \notin dirty
    BY DEF CachedKubeconfig, Goto
  <2>2. Agree(login[Cur.user], Cur.user)
    BY <1>1, <2>1 DEF LoginInv, Active
  <2> QED BY <1>1, <2>1, <2>2 DEF Agree, Cur, testcase, Members, Exists
<1>8. dirty \subseteq dirty' \/ (pc' = "login" /\ dirty \subseteq dirty' \cup {Cur.user})
  BY DEF CachedKubeconfig, Goto
<1> QED BY <1>1, <1>2, <1>5, <1>6, <1>7, <1>8, FrameStep DEF Active, SpecKept

LEMMA ImpersonationStep == ASSUME IInv, ImpersonationKubeconfig PROVE IInv'
<1> USE DEF IInv
<1>1. /\ UNCHANGED <<testcase, groups, task, old, dirty, kubeconfigs, login, server, mode, hosted,
                     stale>>
      /\ Fine \/ Fault
      /\ pc = "step" /\ step <= Len(case.specs) /\ Cur.op = "act"
  BY DEF ImpersonationKubeconfig, cache, cluster, At, PlaceInv
<1>2. GroupsKept /\ faults' \in 0..MaxFaults /\ trouble' \in BOOLEAN
  BY <1>1, GroupsSame, FaultsTyped
<1>3. CASE pc' = "opc" /\ creds' = MemberOf(Cur.user) /\ files' = files \cup {"impersonate"}
           /\ UNCHANGED <<passed, step>>
  <2>1. TypeOK'
    BY <1>1, <1>2, <1>3 DEF TypeOK, testcase, MemberOf
  <2>2. PlaceInv' /\ FileInv' /\ OldInv'
    BY <1>1, <1>3 DEF PlaceInv, FileInv, NoCredentialsLeft, OldInv, testcase, Cur
  <2>3. Agree(MemberOf(Cur.user), Cur.user)
    BY AgreeMeans
  <2>4. CredsInv'
    BY <1>1, <1>3, <2>3 DEF CredsInv, Agree, Cur, testcase, Members, Exists
  <2> QED BY <1>1, <1>2, <1>3, <2>1, <2>2, <2>4, FrameStep DEF SpecKept, Active
<1>4. CASE Fail /\ UNCHANGED <<creds, files>>
  <2>1. TypeOK'
    BY <1>1, <1>2, <1>4, SpecEnds DEF TypeOK, testcase
  <2>2. PlaceInv' /\ FileInv' /\ OldInv' /\ CredsInv'
    BY <1>1, <1>4, SpecEnds DEF PlaceInv, FileInv, NoCredentialsLeft, OldInv, CredsInv, testcase
  <2> QED BY <1>1, <1>2, <1>4, <2>1, <2>2, SpecEnds, FrameStep DEF SpecKept, Active, Fail
<1> QED BY <1>3, <1>4 DEF ImpersonationKubeconfig, Goto

LEMMA ServerStep == ASSUME IInv, EnsureMAGAPIServer PROVE IInv'
<1> USE DEF IInv
<1>1. /\ UNCHANGED <<testcase, groups, task, old, dirty, kubeconfigs, login, mode, hosted,
                     creds, files>>
      /\ Fine \/ Fault
      /\ pc = "login" /\ step <= Len(case.specs) /\ Cur.op = "act" /\ Cur.user \in Users
      /\ server' \in {"known", "empty"}
  BY SpecFacts DEF EnsureMAGAPIServer, cluster, PlaceInv
<1>2. GroupsKept /\ faults' \in 0..MaxFaults /\ trouble' \in BOOLEAN
  BY <1>1, GroupsSame, FaultsTyped
<1>3. CASE UNCHANGED <<passed, step, pc, stale>>
  <2>1. TypeOK'
    BY <1>1, <1>2, <1>3 DEF TypeOK, testcase
  <2>2. PlaceInv' /\ FileInv' /\ OldInv' /\ CredsInv'
    BY <1>1, <1>3 DEF PlaceInv, FileInv, NoCredentialsLeft, OldInv, CredsInv, testcase, Cur
  <2> QED BY <1>1, <1>2, <1>3, <2>1, <2>2, FrameStep DEF SpecKept, Active
<1>4. CASE Fail /\ stale' = stale \cup {Cur.user}
  <2>1. TypeOK'
    BY <1>1, <1>2, <1>4, SpecEnds DEF TypeOK, testcase
  <2>2. PlaceInv' /\ FileInv' /\ OldInv' /\ CredsInv'
    BY <1>1, <1>4, SpecEnds DEF PlaceInv, FileInv, NoCredentialsLeft, OldInv, CredsInv, testcase
  <2> QED BY <1>1, <1>2, <1>4, <2>1, <2>2, SpecEnds, FrameStep DEF SpecKept, Active, Fail
<1> QED BY <1>3, <1>4 DEF EnsureMAGAPIServer

LEMMA PerformStep == ASSUME IInv, Perform PROVE IInv'
<1> USE DEF IInv
<1>1. /\ UNCHANGED <<testcase, groups, old, dirty, kubeconfigs, login, server, mode, hosted,
                     creds, stale>>
      /\ Fine \/ Fault
      /\ pc = "opc" /\ step <= Len(case.specs) /\ Cur.op # "ensure"
      /\ files' = files \ {"impersonate"}
  BY DEF Perform, RemoveTemporary, cache, PlaceInv
<1>2. Pass \/ Fail
  BY DEF Perform, Result
<1>3. /\ "state" \in DOMAIN task'
      /\ task'.state \in {"none", "pending", "approved", "rejected"}
  <2>1. task' = task \/ \E ways : task' = Respond(task, Cur, ways)
    BY DEF Perform
  <2> QED BY <2>1 DEF Respond, TypeOK, PlaceInv
<1>4. GroupsKept /\ faults' \in 0..MaxFaults /\ trouble' \in BOOLEAN
  BY <1>1, GroupsSame, FaultsTyped
<1>5. TypeOK'
  BY <1>1, <1>2, <1>3, <1>4, SpecEnds DEF TypeOK, testcase
<1>6. PlaceInv' /\ FileInv' /\ OldInv' /\ CredsInv'
  BY <1>1, <1>2, <1>3, SpecEnds DEF PlaceInv, FileInv, NoCredentialsLeft, OldInv, CredsInv, testcase
<1>7. SpecKept
  BY <1>1, <1>2, SpecEnds DEF SpecKept
<1> QED BY <1>1, <1>2, <1>4, <1>5, <1>6, <1>7, SpecEnds, FrameStep DEF Active

LEMMA ReadGroupStep == ASSUME IInv, ReadGroup PROVE IInv'
<1> USE DEF IInv
<1> DEFINE g == MAGGroupName(ns, Cur.alias)
<1>1. /\ UNCHANGED <<testcase, step, passed, groups, task, dirty, kubeconfigs, login, server,
                     mode, hosted, creds, files>>
      /\ Fine \/ Fault
      /\ pc = "step" /\ pc' = "new" /\ Cur.op = "ensure"
  BY DEF ReadGroup, cache, cluster, At, Goto
<1>2. g \in GroupNames /\ Members(g) \subseteq Users
  <2>1. Cur.alias \in Aliases
    BY <1>1, SpecFacts DEF PlaceInv
  <2>2. g \in GroupNames
    BY <2>1, OwnGroups
  <2> QED BY <2>2 DEF TypeOK, Members, Exists
<1>3. /\ old' \in [exists : BOOLEAN, users : SUBSET Users]
      /\ stale \subseteq stale' /\ stale' \subseteq Users
      /\ Members(g) \subseteq old'.users \cup stale'
      /\ old'.exists => Members(g) = old'.users
  <2>1. CASE stale' = stale /\ old' = [exists |-> Exists(g), users |-> Members(g)]
    BY <1>2, <2>1 DEF TypeOK, Exists
  <2>2. CASE stale' = stale \cup Members(g) /\ old' = [exists |-> FALSE, users |-> {}]
    BY <1>2, <2>2 DEF TypeOK
  <2> QED BY <2>1, <2>2 DEF ReadGroup
<1>4. GroupsKept /\ faults' \in 0..MaxFaults /\ trouble' \in BOOLEAN
  BY <1>1, GroupsSame, FaultsTyped
<1>5. TypeOK'
  BY <1>1, <1>3, <1>4 DEF TypeOK, testcase
<1>6. PlaceInv' /\ FileInv' /\ CredsInv'
  BY <1>1 DEF PlaceInv, FileInv, NoCredentialsLeft, CredsInv, testcase, Cur
<1>7. OldInv'
  BY <1>1, <1>3 DEF OldInv, Cur, testcase, Members, Exists, MAGGroupName
<1> QED BY <1>1, <1>3, <1>4, <1>5, <1>6, <1>7, FrameStep DEF Active, SpecKept

LEMMA NewGroupStep == ASSUME IInv, NewGroup PROVE IInv'
<1> USE DEF IInv
<1> DEFINE g    == MAGGroupName(ns, Cur.alias)
           made == IF Exists(g) THEN groups ELSE [groups EXCEPT ![g] = {}]
<1>1. /\ UNCHANGED <<testcase, task, old, dirty, kubeconfigs, login, server,
                     mode, hosted, creds, files, stale>>
      /\ Fine \/ Fault
      /\ pc = "new" /\ Cur.op = "ensure" /\ step <= Len(case.specs)
      /\ groups' \in {groups, made}
  BY DEF NewGroup, cache, PlaceInv
<1>2. Cur.alias \in Aliases /\ g \in GroupNames
  BY <1>1, SpecFacts, OwnGroups
<1>3. GroupsKept /\ groups' \in [GroupNames -> {Absent} \cup SUBSET Users]
  <2>1. CASE groups' = groups
    BY <1>1, <2>1, GroupsSame DEF TypeOK
  <2>2. CASE groups' = [groups EXCEPT ![g] = {}] /\ groups[g] = Absent
    <3>1. groups' \in [GroupNames -> {Absent} \cup SUBSET Users]
      BY <2>2 DEF TypeOK
    <3>2. \A a \in Aliases : groups'[MAGGroupName(ns, a)] = groups[MAGGroupName(ns, a)]
                             \/ (groups[MAGGroupName(ns, a)] = Absent /\ groups'[MAGGroupName(ns, a)] = {})
      <4> SUFFICES ASSUME NEW a \in Aliases
                   PROVE  LET h == MAGGroupName(ns, a)
                          IN groups'[h] = groups[h] \/ (groups[h] = Absent /\ groups'[h] = {})
        OBVIOUS
      <4>1. MAGGroupName(ns, a) \in GroupNames
        BY OwnGroups
      <4> QED BY <2>2, <1>2, <4>1 DEF TypeOK
    <3>3. \A n \in Namespaces, a \in Aliases : n > ns => groups'[MAGGroupName(n, a)] = Absent
      <4> SUFFICES ASSUME NEW n \in Namespaces, NEW a \in Aliases, n > ns
                   PROVE  groups'[MAGGroupName(n, a)] = Absent
        OBVIOUS
      <4>1. n # ns
        BY SpecFacts DEF Namespaces
      <4>2. MAGGroupName(n, a) # g
        BY <4>1, OwnGroups
      <4>3. MAGGroupName(n, a) \in GroupNames /\ groups[MAGGroupName(n, a)] = Absent
        BY OwnGroups DEF NamesInv
      <4> QED BY <2>2, <4>2, <4>3 DEF TypeOK
    <3> QED BY <1>1, <3>1, <3>2, <3>3 DEF GroupsKept, testcase
  <2> QED BY <1>1, <2>1, <2>2 DEF Exists
<1>4. faults' \in 0..MaxFaults /\ trouble' \in BOOLEAN
  BY <1>1, FaultsTyped
<1>5. CASE pc' = "patch" /\ UNCHANGED <<passed, step>>
  <2>1. TypeOK'
    BY <1>1, <1>3, <1>4, <1>5 DEF TypeOK, testcase
  <2>2. PlaceInv' /\ FileInv' /\ CredsInv'
    BY <1>1, <1>5 DEF PlaceInv, FileInv, NoCredentialsLeft, CredsInv, testcase, Cur
  <2>3. OldInv'
    <3>1. Cur' = Cur /\ ns' = ns
      BY <1>1, <1>5 DEF Cur, testcase
    <3>2. Members(MAGGroupName(ns, Cur.alias))' = Members(MAGGroupName(ns, Cur.alias))
      BY <1>2, <1>3, MembersKept, <3>1 DEF MAGGroupName, Members, Exists
    <3> QED BY <1>1, <3>2 DEF OldInv
  <2> QED BY <1>1, <1>3, <1>5, <2>1, <2>2, <2>3, FrameStep DEF SpecKept, Active
<1>6. CASE Fail
  <2>1. TypeOK'
    BY <1>1, <1>3, <1>4, <1>6, SpecEnds DEF TypeOK, testcase
  <2>2. PlaceInv' /\ FileInv' /\ OldInv' /\ CredsInv'
    BY <1>1, <1>6, SpecEnds DEF PlaceInv, FileInv, NoCredentialsLeft, OldInv, CredsInv, testcase
  <2> QED BY <1>1, <1>3, <1>6, <2>1, <2>2, SpecEnds, FrameStep DEF SpecKept, Active, Fail
<1> QED BY <1>5, <1>6 DEF NewGroup, Goto

LEMMA LoginStep == ASSUME IInv, Login PROVE IInv'
<1> USE DEF IInv
<1>1. /\ UNCHANGED <<testcase, groups, task, old, server, mode, hosted>>
      /\ pc = "login" /\ step <= Len(case.specs) /\ Cur.op = "act" /\ Cur.user \in Users
  BY SpecFacts DEF Login, cluster, PlaceInv
<1>2. Fine \/ Fault
  BY DEF Login
<1>3. GroupsKept /\ faults' \in 0..MaxFaults /\ trouble' \in BOOLEAN
  BY <1>1, <1>2, GroupsSame, FaultsTyped
<1>4. CASE /\ Fail /\ stale' = stale \cup {Cur.user}
           /\ UNCHANGED <<login, creds, kubeconfigs, dirty, files>>
  <2>1. TypeOK'
    BY <1>1, <1>3, <1>4, SpecEnds DEF TypeOK, testcase
  <2>2. PlaceInv' /\ FileInv' /\ OldInv' /\ CredsInv'
    BY <1>1, <1>4, SpecEnds DEF PlaceInv, FileInv, NoCredentialsLeft, OldInv, CredsInv, testcase
  <2> QED BY <1>1, <1>3, <1>4, <2>1, <2>2, SpecEnds, FrameStep DEF SpecKept, Active, Fail
<1>5. CASE /\ pc' = "opc" /\ UNCHANGED <<passed, step>>
           /\ login' = [login EXCEPT ![Cur.user] = MemberOf(Cur.user)]
           /\ creds' = MemberOf(Cur.user)
           /\ kubeconfigs' = kubeconfigs \cup {Cur.user} /\ dirty' = dirty \ {Cur.user}
           /\ files' = files \cup {Cur.user} /\ stale' = stale \ {Cur.user}
  <2>1. Cur' = Cur /\ ns' = ns /\ groups' = groups /\ case' = case
    BY <1>1, <1>5 DEF Cur, testcase
  <2>2. TypeOK'
    BY <1>1, <1>3, <1>5 DEF TypeOK, testcase, MemberOf
  <2>3. PlaceInv' /\ FileInv' /\ OldInv'
    BY <1>1, <1>5, <2>1 DEF PlaceInv, FileInv, NoCredentialsLeft, OldInv, Cur
  <2>4. Agree(MemberOf(Cur.user), Cur.user)
    BY AgreeMeans
  <2>5. CredsInv'
    BY <1>5, <2>1, <2>4 DEF CredsInv, Agree, Members, Exists
  <2>6. AskedInv'
    BY <1>1, <1>3, <1>5, AskedKept DEF SpecKept, Active
  <2>7. NamesInv'
    <3> SUFFICES ASSUME NEW n \in Namespaces, NEW a \in Aliases, n > ns, NEW u \in Users
                 PROVE  /\ groups[MAGGroupName(n, a)] = Absent
                        /\ MAGGroupName(n, a) \notin login'[u]
      BY <2>1, <1>1 DEF NamesInv
    <3>1. groups[MAGGroupName(n, a)] = Absent /\ MAGGroupName(n, a) \notin login[u]
      BY DEF NamesInv
    <3>2. MAGGroupName(n, a) \notin MemberOf(Cur.user)
      BY <3>1 DEF MemberOf, Members, Exists
    <3> QED BY <1>5, <3>1, <3>2 DEF TypeOK
  <2>8. LoginInv'
    <3> SUFFICES ASSUME NEW u \in kubeconfigs', u \notin dirty', u \notin stale'
                 PROVE  Agree(login[u], u)'
      BY DEF LoginInv
    <3>1. CASE u = Cur.user
      <4>1. login'[u] = MemberOf(Cur.user)
        BY <1>1, <1>5, <3>1 DEF TypeOK
      <4> QED BY <4>1, <3>1, <2>1, <2>4 DEF Agree, Members, Exists
    <3>2. CASE u # Cur.user
      <4>1. u \in kubeconfigs \ (dirty \cup stale)
        BY <1>5, <3>2
      <4>2. Agree(login[u], u)
        BY <1>1, <3>2, <4>1 DEF LoginInv, Active
      <4>3. login'[u] = login[u]
        BY <1>5, <3>2, <4>1 DEF TypeOK
      <4> QED BY <2>1, <4>2, <4>3 DEF Agree, Members, Exists
    <3> QED BY <3>1, <3>2
  <2> QED BY <2>2, <2>3, <2>5, <2>6, <2>7, <2>8
<1> QED BY <1>4, <1>5 DEF Login, Goto

LEMMA PatchGroupStep == ASSUME IInv, PatchGroup PROVE IInv'
<1> USE DEF IInv
<1> DEFINE g == MAGGroupName(ns, Cur.alias)
           set == [groups EXCEPT ![g] = Cur.users]
<1>1. /\ UNCHANGED <<testcase, task, old, kubeconfigs, login, server, mode, hosted, creds, files>>
      /\ pc = "patch" /\ Cur.op = "ensure" /\ step <= Len(case.specs)
      /\ (Pass \/ Fail) /\ (Fine \/ Fault)
      /\ groups' \in {groups, set}
  BY DEF PatchGroup, PlaceInv
<1>2. Cur.alias \in Aliases /\ Cur.users \subseteq Users /\ g \in GroupNames
  BY <1>1, SpecFacts, OwnGroups
<1>3. faults' \in 0..MaxFaults /\ trouble' \in BOOLEAN /\ case' = case /\ ns' = ns
  BY <1>1, FaultsTyped DEF testcase
<1>4. CASE groups' = groups /\ Fail /\ UNCHANGED <<dirty, stale>>
  <2>1. GroupsKept
    BY <1>1, <1>4, GroupsSame
  <2>2. TypeOK'
    BY <1>1, <1>3, <1>4, SpecEnds DEF TypeOK
  <2>3. PlaceInv' /\ FileInv' /\ OldInv' /\ CredsInv'
    BY <1>1, <1>4, SpecEnds DEF PlaceInv, FileInv, NoCredentialsLeft, OldInv, CredsInv
  <2> QED BY <1>1, <1>4, <2>1, <2>2, <2>3, SpecEnds, FrameStep DEF SpecKept, Active, Fail
<1>5. CASE /\ groups' = set
           /\ \/ Pass /\ dirty' = dirty \cup ToMark(Cur.users) /\ stale' = stale
              \/ Fail /\ dirty' = dirty /\ stale' = stale \cup Members(g) \cup Cur.users
  <2>1. Members(g) \subseteq Users /\ groups'[g] = Cur.users
    BY <1>2, <1>5 DEF TypeOK, Members, Exists
  <2>2. groups' \in [GroupNames -> {Absent} \cup SUBSET Users]
    BY <1>2, <1>5 DEF TypeOK
  <2>3. ToMark(Cur.users) \subseteq Users
    BY <1>2 DEF ToMark, TypeOK
  <2>4. TypeOK'
    <3>1. (dirty' \cup kubeconfigs' \cup stale') \subseteq Users
      BY <1>1, <1>2, <1>5, <2>1, <2>3 DEF TypeOK
    <3> QED BY <1>1, <1>3, <2>2, <3>1, SpecEnds DEF TypeOK
  <2>5. PlaceInv' /\ FileInv' /\ OldInv' /\ CredsInv'
    BY <1>1, SpecEnds DEF PlaceInv, FileInv, NoCredentialsLeft, OldInv, CredsInv
  <2>6. AskedInv'
    <3> SUFFICES ASSUME NEW a \in Aliases, NEW i \in Asked(a)', \A j \in Ensures(a)' : j <= i
                 PROVE  groups'[MAGGroupName(ns, a)] = case.specs[i].users
      BY <1>3 DEF AskedInv, MAGGroupName
    <3>1. step \in Nat /\ step \in 1..Len(case.specs) /\ passed \subseteq Nat /\ step' = step + 1
      BY <1>1, SpecFacts, SpecEnds DEF TypeOK
    <3>2. i \in passed \cup {step} /\ case.specs[i].op = "ensure" /\ case.specs[i].alias = a
      BY <1>1, <1>3, SpecEnds DEF Asked
    <3>3. CASE a = Cur.alias
      <4>1. step \in Ensures(a)'
        BY <1>1, <1>3, <3>1, <3>3 DEF Ensures, Cur
      <4>2. step <= i
        BY <4>1
      <4>3. i \in passed => i < step /\ i \in Nat
        BY <3>1 DEF PlaceInv
      <4>4. i = step
        BY <3>1, <3>2, <4>2, <4>3
      <4> QED BY <2>1, <3>3, <4>4 DEF Cur
    <3>4. CASE a # Cur.alias
      <4>1. i # step
        BY <3>2, <3>4 DEF Cur
      <4>2. i \in Asked(a) /\ Ensures(a) \subseteq Ensures(a)'
        BY <1>3, <3>1, <3>2, <4>1 DEF Asked, Ensures
      <4>3. groups[MAGGroupName(ns, a)] = case.specs[i].users
        BY <1>1, <4>2 DEF AskedInv, Active
      <4>4. MAGGroupName(ns, a) \in GroupNames /\ MAGGroupName(ns, a) # g
        BY <3>4, OwnGroups
      <4> QED BY <1>5, <4>3, <4>4 DEF TypeOK
    <3> QED BY <3>3, <3>4
  <2>7. NamesInv'
    <3> SUFFICES ASSUME NEW n \in Namespaces, NEW a \in Aliases, n > ns
                 PROVE  groups'[MAGGroupName(n, a)] = Absent
      BY <1>1, <1>3 DEF NamesInv, MAGGroupName
    <3>1. n # ns
      BY SpecFacts DEF Namespaces
    <3>2. MAGGroupName(n, a) # g /\ MAGGroupName(n, a) \in GroupNames
      BY <3>1, OwnGroups
    <3> QED BY <1>5, <3>2 DEF TypeOK, NamesInv
  <2>8. LoginInv'
    <3> SUFFICES ASSUME NEW u \in kubeconfigs, u \notin dirty', u \notin stale'
                 PROVE  Agree(login[u], u)'
      BY <1>1 DEF LoginInv
    <3>1. u \notin dirty /\ u \notin stale
      BY <1>5
    <3>2. Agree(login[u], u)
      BY <1>1, <3>1 DEF LoginInv, Active
    <3>3. u \in Members(g) <=> u \in Cur.users
      <4>1. CASE dirty' = dirty \cup ToMark(Cur.users)
        <5>1. u \notin ToMark(Cur.users)
          BY <4>1
        <5>2. Members(g) \subseteq old.users \cup stale /\ (old.exists => Members(g) = old.users)
          BY <1>1 DEF OldInv
        <5> QED BY <3>1, <5>1, <5>2 DEF ToMark
      <4>2. CASE stale' = stale \cup Members(g) \cup Cur.users
        BY <4>2
      <4> QED BY <1>5, <4>1, <4>2
    <3>4. ASSUME NEW a \in Aliases
          PROVE  u \in Members(MAGGroupName(ns, a))' <=> u \in Members(MAGGroupName(ns, a))
      <4>1. CASE a = Cur.alias
        <5>1. groups'[MAGGroupName(ns, a)] = Cur.users /\ Cur.users # Absent
          BY <1>2, <2>1, <4>1, SetsOfUsers
        <5> QED BY <1>3, <3>3, <4>1, <5>1 DEF Members, Exists, MAGGroupName
      <4>2. CASE a # Cur.alias
        <5>1. MAGGroupName(ns, a) \in GroupNames /\ MAGGroupName(ns, a) # g
          BY <4>2, OwnGroups
        <5>2. groups'[MAGGroupName(ns, a)] = groups[MAGGroupName(ns, a)]
          BY <1>5, <5>1 DEF TypeOK
        <5> QED BY <1>3, <5>2 DEF Members, Exists, MAGGroupName
      <4> QED BY <4>1, <4>2
    <3> QED BY <1>1, <1>3, <3>2, <3>4 DEF Agree, MAGGroupName
  <2> QED BY <2>4, <2>5, <2>6, <2>7, <2>8
<1> QED
  <2>1. CASE Fine /\ Pass /\ groups' = set /\ dirty' = dirty \cup ToMark(Cur.users) /\ UNCHANGED stale
    BY <1>5, <2>1
  <2>2. CASE /\ Fault /\ Fail /\ UNCHANGED dirty /\ groups' \in {groups, set}
             /\ stale' = IF groups' = groups THEN stale ELSE stale \cup Members(g) \cup Cur.users
    BY <1>4, <1>5, <2>2
  <2> QED BY <2>1, <2>2 DEF PatchGroup

LEMMA DeleteGroupsStep == ASSUME IInv, DeleteGroups PROVE IInv'
<1> USE DEF IInv
<1>1. /\ UNCHANGED <<testcase, step, passed, task, old, dirty, kubeconfigs, login, server, mode,
                     hosted, creds, files, stale>>
      /\ (Fine \/ Fault) /\ pc = "spec" /\ pc' = "end"
      /\ \/ groups' = groups
         \/ groups' = [g \in GroupNames |-> IF g \in Own THEN Absent ELSE groups[g]]
  BY DEF DeleteGroups, cache, Goto
<1>2. faults' \in 0..MaxFaults /\ trouble' \in BOOLEAN /\ case' = case /\ ns' = ns
  BY <1>1, FaultsTyped DEF testcase
<1>3. groups' \in [GroupNames -> {Absent} \cup SUBSET Users]
  BY <1>1 DEF TypeOK
<1>4. TypeOK'
  BY <1>1, <1>2, <1>3 DEF TypeOK
<1>5. PlaceInv' /\ FileInv' /\ OldInv' /\ CredsInv' /\ AskedInv' /\ LoginInv'
  BY <1>1, <1>2 DEF PlaceInv, FileInv, NoCredentialsLeft, OldInv, CredsInv, AskedInv, LoginInv, Active
<1>6. NamesInv'
  <2> SUFFICES ASSUME NEW n \in Namespaces, NEW a \in Aliases, n > ns
               PROVE  groups'[MAGGroupName(n, a)] = Absent
    BY <1>1, <1>2 DEF NamesInv, MAGGroupName
  <2> QED BY <1>1, OwnGroups DEF NamesInv
<1> QED BY <1>4, <1>5, <1>6

LEMMA NextCaseStep == ASSUME IInv, NextCase PROVE IInv'
<1> USE DEF IInv
<1>1. /\ UNCHANGED <<faults, groups, old, dirty, kubeconfigs, login, server, mode, hosted, creds,
                     files, stale>>
      /\ pc = "end" /\ pc' = "spec" /\ ns < MaxCases
      /\ case' \in Cases /\ ns' = ns + 1 /\ step' = 1
      /\ passed' = {} /\ trouble' = FALSE /\ task' = NoTask
  BY DEF NextCase, cache
<1>2. ns' \in 1..MaxCases /\ ns \in Nat
  BY <1>1, SpecFacts
<1>3. step' \in 1..(Len(case'.specs) + 1)
  BY <1>1, CasesAssumption
<1>4. TypeOK'
  BY <1>1, <1>2, <1>3 DEF TypeOK, NoTask
<1>5. PlaceInv' /\ FileInv' /\ OldInv' /\ CredsInv' /\ AskedInv'
  BY <1>1 DEF PlaceInv, FileInv, NoCredentialsLeft, OldInv, CredsInv, AskedInv, Asked, NoTask
<1>6. NamesInv'
  <2>1. \A n \in Namespaces : n > ns' => n > ns
    BY <1>1, <1>2 DEF Namespaces
  <2> QED BY <1>1, <2>1 DEF NamesInv, MAGGroupName
<1>7. LoginInv'
  <2>1. ns + 1 \in Namespaces /\ ns + 1 > ns
    BY <1>1, <1>2, SpecFacts DEF Namespaces
  <2>2. kubeconfigs \subseteq Users
    BY DEF TypeOK
  <2>3. ASSUME NEW u \in kubeconfigs PROVE Agree(login[u], u)'
    BY <1>1, <2>1, <2>2 DEF NamesInv, Agree, Members, Exists, MAGGroupName
  <2> QED BY <1>1, <2>3 DEF LoginInv
<1> QED BY <1>4, <1>5, <1>6, <1>7

LEMMA CleanupStep == ASSUME IInv, CleanupUserKubeconfigs PROVE IInv'
<1> USE DEF IInv
<1>1. /\ UNCHANGED <<testcase, step, faults, passed, trouble, groups, task, old, login, server,
                     mode, hosted, creds, stale>>
      /\ pc = "end" /\ pc' = "done"
      /\ files' = files \ kubeconfigs /\ kubeconfigs' = {} /\ dirty' = {}
  BY DEF CleanupUserKubeconfigs, cluster, Goto
<1>2. files' = {}
  BY <1>1 DEF FileInv
<1>3. TypeOK'
  BY <1>1 DEF TypeOK, testcase
<1>4. PlaceInv' /\ FileInv' /\ OldInv' /\ CredsInv' /\ AskedInv' /\ LoginInv' /\ NamesInv'
  BY <1>1, <1>2 DEF PlaceInv, FileInv, NoCredentialsLeft, OldInv, CredsInv, AskedInv, LoginInv,
                    NamesInv, Active, testcase, MAGGroupName
<1> QED BY <1>3, <1>4

\* Steps of the task alone, and no step.
LEMMA TaskStep ==
  ASSUME IInv, UNCHANGED <<case, ns, step, pc, passed, groups, old, dirty, kubeconfigs, login,
                           server, mode, hosted, creds, files, stale>>,
         faults' \in 0..MaxFaults, trouble' \in BOOLEAN,
         "state" \in DOMAIN task', task'.state \in {"none", "pending", "approved", "rejected"}
  PROVE  IInv'
<1> USE DEF IInv
<1>1. TypeOK'
  BY DEF TypeOK
<1>2. PlaceInv' /\ FileInv'
  BY DEF PlaceInv, FileInv, NoCredentialsLeft, Cur
<1>3. OldInv' /\ CredsInv'
  BY DEF OldInv, CredsInv, Agree, Cur, Members, Exists, MAGGroupName
<1>4. AskedInv' /\ NamesInv'
  BY DEF AskedInv, Asked, Ensures, NamesInv, MAGGroupName
<1>5. LoginInv'
  BY DEF LoginInv, Agree, Cur, Members, Exists, MAGGroupName
<1> QED BY <1>1, <1>2, <1>3, <1>4, <1>5

LEMMA ExpireStep == ASSUME IInv, Expire PROVE IInv'
<1> USE DEF IInv
<1>1. Fine \/ Fault
  BY DEF Expire
<1>2. "state" \in DOMAIN task' /\ task'.state = "rejected"
  BY DEF Expire, PlaceInv
<1> QED BY <1>1, <1>2, TaskStep, FaultsTyped DEF Expire, testcase, cache

LEMMA OtherTestStep == ASSUME IInv, OtherTest PROVE IInv'
<1> USE DEF IInv
<1>1. UNCHANGED <<case, ns, step, pc, faults, passed, trouble, task, old, dirty, kubeconfigs, login,
                  server, mode, hosted, creds, files, stale>>
  BY DEF OtherTest, testcase, cache
<1>2. PICK a \in Aliases, m \in {Absent, Users} :
        groups' = [groups EXCEPT ![MAGGroupName(Other, a)] = m]
  BY DEF OtherTest
<1>3. groups' \in [GroupNames -> {Absent} \cup SUBSET Users]
  BY <1>2 DEF TypeOK
<1>4. \A n \in Namespaces, b \in Aliases :
        n # Other => groups'[MAGGroupName(n, b)] = groups[MAGGroupName(n, b)]
  <2> SUFFICES ASSUME NEW n \in Namespaces, NEW b \in Aliases, n # Other
               PROVE  groups'[MAGGroupName(n, b)] = groups[MAGGroupName(n, b)]
    OBVIOUS
  <2>1. MAGGroupName(n, b) \in GroupNames /\ MAGGroupName(n, b) # MAGGroupName(Other, a)
    BY OwnGroups
  <2> QED BY <1>2, <2>1 DEF TypeOK
<1>5. \A b \in Aliases : groups'[MAGGroupName(ns, b)] = groups[MAGGroupName(ns, b)]
  BY <1>4, OwnGroups
<1>6. \A n \in Namespaces, b \in Aliases : n > ns => groups'[MAGGroupName(n, b)] = Absent
  <2> SUFFICES ASSUME NEW n \in Namespaces, NEW b \in Aliases, n > ns
               PROVE  groups'[MAGGroupName(n, b)] = Absent
    OBVIOUS
  <2>1. n # Other
    BY SpecFacts DEF Namespaces, Other
  <2> QED BY <1>4, <2>1 DEF NamesInv
<1>7. \A b \in Aliases : Members(MAGGroupName(ns, b))' = Members(MAGGroupName(ns, b))
  BY <1>1, <1>5 DEF Members, Exists, MAGGroupName
<1>8. TypeOK'
  BY <1>1, <1>3 DEF TypeOK
<1>9. PlaceInv' /\ FileInv'
  BY <1>1 DEF PlaceInv, FileInv, NoCredentialsLeft, Cur
<1>10. OldInv'
  <2> SUFFICES ASSUME pc \in {"new", "patch"} PROVE OldInv'
    BY <1>1 DEF OldInv
  <2>1. Cur.alias \in Aliases /\ Cur' = Cur
    BY <1>1, SpecFacts DEF PlaceInv, Cur
  <2>2. Members(MAGGroupName(ns, Cur.alias))' = Members(MAGGroupName(ns, Cur.alias))
    BY <1>1, <1>7, <2>1 DEF Members, Exists, MAGGroupName
  <2> QED BY <1>1, <2>2 DEF OldInv
<1>11. CredsInv' /\ LoginInv'
  BY <1>1, <1>7 DEF CredsInv, LoginInv, Agree, Cur, MAGGroupName
<1>12. AskedInv'
  BY <1>1, <1>5 DEF AskedInv, Asked, Ensures, MAGGroupName
<1>13. NamesInv'
  BY <1>1, <1>6 DEF NamesInv, MAGGroupName
<1> QED BY <1>8, <1>9, <1>10, <1>11, <1>12, <1>13

LEMMA StutterStep == ASSUME IInv, UNCHANGED vars PROVE IInv'
BY TaskStep DEF vars, testcase, cluster, cache, IInv, TypeOK, PlaceInv

LEMMA NextInv == ASSUME IInv, [Next]_vars PROVE IInv'
<1>1. ASSUME Spec1 PROVE IInv'
  BY <1>1, StartSpecStep, ReadGroupStep, NewGroupStep, PatchGroupStep, CreateStep DEF Spec1
<1>2. ASSUME Acting PROVE IInv'
  BY <1>2, UseImpersonationStep, ImpersonationStep, CachedKubeconfigStep, NewKubeconfigStep,
     ServerStep, LoginStep, PerformStep DEF Acting
<1>3. ASSUME Ending PROVE IInv'
  BY <1>3, WaitStep, DeleteGroupsStep, NextCaseStep, CleanupStep DEF Ending
<1>4. ASSUME Expire \/ OtherTest PROVE IInv'
  BY <1>4, ExpireStep, OtherTestStep
<1>5. ASSUME Done \/ UNCHANGED vars PROVE IInv'
  BY <1>5, StutterStep DEF Done
<1> QED BY <1>1, <1>2, <1>3, <1>4, <1>5 DEF Next, Test

-----------------------------------------------------------------------------
\* The inductive invariant holds.
THEOREM Invariant == Spec => []IInv
BY InitInv, NextInv, PTL DEF Spec

\* The variables keep their types.
THEOREM TypeCorrect == Spec => []TypeOK
<1>1. IInv => TypeOK
  BY DEF IInv
<1> QED BY <1>1, Invariant, PTL

\* The groups of a test case have the members it asked for last
\* (manualapprovalgate.go:205-207).
THEOREM GroupsStayApart == Spec => []GroupsApart
<1>1. IInv => GroupsApart
  BY DEF IInv, AskedInv, GroupsApart, Active
<1> QED BY <1>1, Invariant, PTL

\* CleanupUserKubeconfigs removes every file with credentials.
THEOREM NoCredentialsStay == Spec => []NoCredentialsLeft
<1>1. IInv => NoCredentialsLeft
  BY DEF IInv, FileInv
<1> QED BY <1>1, Invariant, PTL

-----------------------------------------------------------------------------
(* What holds in a test case in which no command has failed, of every      *)
(* user: the failures of earlier test cases are mended by the marks of     *)
(* this one, as its groups did not exist before.                           *)

Calm == ~trouble /\ ~Poisoned

\* A cached login is good unless its user is marked or logging in.
CalmLogins ==
  \A u \in kubeconfigs \ dirty : ~(pc = "login" /\ u = Cur.user) => Agree(login[u], u)

\* What EnsureGroupMembers has read and what opc acts with.
CalmRest ==
  /\ pc \in Active => CalmLogins
  /\ pc \in {"new", "patch"} => Members(MAGGroupName(ns, Cur.alias)) \subseteq old.users
  /\ pc = "opc" => Agree(creds, Cur.user)

CalmInv == (pc = "login" => mode = "login") /\ (Calm => CalmRest)

MembersSame ==
  /\ UNCHANGED <<case, ns>>
  /\ \A a \in Aliases : Members(MAGGroupName(ns, a))' = Members(MAGGroupName(ns, a))

\* A new group is empty, like one that is not there.
LEMMA NewGroupMembers == ASSUME IInv, NewGroup PROVE MembersSame
<1> DEFINE g == MAGGroupName(ns, Cur.alias)
<1>1. /\ pc = "new" /\ UNCHANGED testcase
      /\ groups' \in {groups, IF Exists(g) THEN groups ELSE [groups EXCEPT ![g] = {}]}
  BY DEF NewGroup
<1>2. g \in GroupNames /\ TypeOK
  BY <1>1, SpecFacts, OwnGroups DEF PlaceInv, IInv
<1>3. ASSUME NEW a \in Aliases
      PROVE  Members(MAGGroupName(ns, a))' = Members(MAGGroupName(ns, a))
  <2>1. MAGGroupName(ns, a) \in GroupNames /\ MAGGroupName(ns, a)' = MAGGroupName(ns, a)
    BY <1>1, <1>2, OwnGroups DEF testcase, MAGGroupName
  <2>2. CASE groups' = groups
    BY <2>1, <2>2 DEF Members, Exists
  <2>3. CASE ~Exists(g) /\ groups' = [groups EXCEPT ![g] = {}] /\ MAGGroupName(ns, a) = g
    <3>1. groups'[g] = {} /\ Members(g) = {}
      BY <1>2, <2>3 DEF TypeOK, Members
    <3> QED BY <2>1, <2>3, <3>1 DEF Members, Exists
  <2>4. CASE groups' = [groups EXCEPT ![g] = {}] /\ MAGGroupName(ns, a) # g
    <3>1. groups'[MAGGroupName(ns, a)] = groups[MAGGroupName(ns, a)]
      BY <1>2, <2>1, <2>4 DEF TypeOK
    <3> QED BY <2>1, <3>1 DEF Members, Exists
  <2> QED BY <1>1, <2>2, <2>3, <2>4
<1> QED BY <1>1, <1>3 DEF MembersSame, testcase

\* A step that leaves the groups, the logins and the marks alone.
LEMMA CalmFrame ==
  ASSUME IInv, CalmLogins, MembersSame, UNCHANGED <<login, kubeconfigs>>, dirty \subseteq dirty',
         pc = "login" => pc' = "login" /\ step' = step
  PROVE  CalmLogins'
<1> SUFFICES ASSUME NEW u \in kubeconfigs, u \notin dirty', ~(pc' = "login" /\ u = Cur'.user)
             PROVE  Agree(login[u], u)'
  BY DEF CalmLogins
<1>1. step' = step => Cur' = Cur
  BY DEF Cur, MembersSame
<1>2. u \in kubeconfigs \ dirty /\ ~(pc = "login" /\ u = Cur.user)
  BY <1>1
<1>3. Agree(login[u], u)
  BY <1>2 DEF CalmLogins
<1> QED BY <1>3 DEF Agree, MembersSame, MAGGroupName

LEMMA SameMembers == ASSUME UNCHANGED <<testcase, groups>> PROVE MembersSame
BY DEF MembersSame, Members, Exists, MAGGroupName, testcase

\* A troubled test case stays troubled, and nothing heals a sync.Once.
LEMMA CalmBefore ==
  ASSUME IInv, Next, ~NextCase, Calm' PROVE Calm
<1> USE DEF Calm, Poisoned
<1>1. trouble' = FALSE => trouble = FALSE
  BY DEF Next, Test, Spec1, Acting, Ending, Fine, Fault, StartSpec, ReadGroup, NewGroup,
         PatchGroup, CreateApprovalPipelineRun, UseImpersonation, ImpersonationKubeconfig,
         CachedKubeconfig, NewKubeconfig, EnsureMAGAPIServer, Login, Perform, WaitForTask,
         DeleteGroups, CleanupUserKubeconfigs, Expire, OtherTest, Done, vars
<1>2. server = "empty" => server' = "empty"
  BY DEF Next, Test, Spec1, Acting, Ending, StartSpec, ReadGroup, NewGroup,
         PatchGroup, CreateApprovalPipelineRun, UseImpersonation, ImpersonationKubeconfig,
         CachedKubeconfig, NewKubeconfig, EnsureMAGAPIServer, Login, Perform, WaitForTask,
         DeleteGroups, CleanupUserKubeconfigs, Expire, OtherTest, Done, vars, cache
<1>3. hosted' = hosted /\ (mode = "login" => mode' = "login")
  BY DEF Next, Test, Spec1, Acting, Ending, StartSpec, ReadGroup, NewGroup,
         PatchGroup, CreateApprovalPipelineRun, UseImpersonation, ImpersonationKubeconfig,
         CachedKubeconfig, NewKubeconfig, EnsureMAGAPIServer, Login, Perform, WaitForTask,
         DeleteGroups, CleanupUserKubeconfigs, Expire, OtherTest, Done, vars, cache
<1>4. trouble \in BOOLEAN
  BY DEF IInv, TypeOK
<1> QED BY <1>1, <1>2, <1>3, <1>4

\* Only those who log in are about to log in.
LEMMA LoginMode ==
  ASSUME IInv, CalmInv, Next, pc' = "login" PROVE mode' = "login"
<1>1. pc = "login" => mode = "login"
  BY DEF CalmInv
<1> QED BY <1>1 DEF Next, Test, Spec1, Acting, Ending, Goto, Pass, Fail, Result, At,
         StartSpec, ReadGroup, NewGroup,
         PatchGroup, CreateApprovalPipelineRun, UseImpersonation, ImpersonationKubeconfig,
         CachedKubeconfig, NewKubeconfig, EnsureMAGAPIServer, Login, Perform, WaitForTask,
         DeleteGroups, NextCase, CleanupUserKubeconfigs, Expire, OtherTest, Done, vars, cache

LEMMA CalmEnsure ==
  ASSUME IInv, CalmRest, Calm', ReadGroup \/ NewGroup \/ PatchGroup PROVE CalmRest'
<1> USE DEF Goto, Fine, Fault, Calm, IInv
<1>1. CASE ReadGroup
  <2>1. /\ pc = "step" /\ pc' = "new" /\ old'.users = Members(MAGGroupName(ns, Cur.alias))
        /\ UNCHANGED <<testcase, groups, kubeconfigs, login, dirty, step>>
    BY <1>1 DEF ReadGroup, At, cache, cluster
  <2>2. CalmLogins'
    BY <2>1, SameMembers, CalmFrame DEF CalmRest, Active
  <2>3. Members(MAGGroupName(ns, Cur.alias))' = Members(MAGGroupName(ns, Cur.alias))
    BY <2>1 DEF Members, Exists, MAGGroupName, Cur, testcase
  <2> QED BY <2>1, <2>2, <2>3 DEF CalmRest
<1>2. CASE NewGroup
  <2> DEFINE g == MAGGroupName(ns, Cur.alias)
  <2>1. /\ pc = "new" /\ pc' = "patch"
        /\ UNCHANGED <<testcase, old, kubeconfigs, login, dirty, step>>
        /\ groups' = IF Exists(g) THEN groups ELSE [groups EXCEPT ![g] = {}]
    BY <1>2 DEF NewGroup, cache
  <2>2. Cur.alias \in Aliases /\ g \in GroupNames /\ ns \in Namespaces /\ Cur' = Cur
    BY <2>1, SpecFacts, OwnGroups DEF PlaceInv, Cur, testcase
  <2>3. MembersSame
    BY <1>2, NewGroupMembers
  <2>4. CalmLogins'
    BY <2>1, <2>3, CalmFrame DEF CalmRest, Active
  <2>5. Members(MAGGroupName(ns, Cur.alias))' = Members(g)
    BY <2>1, <2>2, <2>3 DEF MembersSame, testcase, Members, Exists, MAGGroupName
  <2> QED BY <2>1, <2>4, <2>5 DEF CalmRest
<1>3. CASE PatchGroup
  <2> DEFINE g == MAGGroupName(ns, Cur.alias)
  <2>1. /\ pc = "patch" /\ pc' = "spec"
        /\ UNCHANGED <<testcase, kubeconfigs, login>>
        /\ groups' = [groups EXCEPT ![g] = Cur.users]
        /\ dirty' = dirty \cup ToMark(Cur.users)
    BY <1>3 DEF PatchGroup, Pass
  <2>2. Cur.alias \in Aliases /\ Cur.users \subseteq Users /\ g \in GroupNames
    BY <2>1, SpecFacts, OwnGroups DEF PlaceInv
  <2>3. groups'[g] = Cur.users /\ Cur.users # Absent
    BY <2>1, <2>2, SetsOfUsers DEF TypeOK
  <2>4. Members(g) \subseteq old.users /\ (old.exists => Members(g) = old.users)
    BY <2>1 DEF CalmRest, OldInv
  <2>5. ASSUME NEW u \in kubeconfigs, u \notin dirty'
        PROVE  Agree(login[u], u)'
    <3>1. Agree(login[u], u) /\ u \notin ToMark(Cur.users)
      BY <2>1, <2>5 DEF CalmRest, CalmLogins, Active
    <3>2. u \in Members(g) <=> u \in Cur.users
      BY <2>4, <3>1 DEF ToMark
    <3>3. ASSUME NEW a \in Aliases
          PROVE  MAGGroupName(ns, a) \in login[u] <=>
                 u \in IF groups'[MAGGroupName(ns, a)] # Absent THEN groups'[MAGGroupName(ns, a)] ELSE {}
      <4>1. MAGGroupName(ns, a) \in GroupNames
        BY OwnGroups
      <4>2. CASE MAGGroupName(ns, a) = g
        <5>1. g \in login[u] <=> u \in Members(g)
          BY <2>2, <3>1 DEF Agree
        <5> QED BY <2>3, <3>2, <4>2, <5>1
      <4>3. CASE MAGGroupName(ns, a) # g
        <5>1. groups'[MAGGroupName(ns, a)] = groups[MAGGroupName(ns, a)]
          BY <2>1, <4>1, <4>3 DEF TypeOK
        <5> QED BY <3>1, <5>1 DEF Agree, Members, Exists
      <4> QED BY <4>2, <4>3
    <3> QED BY <2>1, <3>3 DEF Agree, Members, Exists, MAGGroupName, testcase
  <2> QED BY <2>1, <2>5 DEF CalmRest, CalmLogins
<1> QED BY <1>1, <1>2, <1>3

LEMMA CalmAct ==
  ASSUME IInv, CalmInv, CalmRest, Calm',
         \/ UseImpersonation \/ ImpersonationKubeconfig \/ CachedKubeconfig \/ NewKubeconfig
         \/ EnsureMAGAPIServer \/ Login \/ Perform
  PROVE  CalmRest'
<1> USE DEF Goto, Fine, Fault, Calm, IInv, At, cache, cluster
<1>1. CASE UseImpersonation \/ NewKubeconfig \/ EnsureMAGAPIServer
  <2>1. /\ pc \in {"step", "login"} /\ pc' \in {"step", "login"}
        /\ UNCHANGED <<testcase, groups, kubeconfigs, login, dirty, step>>
        /\ pc = "login" => pc' = "login"
    BY <1>1 DEF UseImpersonation, NewKubeconfig, EnsureMAGAPIServer
  <2>2. CalmLogins'
    BY <2>1, SameMembers, CalmFrame DEF CalmRest, Active
  <2> QED BY <2>1, <2>2 DEF CalmRest
<1>2. CASE ImpersonationKubeconfig
  <2>1. /\ pc = "step" /\ pc' = "opc" /\ creds' = MemberOf(Cur.user)
        /\ UNCHANGED <<testcase, groups, kubeconfigs, login, dirty, step>>
    BY <1>2 DEF ImpersonationKubeconfig
  <2>2. CalmLogins'
    BY <2>1, SameMembers, CalmFrame DEF CalmRest, Active
  <2>3. Agree(MemberOf(Cur.user), Cur.user)
    BY AgreeMeans
  <2>4. Agree(creds, Cur.user)'
    BY <2>1, <2>3 DEF Agree, Members, Exists, MAGGroupName, Cur, testcase
  <2> QED BY <2>1, <2>2, <2>4 DEF CalmRest
<1>3. CASE CachedKubeconfig /\ Cur.user \in dirty
  <2>1. /\ pc = "step" /\ pc' = "login" /\ dirty' = dirty \ {Cur.user} /\ Cur' = Cur
        /\ UNCHANGED <<testcase, groups, kubeconfigs, login, step>>
    BY <1>3 DEF CachedKubeconfig, Cur, testcase
  <2>2. CalmLogins'
    <3> SUFFICES ASSUME NEW u \in kubeconfigs, u \notin dirty', u # Cur.user
                 PROVE  Agree(login[u], u)'
      BY <2>1 DEF CalmLogins
    <3>1. Agree(login[u], u)
      BY <2>1 DEF CalmRest, CalmLogins, Active
    <3> QED BY <2>1, <3>1 DEF Agree, Members, Exists, MAGGroupName, testcase
  <2> QED BY <2>1, <2>2 DEF CalmRest
<1>4. CASE CachedKubeconfig /\ Cur.user \notin dirty
  <2>1. /\ pc = "step" /\ pc' = "opc" /\ creds' = login[Cur.user] /\ Cur' = Cur
        /\ UNCHANGED <<testcase, groups, kubeconfigs, login, dirty, step>>
        /\ Cur.user \in kubeconfigs
    BY <1>4 DEF CachedKubeconfig, Cur, testcase
  <2>2. CalmLogins'
    BY <2>1, SameMembers, CalmFrame DEF CalmRest, Active
  <2>3. Agree(login[Cur.user], Cur.user)
    BY <1>4, <2>1 DEF CalmRest, CalmLogins, Active
  <2>4. Agree(creds, Cur.user)'
    BY <2>1, <2>3 DEF Agree, Members, Exists, MAGGroupName, testcase
  <2> QED BY <2>1, <2>2, <2>4 DEF CalmRest
<1>5. CASE Login
  <2>1. CanLogin
    BY <1>5 DEF Login, CanLogin, Poisoned, CalmInv, TypeOK
  <2>2. /\ pc = "login" /\ pc' = "opc" /\ creds' = MemberOf(Cur.user) /\ Cur' = Cur
        /\ login' = [login EXCEPT ![Cur.user] = MemberOf(Cur.user)]
        /\ kubeconfigs' = kubeconfigs \cup {Cur.user} /\ dirty' = dirty \ {Cur.user}
        /\ UNCHANGED <<testcase, groups, step>>
    BY <1>5, <2>1 DEF Login, Cur, testcase
  <2>3. Cur.user \in Users
    BY <2>2, SpecFacts DEF PlaceInv
  <2>4. Agree(MemberOf(Cur.user), Cur.user)
    BY AgreeMeans
  <2>5. ASSUME NEW u \in kubeconfigs', u \notin dirty'
        PROVE  Agree(login[u], u)'
    <3>1. u \in Users
      BY <2>2, <2>3, <2>5 DEF TypeOK
    <3>2. Agree(login'[u], u)
      <4>1. CASE u = Cur.user
        BY <2>2, <2>3, <2>4, <4>1 DEF TypeOK
      <4>2. CASE u # Cur.user
        <5>1. login'[u] = login[u] /\ u \in kubeconfigs \ dirty
          BY <2>2, <2>5, <3>1, <4>2 DEF TypeOK
        <5> QED BY <4>2, <5>1, <2>2 DEF CalmRest, CalmLogins, Active
      <4> QED BY <4>1, <4>2
    <3> QED BY <2>2, <3>2 DEF Agree, Members, Exists, MAGGroupName, testcase
  <2>6. Agree(creds, Cur.user)'
    BY <2>2, <2>4 DEF Agree, Members, Exists, MAGGroupName, testcase
  <2> QED BY <2>2, <2>5, <2>6 DEF CalmRest, CalmLogins
<1>6. CASE Perform
  <2>1. /\ pc = "opc" /\ pc' = "spec"
        /\ UNCHANGED <<testcase, groups, kubeconfigs, login, dirty>>
    BY <1>6 DEF Perform, Result, Pass, Fail
  <2>2. CalmLogins'
    BY <2>1, SameMembers, CalmFrame DEF CalmRest, Active
  <2> QED BY <2>1, <2>2 DEF CalmRest
<1> QED BY <1>1, <1>2, <1>3, <1>4, <1>5, <1>6

\* The other process has groups of its own.
LEMMA OtherGroups ==
  ASSUME TypeOK, OtherTest
  PROVE  \A a \in Aliases : groups'[MAGGroupName(ns, a)] = groups[MAGGroupName(ns, a)]
<1>1. PICK b \in Aliases, m \in {Absent, Users} :
        groups' = [groups EXCEPT ![MAGGroupName(Other, b)] = m]
  BY DEF OtherTest
<1>2. \A a \in Aliases : MAGGroupName(ns, a) \in GroupNames /\ MAGGroupName(ns, a) # MAGGroupName(Other, b)
  BY OwnGroups
<1> QED BY <1>1, <1>2 DEF TypeOK

\* The rest leaves the cache alone.
LEMMA CalmOther ==
  ASSUME IInv, CalmRest,
         StartSpec \/ CreateApprovalPipelineRun \/ WaitForTask \/ Expire \/ OtherTest \/ UNCHANGED vars
  PROVE  CalmRest'
<1> USE DEF Goto, IInv, At, cache, cluster
<1>1. CASE StartSpec \/ CreateApprovalPipelineRun \/ WaitForTask
  <2>1. /\ pc \in {"spec", "step"} /\ pc' \in {"spec", "step"}
        /\ UNCHANGED <<testcase, groups, kubeconfigs, login, dirty>>
    BY <1>1 DEF StartSpec, CreateApprovalPipelineRun, WaitForTask, Result, Pass, Fail
  <2>2. CalmLogins'
    BY <2>1, SameMembers, CalmFrame DEF CalmRest, Active
  <2> QED BY <2>1, <2>2 DEF CalmRest
<1>2. CASE Expire \/ OtherTest \/ UNCHANGED vars
  <2>1. UNCHANGED <<testcase, step, pc, old, kubeconfigs, login, dirty, creds>>
    BY <1>2 DEF Expire, OtherTest, vars
  <2>2. \A a \in Aliases : groups'[MAGGroupName(ns, a)] = groups[MAGGroupName(ns, a)]
    BY <1>2, OtherGroups DEF Expire, vars
  <2>3. MembersSame /\ Cur' = Cur
    BY <2>1, <2>2 DEF MembersSame, Members, Exists, MAGGroupName, testcase, Cur
  <2>4. pc \in Active => CalmLogins'
    BY <2>1, <2>3, CalmFrame DEF CalmRest
  <2>5. pc \in {"new", "patch"} => Cur.alias \in Aliases
    BY SpecFacts DEF PlaceInv
  <2>6. \A a \in Aliases : Members(MAGGroupName(ns, a))' = Members(MAGGroupName(ns, a))
    BY <2>3 DEF MembersSame
  <2>7. pc \in {"new", "patch"} => Members(MAGGroupName(ns, Cur.alias))' = Members(MAGGroupName(ns, Cur.alias))
    BY <2>1, <2>3, <2>5, <2>6 DEF Members, Exists, MAGGroupName, testcase
  <2>8. pc = "opc" => Agree(creds, Cur.user)'
    BY <2>1, <2>2, <2>3 DEF CalmRest, Agree, Members, Exists, MAGGroupName, testcase
  <2> QED BY <2>1, <2>4, <2>7, <2>8 DEF CalmRest
<1> QED BY <1>1, <1>2

\* A new test case has groups of its own, which no login names yet.
LEMMA CalmNextCase == ASSUME IInv, NextCase PROVE CalmRest'
<1> USE DEF IInv
<1>1. /\ pc' = "spec" /\ ns' = ns + 1 /\ UNCHANGED <<groups, login, kubeconfigs>> /\ ns < MaxCases
  BY DEF NextCase, cache
<1>2. ns' \in Namespaces /\ ns' > ns /\ kubeconfigs \subseteq Users
  BY <1>1, SpecFacts DEF Namespaces, TypeOK
<1>3. ASSUME NEW u \in kubeconfigs PROVE Agree(login[u], u)'
  <2>1. \A a \in Aliases : /\ groups[MAGGroupName(ns', a)] = Absent
                           /\ MAGGroupName(ns', a) \notin login[u]
    BY <1>2, <1>3 DEF NamesInv
  <2> QED BY <1>1, <2>1 DEF Agree, Members, Exists, MAGGroupName
<1> QED BY <1>1, <1>3 DEF CalmRest, CalmLogins

LEMMA CalmNext == ASSUME IInv, CalmInv, [Next]_vars PROVE CalmInv'
<1>1. CASE UNCHANGED vars
  <2>1. pc' = pc /\ mode' = mode /\ (Calm' => Calm)
    BY <1>1 DEF vars, cache, Calm, Poisoned
  <2> QED BY <1>1, <2>1, CalmOther DEF CalmInv
<1>2. CASE Next
  <2>1. pc' = "login" => mode' = "login"
    BY <1>2, LoginMode
  <2>2. ASSUME Calm', ~NextCase PROVE CalmRest'
    <3>1. CalmRest
      BY <1>2, <2>2, CalmBefore DEF CalmInv
    <3>2. CASE DeleteGroups \/ CleanupUserKubeconfigs
      BY <3>2 DEF DeleteGroups, CleanupUserKubeconfigs, Goto, CalmRest, Active
    <3>3. CASE Done
      BY <3>1, <3>3, CalmOther DEF Done
    <3> QED BY <1>2, <2>2, <3>1, <3>2, <3>3, CalmEnsure, CalmAct, CalmOther
            DEF Next, Test, Spec1, Acting, Ending
  <2> QED BY <2>1, <2>2, CalmNextCase DEF CalmInv
<1> QED BY <1>1, <1>2

\* Whoever opc acts as, its credentials name exactly the groups of this test case
\* the user is in, however old the login (manualapprovalgate.go:175-195, 675-703),
\* also for users whom failures of earlier test cases were about.
THEOREM CredentialsAlwaysFit == Spec => []CredentialsFit
<1>1. Init => CalmInv
  BY DEF Init, CalmInv, CalmRest, CalmLogins
<1>2. IInv /\ CalmInv /\ [Next]_vars => CalmInv'
  BY CalmNext
<1>3. IInv /\ CalmInv => CredentialsFit
  BY AgreeMeans DEF IInv, CredsInv, CalmInv, CalmRest, Calm, CredentialsFit
<1> QED BY <1>1, <1>2, <1>3, Invariant, PTL DEF Spec

-----------------------------------------------------------------------------
(* A test case in which no command fails runs its course: every spec finds *)
(* the task and the groups it would find if users acted with their groups  *)
(* and not with cached credentials, and passes.                            *)

\* Kubeconfigs that are cached are on disk, so is the one opc is about to use.
OnDisk ==
  /\ pc \in Active \cup {"end"} => kubeconfigs \subseteq files
  /\ pc = "opc" => HasFile(Cur.user)

\* Who approves is a user or a group of this test case.
ApproversInv == task.approvers \subseteq {Direct(u) : u \in Users} \cup Own

Here == [task |-> task, members |-> [a \in Aliases |-> Members(MAGGroupName(ns, a))]]
CourseInv ==
  Calm => /\ pc \in Active => passed = 1..(step - 1) /\ Here \in Course[case, ns][step]
          /\ pc = "end" => passed = DOMAIN case.specs

\* The inductive invariant of FailureStaysInCase, with IInv and CalmInv.
RunInv == OnDisk /\ ApproversInv /\ CourseInv

\* What a test case finds at its next spec is on its course, and so is what it
\* leaves behind.
LEMMA OnCourse ==
  ASSUME TypeOK, Here \in Course[case, ns][step]
  PROVE  /\ case.short /\ task.state = "pending" => Late(Here) \in Course[case, ns][step]
         /\ step <= Len(case.specs) => /\ Passes(ns, Cur, Here)
                                       /\ After(ns, Cur, Here) \in Course[case, ns][step + 1]
<1>1. case \in Cases /\ ns \in 1..MaxCases /\ step \in 1..(Len(case.specs) + 1)
  BY DEF TypeOK
<1>2. Here.task = task
  BY DEF Here
<1> HIDE DEF Here
<1> QED BY <1>1, <1>2, CourseAssumption DEF Cur

\* A step within a spec, which changes neither the task nor the groups.
LEMMA CourseKept ==
  ASSUME CourseInv, Calm, pc \in Active, pc' \in Active,
         MembersSame, UNCHANGED <<task, step, passed>>
  PROVE  CourseInv'
<1>1. Here' = Here
  BY DEF Here, MembersSame
<1>2. passed = 1..(step - 1) /\ Here \in Course[case, ns][step]
  BY DEF CourseInv
<1>3. UNCHANGED <<case, ns>>
  BY DEF MembersSame
<1>4. passed' = 1..(step' - 1) /\ Here' \in Course[case', ns'][step']
  BY <1>1, <1>2, <1>3
<1> QED BY <1>4 DEF CourseInv, Active

\* The end of a spec that passes.
LEMMA CourseStep ==
  ASSUME TypeOK, CourseInv, Calm, pc \in Active, step <= Len(case.specs),
         UNCHANGED testcase, Pass, Here' = After(ns, Cur, Here)
  PROVE  CourseInv'
<1>1. passed = 1..(step - 1) /\ Here \in Course[case, ns][step]
  BY DEF CourseInv
<1>2. After(ns, Cur, Here) \in Course[case, ns][step + 1]
  BY <1>1, OnCourse
<1>3. /\ passed' = passed \cup {step} /\ step' = step + 1 /\ pc' = "spec"
      /\ case' = case /\ ns' = ns /\ step \in Nat \ {0}
  BY SpecFacts DEF Pass, Goto, testcase
<1>4. passed' = 1..(step' - 1)
  <2>1. step' - 1 = step /\ (1..(step - 1)) \cup {step} = 1..step
    BY <1>3
  <2> QED BY <1>1, <1>3, <2>1
<1>5. Here' \in Course[case', ns'][step']
  BY <1>2, <1>3
<1> QED BY <1>3, <1>4, <1>5 DEF CourseInv

\* A spec that changes nothing passes.
LEMMA CoursePass ==
  ASSUME TypeOK, CourseInv, Calm, pc \in Active, step <= Len(case.specs),
         UNCHANGED <<testcase, groups>>, Pass, task' = After(ns, Cur, Here).task,
         Cur.op # "ensure"
  PROVE  CourseInv'
<1>1. Here' = [Here EXCEPT !.task = task']
  BY SameMembers DEF Here, MembersSame
<1>2. After(ns, Cur, Here) = [Here EXCEPT !.task = After(ns, Cur, Here).task]
  BY DEF After, Here
<1> QED BY <1>1, <1>2, CourseStep

\* In a calm test case every command works.
LEMMA NoFault == ASSUME Calm', Fine \/ Fault PROVE Fine
BY DEF Calm, Fault

LEMMA CourseEnsure ==
  ASSUME IInv, CourseInv, Calm, Calm', ReadGroup \/ NewGroup \/ PatchGroup
  PROVE  CourseInv'
<1> USE DEF IInv, Goto
<1>1. CASE ReadGroup
  <2>1. pc = "step" /\ pc' = "new" /\ UNCHANGED <<testcase, groups, task, step, passed>>
    BY <1>1 DEF ReadGroup, At, cluster
  <2> QED BY <2>1, SameMembers, CourseKept DEF Active
<1>2. CASE NewGroup
  <2>1. pc = "new" /\ pc' = "patch" /\ UNCHANGED <<task, step, passed>>
    BY <1>2 DEF NewGroup, Fault, Calm
  <2> QED BY <1>2, <2>1, NewGroupMembers, CourseKept DEF Active
<1>3. CASE PatchGroup
  <2> DEFINE g == MAGGroupName(ns, Cur.alias)
             m == [a \in Aliases |-> Members(MAGGroupName(ns, a))]
  <2>1. /\ pc = "patch" /\ Pass /\ UNCHANGED <<testcase, task>>
        /\ groups' = [groups EXCEPT ![g] = Cur.users]
    BY <1>3 DEF PatchGroup, Fault, Calm
  <2>2. /\ step <= Len(case.specs) /\ Cur.op = "ensure"
        /\ Cur.alias \in Aliases /\ Cur.users \subseteq Users /\ g \in GroupNames
    BY <2>1, SpecFacts, OwnGroups DEF PlaceInv
  <2>3. [a \in Aliases |-> Members(MAGGroupName(ns, a))]' = [m EXCEPT ![Cur.alias] = Cur.users]
    <3> SUFFICES ASSUME NEW a \in Aliases
                 PROVE  Members(MAGGroupName(ns, a))' = [m EXCEPT ![Cur.alias] = Cur.users][a]
      OBVIOUS
    <3>1. MAGGroupName(ns, a) \in GroupNames /\ MAGGroupName(ns, a)' = MAGGroupName(ns, a)
      BY <2>1, OwnGroups DEF testcase, MAGGroupName
    <3>2. CASE a = Cur.alias
      <4>1. groups'[g] = Cur.users /\ Cur.users # Absent
        BY <2>1, <2>2, SetsOfUsers DEF TypeOK
      <4> QED BY <2>2, <3>1, <3>2, <4>1 DEF Members, Exists
    <3>3. CASE a # Cur.alias
      <4>1. MAGGroupName(ns, a) # g
        BY <3>3, OwnGroups
      <4>2. groups'[MAGGroupName(ns, a)] = groups[MAGGroupName(ns, a)]
        BY <2>1, <3>1, <4>1 DEF TypeOK
      <4> QED BY <3>1, <3>3, <4>2 DEF Members, Exists
    <3> QED BY <3>2, <3>3
  <2>4. Here' = After(ns, Cur, Here)
    BY <2>1, <2>2, <2>3 DEF Here, After
  <2> QED BY <2>1, <2>2, <2>4, CourseStep DEF Active
<1> QED BY <1>1, <1>2, <1>3

\* Credentials that agree with the groups answer for the same approvers.
LEMMA TrueCredentials ==
  ASSUME TypeOK, ApproversInv, Agree(creds, Cur.user)
  PROVE  Ways(task, Cur.user, creds) = TrueWays(ns, Cur, Here)
<1>1. \A a \in Aliases : Here.members[a] = Members(MAGGroupName(ns, a))
  BY DEF Here
<1>2. Here.task = task
  BY DEF Here
<1>3. ASSUME NEW w \in task.approvers
      PROVE  w \in {Direct(Cur.user)} \cup creds
             <=> w \in {Direct(Cur.user)} \cup GroupsOf(ns, Here, Cur.user)
  <2>1. CASE w \in Own
    <3>1. PICK a \in Aliases : w = MAGGroupName(ns, a)
      BY <2>1 DEF Own
    <3>2. w \in creds <=> Cur.user \in Here.members[a]
      BY <1>1, <3>1 DEF Agree
    <3>3. w \in GroupsOf(ns, Here, Cur.user) <=> Cur.user \in Here.members[a]
      BY <3>1, OwnGroups DEF GroupsOf
    <3> QED BY <3>2, <3>3
  <2>2. CASE \E u \in Users : w = Direct(u)
    <3>1. MaxCases + 1 \notin Namespaces
      BY MagBoundsAssumption DEF Namespaces
    <3>2. w \notin GroupNames /\ ns \in Namespaces
      BY <2>2, <3>1, OwnGroups DEF Direct, GroupNames
    <3>3. w \notin creds
      BY <3>2 DEF TypeOK
    <3>4. w \notin GroupsOf(ns, Here, Cur.user)
      BY <3>2, OwnGroups DEF GroupsOf
    <3> QED BY <3>3, <3>4
  <2> QED BY <2>1, <2>2 DEF ApproversInv
<1> QED BY <1>2, <1>3 DEF Ways, TrueWays

\* opc does for the user what the user may do.
LEMMA CoursePerform ==
  ASSUME IInv, CalmRest, RunInv, Calm, Calm', Perform
  PROVE  CourseInv'
<1> USE DEF IInv, RunInv
<1> DEFINE ways == Ways(task, Cur.user, creds)
           may  == Allowed(task, ways)
<1>1. pc = "opc" /\ step <= Len(case.specs) /\ Cur.op = "act"
  BY DEF Perform, PlaceInv
<1>2. ways = TrueWays(ns, Cur, Here) /\ Here.task = task
  BY <1>1, TrueCredentials DEF CalmRest, Here
<1>3. /\ UNCHANGED <<testcase, groups>>
      /\ task' = IF may THEN Respond(task, Cur, ways) ELSE task
      /\ Result(Succeeds(task, Cur, may))
  <2>1. HasFile(Cur.user) /\ ~Fault
    BY <1>1 DEF OnDisk, Fault, Calm
  <2>2. /\ UNCHANGED <<testcase, groups>>
        /\ task' = IF HasFile(Cur.user) /\ may THEN Respond(task, Cur, ways) ELSE task
        /\ Result(Succeeds(task, Cur, HasFile(Cur.user) /\ may))
    BY <2>1 DEF Perform
  <2>3. Succeeds(task, Cur, HasFile(Cur.user) /\ may) <=> Succeeds(task, Cur, may)
    BY <2>1 DEF Succeeds
  <2> QED BY <2>1, <2>2, <2>3 DEF Result
<1>4. Passes(ns, Cur, Here)
  BY <1>1, OnCourse DEF CourseInv, Active
<1>5. Succeeds(task, Cur, may)
  BY <1>1, <1>2, <1>4 DEF Passes
<1>6. task' = After(ns, Cur, Here).task
  BY <1>1, <1>2, <1>3 DEF After, Here
<1> QED BY <1>1, <1>3, <1>5, <1>6, CoursePass DEF Result, Active

\* The calls that lead up to opc.
LEMMA CourseAct ==
  ASSUME IInv, CalmInv, RunInv, Calm, Calm',
         \/ UseImpersonation \/ ImpersonationKubeconfig \/ CachedKubeconfig \/ NewKubeconfig
         \/ EnsureMAGAPIServer \/ Login \/ Perform
  PROVE  CourseInv'
<1> USE DEF IInv, RunInv
<1>1. CASE Perform
  BY <1>1, CoursePerform DEF CalmInv
<1>2. ASSUME ~Perform
      PROVE  /\ pc \in Active /\ pc' \in Active
             /\ UNCHANGED <<testcase, groups, task, step, passed>>
  <2> USE DEF Goto, Fault, Calm, At, cache, cluster, Active
  <2>1. CASE UseImpersonation \/ NewKubeconfig
    BY <2>1 DEF UseImpersonation, NewKubeconfig
  <2>2. CASE ImpersonationKubeconfig
    BY <2>2 DEF ImpersonationKubeconfig
  <2>3. CASE CachedKubeconfig
    BY <2>3 DEF CachedKubeconfig
  <2>4. CASE EnsureMAGAPIServer
    BY <2>4 DEF EnsureMAGAPIServer
  <2>5. CASE Login
    <3>1. CanLogin
      BY <2>5 DEF Login, CanLogin, Poisoned, CalmInv, TypeOK
    <3> QED BY <2>5, <3>1 DEF Login
  <2> QED BY <1>2, <2>1, <2>2, <2>3, <2>4, <2>5
<1>3. CASE ~Perform
  BY <1>2, <1>3, SameMembers, CourseKept
<1> QED BY <1>1, <1>3

\* The approval task and the wait for it.
LEMMA CourseTask ==
  ASSUME IInv, RunInv, Calm, Calm',
         StartSpec \/ CreateApprovalPipelineRun \/ WaitForTask \/ Expire
  PROVE  CourseInv'
<1> USE DEF IInv, RunInv, Goto, Fault, Calm, At, cluster
<1>1. CASE StartSpec
  <2>1. /\ pc = "spec" /\ pc' = "step" /\ UNCHANGED <<testcase, groups, task, step, passed>>
    BY <1>1 DEF StartSpec
  <2> QED BY <2>1, SameMembers, CourseKept DEF Active
<1>2. CASE CreateApprovalPipelineRun
  <2>1. /\ pc = "step" /\ step <= Len(case.specs) /\ Cur.op = "create"
        /\ Pass /\ task' = NewTask(ns, Cur) /\ UNCHANGED <<testcase, groups>>
    BY <1>2 DEF CreateApprovalPipelineRun, PlaceInv
  <2>2. task' = After(ns, Cur, Here).task
    BY <2>1 DEF After, Here
  <2> QED BY <2>1, <2>2, CoursePass DEF Active
<1>3. CASE WaitForTask
  <2>1. /\ pc = "step" /\ step <= Len(case.specs) /\ Cur.op \in {"state", "counts", "run"}
        /\ Result(AsWanted(task, Cur)) /\ UNCHANGED <<testcase, groups, task>>
    BY <1>3 DEF WaitForTask, PlaceInv
  <2>2. Passes(ns, Cur, Here)
    BY <2>1, OnCourse DEF CourseInv, Active
  <2>3. AsWanted(task, Cur)
    BY <2>1, <2>2 DEF Passes, Here
  <2>4. task' = After(ns, Cur, Here).task
    BY <2>1 DEF After, Here
  <2> QED BY <2>1, <2>3, <2>4, CoursePass DEF Result, Active
<1>4. CASE Expire
  <2>1. /\ case.short /\ task.state = "pending" /\ task' = [task EXCEPT !.state = "rejected"]
        /\ UNCHANGED <<testcase, step, pc, passed, groups>>
    BY <1>4 DEF Expire
  <2>2. Here' = Late(Here)
    <3>1. Here' = [task |-> task', members |-> Here.members]
      BY <2>1, SameMembers DEF Here, MembersSame
    <3>2. Here = [task |-> task, members |-> Here.members]
      BY DEF Here
    <3>3. Late(Here) = [task |-> [task EXCEPT !.state = "rejected"], members |-> Here.members]
      BY <3>2 DEF Late
    <3> QED BY <2>1, <3>1, <3>3
  <2>3. pc \in Active => Here' \in Course[case, ns][step]
    BY <2>1, <2>2, OnCourse DEF CourseInv
  <2> QED BY <2>1, <2>3 DEF CourseInv, testcase
<1> QED BY <1>1, <1>2, <1>3, <1>4

\* A test case begins on its course and ends with every spec passed.
LEMMA CourseEnds ==
  ASSUME IInv, RunInv, DeleteGroups \/ NextCase \/ CleanupUserKubeconfigs,
         Calm', ~NextCase => Calm
  PROVE  CourseInv'
<1> USE DEF IInv, RunInv, Goto
<1>1. CASE DeleteGroups
  <2>1. pc = "spec" /\ step > Len(case.specs) /\ pc' = "end" /\ UNCHANGED <<testcase, passed>>
    BY <1>1 DEF DeleteGroups
  <2>2. Calm
    BY <2>1 DEF NextCase, Calm
  <2>3. passed = 1..(step - 1)
    BY <2>1, <2>2 DEF CourseInv, Active
  <2>4. step - 1 = Len(case.specs) /\ DOMAIN case.specs = 1..Len(case.specs)
    BY <2>1, SpecFacts
  <2> QED BY <2>1, <2>3, <2>4 DEF CourseInv, Active, testcase
<1>2. CASE NextCase
  <2>1. /\ pc = "end" /\ pc' = "spec" /\ case' \in Cases /\ ns' = ns + 1 /\ ns < MaxCases
        /\ step' = 1 /\ passed' = {} /\ task' = NoTask /\ groups' = groups
    BY <1>2 DEF NextCase
  <2>2. ns' \in 1..MaxCases /\ ns' \in Namespaces /\ ns' > ns
    BY <2>1, SpecFacts DEF Namespaces
  <2>3. \A a \in Aliases : Members(MAGGroupName(ns, a))' = {}
    BY <2>1, <2>2 DEF NamesInv, Members, Exists, MAGGroupName
  <2>4. Here' = Begin
    BY <2>1, <2>3 DEF Here, Begin
  <2>5. Here' \in Course[case', ns'][1]
    BY <2>1, <2>2, <2>4, CourseAssumption
  <2>6. passed' = 1..(step' - 1)
    BY <2>1
  <2> QED BY <2>1, <2>5, <2>6 DEF CourseInv
<1>3. CASE CleanupUserKubeconfigs
  BY <1>3 DEF CleanupUserKubeconfigs, CourseInv, Active
<1> QED BY <1>1, <1>2, <1>3

LEMMA CourseOther ==
  ASSUME IInv, RunInv, Calm, OtherTest \/ UNCHANGED vars
  PROVE  CourseInv'
<1>1. UNCHANGED <<testcase, step, pc, passed, task>>
  BY DEF OtherTest, vars, cluster
<1>2. \A a \in Aliases : groups'[MAGGroupName(ns, a)] = groups[MAGGroupName(ns, a)]
  BY OtherGroups DEF IInv, vars, cluster
<1>3. MembersSame
  BY <1>1, <1>2 DEF MembersSame, Members, Exists, MAGGroupName, testcase
<1>4. CASE pc \in Active
  BY <1>1, <1>3, <1>4, CourseKept DEF RunInv
<1>5. CASE pc \notin Active
  BY <1>1, <1>5 DEF RunInv, CourseInv, testcase
<1> QED BY <1>4, <1>5

\* Kubeconfigs stay on disk until the suite ends.
LEMMA OnDiskNext == ASSUME IInv, CalmInv, OnDisk, [Next]_vars PROVE OnDisk'
<1> USE DEF IInv, OnDisk, HasFile, Goto
<1>1. "impersonate" \notin kubeconfigs
  BY UsersAssumption DEF TypeOK
<1>2. CASE Perform
  <2>1. pc = "opc" /\ pc' = "spec" /\ files' = files \ {"impersonate"} /\ kubeconfigs' = kubeconfigs
    BY <1>2 DEF Perform, RemoveTemporary, Result, Pass, Fail, cache
  <2> QED BY <1>1, <2>1 DEF Active
<1>3. CASE ImpersonationKubeconfig
  <2>1. /\ pc = "step" /\ UNCHANGED <<kubeconfigs, mode>> /\ mode = "impersonate"
        /\ \/ pc' = "opc" /\ files' = files \cup {"impersonate"}
           \/ pc' = "spec" /\ files' = files
    BY <1>3 DEF ImpersonationKubeconfig, At, Fail, cache
  <2> QED BY <2>1 DEF Active
<1>4. CASE CachedKubeconfig
  <2>1. /\ pc = "step" /\ pc' \in {"login", "opc"} /\ UNCHANGED <<kubeconfigs, files, mode>>
        /\ mode = "login" /\ Cur.user \in kubeconfigs /\ Cur' = Cur
    BY <1>4 DEF CachedKubeconfig, At, testcase, Cur
  <2> QED BY <2>1 DEF Active
<1>5. CASE Login
  <2>1. /\ pc = "login" /\ mode = "login" /\ mode' = mode
        /\ \/ /\ pc' = "opc" /\ kubeconfigs' = kubeconfigs \cup {Cur.user}
              /\ files' = files \cup {Cur.user} /\ Cur' = Cur
           \/ pc' = "spec" /\ UNCHANGED <<kubeconfigs, files>>
    BY <1>5 DEF Login, Fail, CalmInv, testcase, Cur
  <2> QED BY <2>1 DEF Active
<1>6. CASE \/ StartSpec \/ ReadGroup \/ NewGroup \/ PatchGroup \/ CreateApprovalPipelineRun
           \/ UseImpersonation \/ NewKubeconfig \/ EnsureMAGAPIServer
           \/ WaitForTask \/ DeleteGroups \/ NextCase
  <2>1. /\ pc \in Active \cup {"end"} /\ pc' # "opc" /\ UNCHANGED <<kubeconfigs, files>>
    BY <1>6 DEF StartSpec, ReadGroup, NewGroup, PatchGroup, CreateApprovalPipelineRun,
         UseImpersonation, NewKubeconfig, EnsureMAGAPIServer, WaitForTask, DeleteGroups,
         NextCase, Result, Pass, Fail, At, cache, Active
  <2> QED BY <2>1
<1>7. CASE CleanupUserKubeconfigs
  BY <1>7 DEF CleanupUserKubeconfigs, Active
<1>8. CASE Expire \/ OtherTest \/ Done \/ UNCHANGED vars
  <2>1. UNCHANGED <<case, step, pc, kubeconfigs, files, mode>>
    BY <1>8 DEF Expire, OtherTest, Done, vars, cache, testcase
  <2> QED BY <2>1 DEF Cur
<1> QED BY <1>2, <1>3, <1>4, <1>5, <1>6, <1>7, <1>8 DEF Next, Test, Spec1, Acting, Ending

\* Only CreateApprovalPipelineRun names approvers.
LEMMA ApproversNext == ASSUME IInv, ApproversInv, [Next]_vars PROVE ApproversInv'
<1> USE DEF IInv
<1>1. CASE CreateApprovalPipelineRun
  <2>1. /\ ns' = ns /\ step <= Len(case.specs) /\ Cur.op = "create"
        /\ task' = NewTask(ns, Cur) \/ task' = task
    BY <1>1 DEF CreateApprovalPipelineRun, At, PlaceInv, testcase
  <2>2. Cur.aliases \subseteq Aliases /\ Cur.users \subseteq Users
    BY <2>1, CasesAssumption, SpecFacts DEF Cur, TypeOK
  <2>3. NewTask(ns, Cur).approvers \subseteq {Direct(u) : u \in Users} \cup Own
    BY <2>2 DEF NewTask, Own
  <2> QED BY <2>1, <2>3 DEF ApproversInv, Own, MAGGroupName, Direct
<1>2. CASE NextCase
  BY <1>2 DEF NextCase, ApproversInv, NoTask
<1>3. CASE Perform
  <2>1. ns' = ns /\ (task' = task \/ \E ways : task' = Respond(task, Cur, ways))
    BY <1>3 DEF Perform, testcase
  <2>2. \A ways : Respond(task, Cur, ways).approvers = task.approvers
    BY DEF Respond
  <2>3. task'.approvers = task.approvers
    BY <2>1, <2>2
  <2> QED BY <2>1, <2>3 DEF ApproversInv, Own, MAGGroupName, Direct
<1>4. CASE Expire
  <2>1. ns' = ns /\ task'.approvers = task.approvers
    BY <1>4 DEF Expire, testcase
  <2> QED BY <2>1 DEF ApproversInv, Own, MAGGroupName, Direct
<1>5. CASE ~(CreateApprovalPipelineRun \/ NextCase \/ Perform \/ Expire)
  <2>1. ns' = ns /\ task' = task
    BY <1>5 DEF Next, Test, Spec1, Acting, Ending, StartSpec, ReadGroup, NewGroup,
         PatchGroup, UseImpersonation, ImpersonationKubeconfig, CachedKubeconfig, NewKubeconfig,
         EnsureMAGAPIServer, Login, WaitForTask, DeleteGroups, CleanupUserKubeconfigs,
         OtherTest, Done, vars, cluster, testcase
  <2> QED BY <2>1 DEF ApproversInv, Own, MAGGroupName, Direct
<1> QED BY <1>1, <1>2, <1>3, <1>4, <1>5

LEMMA RunNext == ASSUME IInv, CalmInv, RunInv, [Next]_vars PROVE RunInv'
<1>1. OnDisk' /\ ApproversInv'
  BY OnDiskNext, ApproversNext DEF RunInv
<1>2. CASE UNCHANGED vars
  <2>1. Calm' => Calm
    BY <1>2 DEF vars, cache, Calm, Poisoned
  <2>2. Calm => CourseInv'
    BY <1>2, CourseOther
  <2> QED BY <1>1, <2>1, <2>2 DEF RunInv, CourseInv
<1>3. CASE Next
  <2>1. Calm' /\ ~NextCase => Calm
    BY <1>3, CalmBefore
  <2>2. ASSUME Calm' PROVE CourseInv'
    <3>1. CASE DeleteGroups \/ NextCase \/ CleanupUserKubeconfigs
      BY <2>1, <2>2, <3>1, CourseEnds
    <3>2. CASE ~(DeleteGroups \/ NextCase \/ CleanupUserKubeconfigs)
      <4>1. Calm /\ CourseInv
        BY <2>1, <2>2, <3>2 DEF RunInv
      <4>2. CASE Done
        BY <4>1, <4>2, CourseOther DEF Done
      <4> QED BY <1>3, <2>2, <3>2, <4>1, <4>2, CourseEnsure, CourseAct, CourseTask, CourseOther
              DEF Next, Test, Spec1, Acting, Ending
    <3> QED BY <3>1, <3>2
  <2> QED BY <1>1, <2>2 DEF RunInv, CourseInv
<1> QED BY <1>2, <1>3

LEMMA RunInit == ASSUME Init PROVE RunInv
<1> USE DEF Init
<1>1. OnDisk /\ ApproversInv
  BY DEF OnDisk, ApproversInv, NoTask
<1>2. ns = 1 /\ 1 \in 1..MaxCases /\ 1 \in Namespaces /\ case \in Cases
  BY MagBoundsAssumption DEF Namespaces
<1>3. \A a \in Aliases : Members(MAGGroupName(ns, a)) = {}
  BY <1>2 DEF Members, Exists, MAGGroupName, GroupNames
<1>4. Here = Begin
  BY <1>3 DEF Here, Begin
<1>5. Here \in Course[case, ns][1]
  BY <1>2, <1>4, CourseAssumption
<1>6. passed = 1..(step - 1)
  OBVIOUS
<1> QED BY <1>1, <1>5, <1>6 DEF RunInv, CourseInv

\* A test case in which no command fails passes, whatever the failures of earlier
\* test cases left in the cluster, the marks and the cached kubeconfigs, unless a
\* sync.Once has kept one (manualapprovalgate.go:587, 663): it runs the course of
\* a test case without caches.
THEOREM FailuresStayInCase == Spec => []FailureStaysInCase
<1>1. Init => CalmInv
  BY DEF Init, CalmInv, CalmRest, CalmLogins
<1>2. Init => RunInv
  BY RunInit
<1>3. IInv /\ CalmInv /\ [Next]_vars => CalmInv'
  BY CalmNext
<1>4. IInv /\ CalmInv /\ RunInv /\ [Next]_vars => RunInv'
  BY RunNext
<1>5. RunInv => FailureStaysInCase
  BY DEF RunInv, CourseInv, Calm, FailureStaysInCase
<1> QED BY <1>1, <1>2, <1>3, <1>4, <1>5, Invariant, PTL DEF Spec

=============================================================================
