---------------------------- MODULE ApprovalGate ----------------------------
(***************************************************************************)
(* The helpers of the Manual Approval Gate suite                           *)
(* (src/pkg/manualapprovalgate/manualapprovalgate.go) in one Ginkgo        *)
(* process: groups of test users, the credentials opc acts with as one of  *)
(* the users, and the specs of the test cases that use them.  The process  *)
(* caches one kubeconfig per user and logs in again only when the user is  *)
(* marked dirty.  Each test case has a namespace of its own                *)
(* (hooks.AutoNamespacePerDescribe) and specs that go on after a failure.  *)
(*                                                                         *)
(* External: the cluster's Groups and logins (a login carries the groups   *)
(* its user has at that moment), the approval gate, and another process    *)
(* running a test case with the same aliases.                              *)
(***************************************************************************)
EXTENDS Naturals, Sequences, FiniteSets

CONSTANTS Users, Aliases,  \* test users; aliases of groups
          Cases,           \* test cases: records of specs and of short
          MaxCases,        \* test cases the process runs
          MaxFaults        \* commands that fail, in the whole run

ASSUME MagBoundsAssumption == MaxCases \in Nat \ {0} /\ MaxFaults \in Nat
\* "absent" and "impersonate" mark a missing group and the temporary kubeconfig.
ASSUME UsersAssumption == Users \cap {"absent", "impersonate"} = {}
\* The specs name the groups and users of the suite.
ASSUME CasesAssumption ==
  \A c \in Cases :
    /\ DOMAIN c.specs = 1..Len(c.specs) /\ Len(c.specs) \in Nat
    /\ \A i \in DOMAIN c.specs :
         LET s == c.specs[i]
         IN /\ s.op \in {"ensure", "create", "act", "state", "counts", "run"}
            /\ s.op = "ensure" => s.alias \in Aliases /\ s.users \subseteq Users
            /\ s.op = "create" => s.aliases \subseteq Aliases /\ s.users \subseteq Users
            /\ s.op = "act" => s.user \in Users

Absent == {"absent"}              \* no such Group
Other  == 0                       \* the namespace of the other process
Namespaces == 0..MaxCases

VARIABLES
  case, ns, step, pc, faults,     \* the running test case
  passed, trouble,                \* its specs that passed; a command failed in it
  groups, old,                    \* the cluster's Groups; EnsureGroupMembers' reading
  dirty, kubeconfigs, login,      \* magUserAuthDirty, magUserKubeconfigs, their groups
  server, mode, hosted,           \* the sync.Once results; the kind of cluster
  creds, files,                   \* what opc acts with; kubeconfigs on disk
  task,                           \* the approval task of the test case
  stale                           \* history: users whose marking or login was lost

testcase == <<case, ns>>
cluster  == <<groups, task>>
cache    == <<dirty, kubeconfigs, login, server, mode>>
vars == <<testcase, step, pc, faults, passed, trouble, cluster, old, cache, hosted, creds,
          files, stale>>

\* MAGGroupName: the alias, made safe, behind the namespace.
MAGGroupName(n, a) == <<n, a>>
GroupNames == Namespaces \X Aliases
Direct(u)  == <<MaxCases + 1, u>>   \* an approver that is a user

Exists(g)   == groups[g] # Absent
Members(g)  == IF Exists(g) THEN groups[g] ELSE {}
MemberOf(u) == {g \in GroupNames : u \in Members(g)}
Own         == {MAGGroupName(ns, a) : a \in Aliases}

Cur     == case.specs[step]
At(op)  == pc = "step" /\ Cur.op = op
Goto(l) == pc' = l
Fine    == UNCHANGED <<faults, trouble>>
Fault   == faults > 0 /\ faults' = faults - 1 /\ trouble' = TRUE
\* The end of a spec, passed or not.
Pass    == passed' = passed \cup {step} /\ step' = step + 1 /\ Goto("spec")
Fail    == UNCHANGED passed /\ step' = step + 1 /\ Goto("spec")
Result(ok) == IF ok THEN Pass ELSE Fail

(***************************************************************************)
(* Groups.                                                                 *)
(***************************************************************************)
\* The BeforeEach of the suite: EnsureApproverRoleBindings is idempotent; when
\* it fails the spec does.
StartSpec ==
  /\ pc = "spec" /\ step <= Len(case.specs)
  /\ \/ Fine /\ Goto("step") /\ UNCHANGED <<passed, step>>
     \/ Fault /\ Fail
  /\ UNCHANGED <<testcase, cluster, old, cache, hosted, creds, files, stale>>

\* EnsureGroupMembers reads the group; a reading that fails says "no group".
ReadGroup ==
  /\ At("ensure") /\ Goto("new")
  /\ LET g == MAGGroupName(ns, Cur.alias)
     IN \/ /\ Fine /\ UNCHANGED stale
           /\ old' = [exists |-> Exists(g), users |-> Members(g)]
        \/ /\ Fault /\ old' = [exists |-> FALSE, users |-> {}]
           /\ stale' = stale \cup Members(g)
  /\ UNCHANGED <<testcase, step, passed, cluster, cache, hosted, creds, files>>

\* ... creates it; "already exists" is success ...
NewGroup ==
  /\ pc = "new"
  /\ LET g    == MAGGroupName(ns, Cur.alias)
         made == IF Exists(g) THEN groups ELSE [groups EXCEPT ![g] = {}]
     IN \/ Fine /\ Goto("patch") /\ groups' = made /\ UNCHANGED <<passed, step>>
        \/ Fault /\ Fail /\ groups' \in {groups, made}
  /\ UNCHANGED <<testcase, task, old, cache, hosted, creds, files, stale>>

\* Mutant: a group that was not there has nobody to mark.
MarkChangedOnly(users) == IF ~old.exists \/ old.users = users THEN {} ELSE old.users \cup users
\* markUsersAuthDirty: everybody the change touches, or might have touched.
ToMark(users) == IF old.exists /\ old.users = users THEN {} ELSE old.users \cup users

\* ... and sets its members; only then are the users marked.
PatchGroup ==
  /\ pc = "patch"
  /\ LET g == MAGGroupName(ns, Cur.alias)
     IN \/ /\ Fine /\ Pass /\ groups' = [groups EXCEPT ![g] = Cur.users]
           /\ dirty' = dirty \cup ToMark(Cur.users) /\ UNCHANGED stale
        \/ /\ Fault /\ Fail /\ UNCHANGED dirty
           /\ groups' \in {groups, [groups EXCEPT ![g] = Cur.users]}
           /\ stale' = IF groups' = groups THEN stale ELSE stale \cup Members(g) \cup Cur.users
  /\ UNCHANGED <<testcase, task, old, kubeconfigs, login, server, mode, hosted, creds, files>>

(***************************************************************************)
(* Credentials.                                                            *)
(***************************************************************************)
\* useImpersonation, once in the process; a topology that cannot be read is
\* taken for "not hosted".
UseImpersonation ==
  /\ At("act") /\ mode = "unset"
  /\ \/ Fine /\ mode' = IF hosted THEN "impersonate" ELSE "login"
     \/ Fault /\ mode' = "login"
  /\ UNCHANGED <<testcase, step, pc, passed, cluster, old, dirty, kubeconfigs, login, server,
                 hosted, creds, files, stale>>

\* impersonationKubeconfig: a new file with the groups of this moment.
ImpersonationKubeconfig ==
  /\ At("act") /\ mode = "impersonate"
  /\ \/ /\ Fine /\ Goto("opc") /\ creds' = MemberOf(Cur.user)
        /\ files' = files \cup {"impersonate"} /\ UNCHANGED <<passed, step>>
     \/ Fault /\ Fail /\ UNCHANGED <<creds, files>>
  /\ UNCHANGED <<testcase, cluster, old, cache, hosted, stale>>

\* ensureUserKubeconfig, when there is one: popUserAuthDirty decides.
CachedKubeconfig ==
  /\ At("act") /\ mode = "login" /\ Cur.user \in kubeconfigs /\ Fine
  /\ IF Cur.user \in dirty
       THEN Goto("login") /\ dirty' = dirty \ {Cur.user} /\ UNCHANGED creds
       ELSE Goto("opc") /\ creds' = login[Cur.user] /\ UNCHANGED dirty
  /\ UNCHANGED <<testcase, step, passed, cluster, old, kubeconfigs, login, server, mode,
                 hosted, files, stale>>

NewKubeconfig ==
  /\ At("act") /\ mode = "login" /\ Cur.user \notin kubeconfigs /\ Fine /\ Goto("login")
  /\ UNCHANGED <<testcase, step, passed, cluster, old, cache, hosted, creds, files, stale>>

\* ensureMAGAPIServer, once in the process: a failed assertion inside the Once
\* leaves it done, without an address and without an error.
EnsureMAGAPIServer ==
  /\ pc = "login" /\ server = "unset"
  /\ \/ Fine /\ server' = "known" /\ UNCHANGED <<passed, step, pc, stale>>
     \/ /\ Fault /\ server' = "empty" /\ Fail
        /\ stale' = stale \cup {Cur.user}
  /\ UNCHANGED <<testcase, cluster, old, dirty, kubeconfigs, login, mode, hosted, creds, files>>

\* oc login: into the cached file, whose mark is already gone, or into a new
\* one that is kept, and unmarked, when the login has succeeded.
CanLogin == server = "known" /\ ~hosted
Login ==
  /\ pc = "login" /\ server # "unset"
  /\ \/ /\ CanLogin /\ Fine /\ Goto("opc") /\ UNCHANGED <<passed, step>>
        /\ login' = [login EXCEPT ![Cur.user] = MemberOf(Cur.user)]
        /\ creds' = MemberOf(Cur.user)
        /\ kubeconfigs' = kubeconfigs \cup {Cur.user} /\ dirty' = dirty \ {Cur.user}
        /\ files' = files \cup {Cur.user} /\ stale' = stale \ {Cur.user}
     \/ /\ CanLogin => Fault
        /\ ~CanLogin => Fine
        /\ Fail /\ stale' = stale \cup {Cur.user}
        /\ UNCHANGED <<login, creds, kubeconfigs, dirty, files>>
  /\ UNCHANGED <<testcase, cluster, old, server, mode, hosted>>

(***************************************************************************)
(* The approval task.  A response is recorded for the user, or for the     *)
(* user as a member of each group of the task its credentials name.        *)
(***************************************************************************)
NoTask == [named |-> FALSE, state |-> "none", approvers |-> {}, required |-> 0, resp |-> {}]

NewTask(n, s) ==
  [named |-> TRUE, state |-> "pending", required |-> s.required, resp |-> {},
   approvers |-> {Direct(u) : u \in s.users} \cup {MAGGroupName(n, a) : a \in s.aliases}]

\* CreateApprovalPipelineRun and WaitForSingleApprovalTaskName: the namespace is
\* new, so the newest task is the one of this PipelineRun.
CreateApprovalPipelineRun ==
  /\ At("create")
  /\ \/ Fine /\ Pass /\ task' = NewTask(ns, Cur)
     \/ Fault /\ Fail /\ UNCHANGED task
  /\ UNCHANGED <<testcase, groups, old, cache, hosted, creds, files, stale>>

\* The approvers of t that u is with credentials that name the given groups.
Ways(t, u, named) == t.approvers \cap ({Direct(u)} \cup named)
HasFile(u) == (IF mode = "login" THEN u ELSE "impersonate") \in files
Allowed(t, ways) == t.named /\ t.state = "pending" /\ ways # {}
\* The task after the spec s has responded in these ways.
Respond(t, s, ways) ==
  LET r    == IF s.do = "reject" THEN "rejected" ELSE "approved"
      resp == {x \in t.resp : x.user # s.user} \cup
              {[user |-> s.user, via |-> w, response |-> r] : w \in ways}
      said(v) == Cardinality({x.user : x \in {y \in resp : y.response = v}})
  IN [t EXCEPT !.resp = resp,
               !.state = IF said("rejected") > 0 THEN "rejected"
                         ELSE IF said("approved") >= t.required THEN "approved"
                         ELSE "pending"]

\* Mutant: every command removes the file it used.
RemoveAny == files \ {"impersonate", Cur.user}
\* The deferred cleanup of userEnv.
RemoveTemporary == files \ {"impersonate"}

\* PerformApprovalTaskActionAsUser: what the spec s takes for success.
Succeeds(t, s, ok) ==
  CASE s.do = "approve-expect-fail"       -> ~ok
    [] s.do = "approve-allow-final-state" -> ok \/ (t.named /\ t.state # "pending")
    [] OTHER                              -> ok

\* The command may fail by itself, with or without having been recorded.
Perform ==
  /\ pc = "opc" /\ files' = RemoveTemporary
  /\ LET ways == Ways(task, Cur.user, creds)
         ok   == HasFile(Cur.user) /\ Allowed(task, ways)
         rec  == Respond(task, Cur, ways)
     IN \/ /\ Fine /\ task' = IF ok THEN rec ELSE task
           /\ Result(Succeeds(task, Cur, ok))
        \/ /\ Fault /\ task' \in IF ok THEN {task, rec} ELSE {task}
           /\ Result(Cur.do = "approve-expect-fail")
  /\ UNCHANGED <<testcase, groups, old, cache, hosted, creds, stale>>

\* pendingApprovals and rejectedCount: users, not responses, are counted.
pendingApprovals(t) == t.required - Cardinality({x.user : x \in t.resp})
rejectedCount(t) ==
  Cardinality({x.user : x \in {y \in t.resp : y.response = "rejected"}})

\* What WaitForApprovalTaskState, WaitForAndAssertApprovalTaskListState and
\* ValidatePipelineRun wait for (a run nobody decides on times out).
AsWanted(t, s) ==
  /\ t.named
  /\ CASE s.op = "state"  -> t.state = s.want
       [] s.op = "counts" -> /\ t.required = s.required /\ t.state = s.want
                             /\ pendingApprovals(t) = s.pending
                             /\ rejectedCount(t) = s.rejected
       [] s.op = "run"    ->
            s.want = IF t.state = "approved" THEN "successful" ELSE "failed"

WaitForTask ==
  /\ pc = "step" /\ Cur.op \in {"state", "counts", "run"}
  /\ \/ Fine /\ Result(AsWanted(task, Cur))
     \/ Fault /\ Fail
  /\ UNCHANGED <<testcase, cluster, old, cache, hosted, creds, files, stale>>

\* External: the timeout of the task, early only in the short test cases.
Expire ==
  /\ task.state = "pending" /\ task' = [task EXCEPT !.state = "rejected"]
  /\ IF case.short THEN Fine ELSE Fault
  /\ UNCHANGED <<testcase, step, pc, passed, groups, old, cache, hosted, creds, files, stale>>

\* External: the other process, whose namespace is Other.
OtherTest ==
  /\ \E a \in Aliases, m \in {Absent, Users} :
       groups' = [groups EXCEPT ![MAGGroupName(Other, a)] = m]
  /\ UNCHANGED <<testcase, step, pc, faults, passed, trouble, task, old, cache, hosted, creds,
                 files, stale>>

(***************************************************************************)
(* Test cases.                                                             *)
(***************************************************************************)
\* AfterAll: DeleteGroup of each group, whose errors are ignored and which
\* marks nobody.
DeleteGroups ==
  /\ pc = "spec" /\ step > Len(case.specs) /\ Goto("end")
  /\ \/ Fine /\ groups' = [g \in GroupNames |-> IF g \in Own THEN Absent ELSE groups[g]]
     \/ Fault /\ UNCHANGED groups
  /\ UNCHANGED <<testcase, step, passed, task, old, cache, hosted, creds, files, stale>>

NextCase ==
  /\ pc = "end" /\ ns < MaxCases
  /\ case' \in Cases /\ ns' = ns + 1 /\ step' = 1 /\ pc' = "spec"
  /\ passed' = {} /\ trouble' = FALSE /\ task' = NoTask
  /\ UNCHANGED <<faults, groups, old, cache, hosted, creds, files, stale>>

\* AfterSuite: CleanupUserKubeconfigs.
CleanupUserKubeconfigs ==
  /\ pc = "end" /\ ns = MaxCases /\ Goto("done")
  /\ files' = files \ kubeconfigs /\ kubeconfigs' = {} /\ dirty' = {}
  /\ UNCHANGED <<testcase, step, faults, passed, trouble, cluster, old, login, server, mode,
                 hosted, creds, stale>>

Done == pc = "done" /\ UNCHANGED vars

Init ==
  /\ case \in Cases /\ ns = 1 /\ step = 1 /\ pc = "spec" /\ faults = MaxFaults
  /\ passed = {} /\ trouble = FALSE
  /\ groups = [g \in GroupNames |-> Absent] /\ old = [exists |-> FALSE, users |-> {}]
  /\ dirty = {} /\ kubeconfigs = {} /\ login = [u \in Users |-> {}]
  /\ server = "unset" /\ mode = "unset" /\ hosted \in BOOLEAN
  /\ creds = {} /\ files = {} /\ task = NoTask /\ stale = {}

Spec1 == StartSpec \/ ReadGroup \/ NewGroup \/ PatchGroup \/ CreateApprovalPipelineRun
Acting == \/ UseImpersonation \/ ImpersonationKubeconfig \/ CachedKubeconfig \/ NewKubeconfig
          \/ EnsureMAGAPIServer \/ Login \/ Perform
Ending == WaitForTask \/ DeleteGroups \/ NextCase \/ CleanupUserKubeconfigs
Test == Spec1 \/ Acting \/ Ending
Next == Test \/ Expire \/ OtherTest \/ Done

Spec == Init /\ [][Next]_vars

-----------------------------------------------------------------------------
(***************************************************************************)
(* Properties.                                                             *)
(***************************************************************************)
\* Types of the variables.
TypeOK ==
  /\ case \in Cases /\ ns \in 1..MaxCases /\ step \in 1..(Len(case.specs) + 1)
  /\ pc \in {"spec", "step", "new", "patch", "login", "opc", "end", "done"}
  /\ faults \in 0..MaxFaults /\ passed \subseteq DOMAIN case.specs
  /\ {trouble, hosted} \subseteq BOOLEAN
  /\ groups \in [GroupNames -> {Absent} \cup SUBSET Users]
  /\ old \in [exists : BOOLEAN, users : SUBSET Users]
  /\ (dirty \cup kubeconfigs \cup stale) \subseteq Users
  /\ login \in [Users -> SUBSET GroupNames] /\ creds \subseteq GroupNames
  /\ server \in {"unset", "known", "empty"} /\ mode \in {"unset", "login", "impersonate"}
  /\ files \subseteq Users \cup {"impersonate"}
  /\ task.state \in {"none", "pending", "approved", "rejected"}

\* When opc acts as a user, its credentials name exactly the groups of this
\* test case that have the user, although they may come from a login made
\* several membership changes ago (manualapprovalgate.go:175-195, 675-703).  The
\* exceptions are the users a failed command of this test case was about: the mark
\* of a cached kubeconfig is cleared before the login it asks for (line 679).  In
\* later test cases they act with the right groups again, unless a sync.Once
\* (lines 587, 663) has kept a failure.
Poisoned == server = "empty" \/ (hosted /\ mode = "login")
CredentialsFit ==
  pc = "opc" /\ (Cur.user \in stale => ~trouble /\ ~Poisoned) =>
    creds \cap Own = MemberOf(Cur.user) \cap Own

\* The groups of a test case have the members it asked for last, whatever a
\* parallel process does with the same aliases: Groups are cluster-scoped
\* (manualapprovalgate.go:205-207).
Asked(a) == {i \in passed : case.specs[i].op = "ensure" /\ case.specs[i].alias = a}
Ensures(a) == {i \in 1..(step - 1) : case.specs[i].op = "ensure" /\ case.specs[i].alias = a}
GroupsApart ==
  pc \in {"step", "login", "opc"} =>
    \A a \in Aliases : \A i \in Asked(a) :
      (\A j \in Ensures(a) : j <= i) => groups[MAGGroupName(ns, a)] = case.specs[i].users

\* What a test case does when every command works and everybody acts with the
\* groups they are in: x is its task and the members of its groups, s its spec.
GroupsOf(n, x, u) == {MAGGroupName(n, a) : a \in {b \in Aliases : u \in x.members[b]}}
TrueWays(n, s, x) == Ways(x.task, s.user, GroupsOf(n, x, s.user))
Passes(n, s, x) ==
  CASE s.op = "act" -> Succeeds(x.task, s, Allowed(x.task, TrueWays(n, s, x)))
    [] s.op \in {"state", "counts", "run"} -> AsWanted(x.task, s)
    [] OTHER -> TRUE
After(n, s, x) ==
  CASE s.op = "ensure" -> [x EXCEPT !.members = [@ EXCEPT ![s.alias] = s.users]]
    [] s.op = "create" -> [x EXCEPT !.task = NewTask(n, s)]
    [] s.op = "act" /\ Allowed(x.task, TrueWays(n, s, x)) ->
         [x EXCEPT !.task = Respond(x.task, s, TrueWays(n, s, x))]
    [] OTHER -> x
Begin   == [task |-> NoTask, members |-> [a \in Aliases |-> {}]]
Late(x) == [x EXCEPT !.task = [@ EXCEPT !.state = "rejected"]]

\* Course[c, n][i]: what the spec i of c may find then, in the namespace n.  The
\* test cases are written so that every spec passes, wherever the timeout of a
\* short one falls.
CONSTANT Course
ASSUME CourseAssumption ==
  \A c \in Cases, n \in 1..MaxCases :
    /\ Begin \in Course[c, n][1]
    /\ \A i \in 1..(Len(c.specs) + 1) : \A x \in Course[c, n][i] :
         /\ c.short /\ x.task.state = "pending" => Late(x) \in Course[c, n][i]
         /\ i <= Len(c.specs) => /\ Passes(n, c.specs[i], x)
                                 /\ After(n, c.specs[i], x) \in Course[c, n][i + 1]

\* A failed command spoils its own test case only: whatever marks, logins and
\* groups it left behind, a later test case in which no command fails passes.
\* Not so the two results kept by a sync.Once: an API server that could not be
\* asked for (line 663) and a topology that could not be read (line 587).
FailureStaysInCase ==
  pc = "end" /\ ~trouble /\ ~Poisoned => passed = DOMAIN case.specs

\* At the end no file with a user's credentials is left.
NoCredentialsLeft == pc = "done" => files = {}
=============================================================================
