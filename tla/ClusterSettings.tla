--------------------------- MODULE ClusterSettings --------------------------
(***************************************************************************)
(* The containers that change cluster-wide settings and put them back:     *)
(* metrics mTLS (src/pkg/monitoring/mtls.go, driven by                     *)
(* src/tests/metrics/mtls_test.go) and the TLS profile                     *)
(* (src/pkg/operator/tlsprofile.go, src/tests/operator/tls_profile_test.go)*)
(* A container is a sequence of operations, each of BeforeAll (spec 0) or  *)
(* of a spec, and the operations of its cleanup.                           *)
(*                                                                         *)
(* External: the operator.  It notices a change of a setting some time     *)
(* after it was made, until then TektonConfig is still Ready, and brings   *)
(* Services, ServiceMonitors and pods in line one after the other.         *)
(***************************************************************************)
EXTENDS Naturals, Sequences

CONSTANTS Containers,   \* records [ops, after, goOn, afterAll]
          Parts,        \* what the operator configures: <<component, kind>>
          Starts,       \* settings a container may find
          MaxFaults     \* commands that fail, in the whole run

Flags       == {"unset", "true", "false"}
Profiles    == {"unset", "Intermediate", "Modern", "Old", "Custom"}
Fields      == {"mtls", "pruner", "cron", "tls"}
FieldValues == Flags \cup Profiles
OpNames     == {"hosted", "get", "set", "restore", "check", "wait", "nostuck", "handshake", "plain"}
Operations  == [op : OpNames, f : Fields, v : FieldValues, p : Parts, spec : Nat]
Container   == [ops : Seq(Operations), after : Seq(Operations), goOn : BOOLEAN, afterAll : BOOLEAN]

ValuesOf(f) == IF f = "tls" THEN Profiles ELSE Flags
Settings    == {s \in [Fields -> FieldValues] : \A f \in Fields : s[f] \in ValuesOf(f)}

\* A setting is read once, in BeforeAll, before it is set, and the cleanup
\* restores it.  A hosted cluster skips the container before that.
Restorable == {"mtls", "pruner", "tls"}
Of(o, op, f) == o.op = op /\ o.f = f
ReadFirst(c) ==
  \A i \in 1..Len(c.ops) :
    LET o == c.ops[i]
    IN /\ o.op # "restore"
       /\ o.op = "hosted" => \A j \in 1..i : c.ops[j].op # "get"
       /\ o.op = "set" => /\ o.v \in ValuesOf(o.f)
                          /\ \E g \in 1..(i - 1) : Of(c.ops[g], "get", o.f)
       /\ o.op = "get" => /\ o.f \in Restorable
                          /\ \A j \in 1..i : c.ops[j].spec = 0
                          /\ \A j \in 1..Len(c.ops) : Of(c.ops[j], "get", o.f) => j = i
                          /\ \E j \in 1..Len(c.after) : Of(c.after[j], "restore", o.f)

\* For the pruner and the TLS profile a cleanup that runs has a value to go
\* back to: AfterAll always runs, but the pruner is read first of all;
\* DeferCleanup is registered once the TLS profile has been read.
Guarded == {"pruner", "tls"}
RestoreRead(c) ==
  \A i \in 1..Len(c.after) :
    LET o == c.after[i]
    IN /\ o.op \in {"restore", "wait"} /\ o.f \in Restorable
       /\ o.op = "restore" =>
            \A j \in 1..Len(c.after) : Of(c.after[j], "restore", o.f) => j = i
       /\ o.op = "restore" /\ o.f \in Guarded =>
            IF c.afterAll THEN o.f # "tls" /\ Len(c.ops) > 0 /\ Of(c.ops[1], "get", o.f)
            ELSE \A j \in 1..Len(c.ops) : c.ops[j].op = "get" => c.ops[j].f = o.f

\* A check that is to stand, because its spec changes the setting at most once,
\* is for the value set last, as are those of the same part before it, and one of
\* them comes between any two earlier changes.  (nginx is checked after the first
\* change only, the pruner's monitor while the container switches it on.)
FieldOf(p)    == IF p[2] \in {"nginx", "env"} THEN "tls" ELSE "mtls"
Fixed(p)      == p[1] = "results-api" /\ FieldOf(p) = "mtls"
SetsOf(c, f)  == {j \in 1..Len(c.ops) : Of(c.ops[j], "set", f)}
SetOnce(c, j) ==
  \A i, k \in SetsOf(c, FieldOf(c.ops[j].p)) :
    c.ops[i].spec = c.ops[j].spec /\ c.ops[k].spec = c.ops[j].spec => i = k
IsCheck(o, p) == o.op = "check" /\ o.p = p
Last(S, i, m) == i \in S /\ i < m /\ \A k \in S : k < m => k <= i
ChecksFollow(c) ==
  \A p \in Parts, j \in 1..Len(c.ops) :
    IsCheck(c.ops[j], p) /\ ~Fixed(p) /\ SetOnce(c, j) =>
      LET S == SetsOf(c, FieldOf(p))
      IN /\ \A m \in 1..j : IsCheck(c.ops[m], p) =>
              \E i \in S : /\ Last(S, i, m) /\ c.ops[m].v = c.ops[i].v
                          /\ c.ops[i].v \notin {"unset", "Custom"}
         /\ \A i, k \in S : i < k /\ k < j =>
              /\ p[2] # "nginx"
              /\ \E m \in (i + 1)..(k - 1) : IsCheck(c.ops[m], p)
         /\ p[1] = "pruner" => \A i \in SetsOf(c, "pruner") : c.ops[i].v = "true"

ASSUME FaultsAssumption == MaxFaults \in Nat
ASSUME PartsAssumption ==
  \A p \in Parts : p[2] \in {"service", "monitor", "pods", "env", "nginx"}
\* Exactly one pruner is on.
ASSUME StartsAssumption ==
  \A s \in Starts : /\ s \in Settings
                    /\ s["cron"] = IF s["pruner"] = "true" THEN "false" ELSE "true"
ASSUME ContainersAssumption ==
  \A c \in Containers : c \in Container /\ ReadFirst(c) /\ RestoreRead(c) /\ ChecksFollow(c)

VARIABLES
  container, phase, at,         \* "run", "after" or "done"; the next operation
  cfg, orig,                    \* the settings; history: as the container found them
  saved, read, restored,        \* the variables that keep the originals
  misread,                      \* history: settings whose reading failed
  failed, afterFailed,          \* specs that failed; a failure of the cleanup
  seen, shown, ready, sets,     \* the operator
  copied,                       \* AssertTLSHandshake: the Secret in the target namespace
  faults

settings == <<cfg, orig>>
keeping  == <<saved, read, restored, misread>>
outcome  == <<failed, afterFailed>>
operator == <<seen, shown, ready, sets>>
vars == <<container, phase, at, settings, keeping, outcome, operator, copied, faults>>

Fine  == UNCHANGED faults
Fault == faults > 0 /\ faults' = faults - 1
Ops   == IF phase = "after" THEN container.after ELSE container.ops
Cur   == Ops[at]
On(op) == phase # "done" /\ at <= Len(Ops) /\ Cur.op = op
Same  == UNCHANGED <<container, orig>>

\* What a setting that is not set means.
Eff(f, v) == IF v # "unset" THEN v ELSE IF f = "tls" THEN "Intermediate" ELSE "false"

(***************************************************************************)
(* Control: a failed assertion ends its spec; without ContinueOnFailure,   *)
(* or in BeforeAll, it ends the container.  In the cleanup it ends the     *)
(* cleanup.                                                                *)
(***************************************************************************)
Later == {j \in 1..Len(container.ops) : j > at /\ container.ops[j].spec > Cur.spec}
NextSpec ==
  IF container.goOn /\ Cur.spec > 0 /\ Later # {}
    THEN \E j \in Later : at' = j /\ \A k \in Later : j <= k
    ELSE at' = Len(container.ops) + 1
Ok   == at' = at + 1 /\ UNCHANGED <<phase, failed, afterFailed>>
Fail ==
  IF phase = "after"
    THEN phase' = "done" /\ afterFailed' = TRUE /\ UNCHANGED <<at, failed>>
    ELSE failed' = failed \cup {Cur.spec} /\ NextSpec /\ UNCHANGED <<phase, afterFailed>>

\* The cleanup: AfterAll always runs; a DeferCleanup is there once it has been
\* registered, right after its setting was read.
StartAfter ==
  /\ phase = "run" /\ at > Len(container.ops) /\ at' = 1
  /\ phase' = IF container.after # <<>> /\ (container.afterAll \/ read # {})
                THEN "after" ELSE "done"
  /\ Same /\ Fine /\ UNCHANGED <<cfg, keeping, outcome, operator, copied>>

Finished ==
  /\ phase = "after" /\ at > Len(container.after) /\ phase' = "done"
  /\ Same /\ Fine /\ UNCHANGED <<at, cfg, keeping, outcome, operator, copied>>

(***************************************************************************)
(* Settings.                                                               *)
(***************************************************************************)
\* GetEnableMetricsMTLS and GetTektonPrunerEnabled return nil both for a
\* setting that is not set and for a command that failed;
\* GetClusterTLSProfileType returns the default for nil and fails the spec for
\* an error.
Get ==
  /\ On("get") /\ Same
  /\ \/ /\ Fine /\ Ok /\ read' = read \cup {Cur.f} /\ UNCHANGED misread
        /\ saved' = [saved EXCEPT ![Cur.f] =
                       IF Cur.f = "tls" THEN Eff("tls", cfg["tls"]) ELSE cfg[Cur.f]]
     \/ /\ Fault /\ Cur.f # "tls" /\ Ok
        /\ read' = read \cup {Cur.f} /\ misread' = misread \cup {Cur.f}
        /\ saved' = [saved EXCEPT ![Cur.f] = "unset"]
     \/ Fault /\ Cur.f = "tls" /\ Fail /\ UNCHANGED <<saved, read, misread>>
  /\ UNCHANGED <<cfg, restored, operator, copied>>

\* The TLS container is skipped where APIServer/cluster cannot be changed.
Hosted ==
  /\ On("hosted") /\ Same /\ Fine
  /\ \/ Ok
     \/ phase' = "done" /\ UNCHANGED <<at, outcome>>
  /\ UNCHANGED <<cfg, keeping, operator, copied>>

\* Mutant: a profile the switch does not know is taken for the weakest.
KnownOrOld(f, v) == IF f = "tls" /\ v \notin {"Modern", "Intermediate", "Old"} THEN "Old" ELSE v
\* PatchClusterTLSProfile knows three profiles and resets the rest.
Known(f, v) == IF f = "tls" /\ v \notin {"Modern", "Intermediate", "Old"} THEN "unset" ELSE v

\* Mutant: the CronJob pruner is switched off, and never on again.
WrittenOneWay(f, v) ==
  [cfg EXCEPT ![f] = Known(f, v), !["cron"] = IF f = "pruner" /\ v = "true" THEN "false" ELSE @]
\* SetEnableMetricsMTLS; SetTektonPrunerEnabled, which switches the other
\* pruner the other way; PatchClusterTLSProfile.
Written(f, v) ==
  IF f = "pruner"
    THEN [cfg EXCEPT !["pruner"] = v, !["cron"] = IF v = "true" THEN "false" ELSE "true"]
    ELSE [cfg EXCEPT ![f] = Known(f, v)]

Set ==
  /\ On("set") /\ Same
  /\ \/ Fine /\ Ok /\ cfg' = Written(Cur.f, Cur.v)
     \/ Fault /\ Fail /\ cfg' \in {cfg, Written(Cur.f, Cur.v)}
  /\ UNCHANGED <<keeping, operator, copied>>

\* The value AfterAll goes back to: for nil, false
\* (RestoreOriginalPrunerState does the same for the pruner).
GoBackTo(f) == Eff(f, saved[f])

Restore ==
  /\ On("restore") /\ Same
  /\ \/ Fine /\ Ok /\ cfg' = Written(Cur.f, GoBackTo(Cur.f)) /\ restored' = restored \cup {Cur.f}
     \/ /\ Fault /\ Fail /\ cfg' \in {cfg, Written(Cur.f, GoBackTo(Cur.f))}
        /\ UNCHANGED restored
  /\ UNCHANGED <<saved, read, misread, operator, copied>>

(***************************************************************************)
(* Assertions.                                                             *)
(***************************************************************************)
Protocols(profile) ==
  CASE profile = "Modern" -> {"1.3"}
    [] profile = "Old"    -> {"1.0", "1.1", "1.2", "1.3"}
    [] OTHER              -> {"1.2", "1.3"}

\* checkServiceMTLSEnabled and Disabled: port, annotation and serving-cert Secret.
ServiceShows(p, v) == shown[p] = {v}
\* checkServiceMonitorMTLSEnabled and Disabled: scheme and tlsConfig of the
\* first endpoint; no ServiceMonitor is an error for both.
MonitorShows(p, v) == shown[p] = {v}
\* checkPodMTLSEnabled and Disabled: every pod of the Service, and at least one.
PodsShow(p, v) == shown[p] # {} /\ \A x \in shown[p] : x = v
\* AssertDeploymentHasEnvVar: every container.
DeploymentShows(p, v) == shown[p] = {v}
\* AssertNginxConfigMapHasTLSProfile: the protocols of the profile are there,
\* perhaps with others.
NginxShows(p, v) == \A x \in shown[p] : Protocols(v) \subseteq Protocols(x)

\* Mutant: one pod is enough.
AnyShows(p, v) == v \in shown[p]
Shows(p, v) ==
  CASE p[2] = "service" -> ServiceShows(p, v)
    [] p[2] = "monitor" -> MonitorShows(p, v)
    [] p[2] = "pods"    -> PodsShow(p, v)
    [] p[2] = "env"     -> DeploymentShows(p, v)
    [] p[2] = "nginx"   -> NginxShows(p, v)

Holds(op) ==
  CASE op.op = "check"   -> Shows(op.p, op.v)
    [] op.op = "wait"    -> ready
    [] op.op = "nostuck" -> sets

\* pollUntilNoError, WaitForTektonConfigReady, AssertNoStuckInstallerSets: the
\* first poll at which the condition holds, or the timeout.
Poll ==
  /\ phase # "done" /\ at <= Len(Ops) /\ Cur.op \in {"check", "wait", "nostuck"}
  /\ Same /\ Fine
  /\ \/ Holds(Cur) /\ Ok
     \/ Fail
  /\ UNCHANGED <<cfg, keeping, operator, copied>>

\* AssertTLSHandshake: the client certificate is copied into the namespace (a
\* failing apply is only logged), one run with it must succeed, which any pod
\* may answer, and one without it must fail, for whatever reason.
Pods(p) == shown[<<p[1], "pods">>]
TLSHandshake ==
  /\ On("handshake") /\ Same
  /\ \/ /\ Fine /\ shown[Cur.p] # {"true"} /\ Fail /\ UNCHANGED copied
     \/ /\ Fault /\ Fail /\ copied' \in {copied, TRUE}
     \/ /\ Fine /\ shown[Cur.p] = {"true"} /\ copied' = TRUE
        /\ Pods(Cur.p) # {"true"} /\ Fail
     \/ /\ Fine \/ Fault
        /\ shown[Cur.p] = {"true"} /\ "true" \in Pods(Cur.p) /\ copied' = TRUE /\ Ok
  /\ UNCHANGED <<cfg, keeping, operator>>

\* AssertPlainHTTPHandshake falls back to the first port, so that only the pods
\* matter.
PlainHandshake ==
  /\ On("plain") /\ Same
  /\ \/ Fine /\ "false" \in Pods(Cur.p) /\ Ok
     \/ Fine /\ Pods(Cur.p) # {"false"} /\ Fail
     \/ Fault /\ Fail
  /\ UNCHANGED <<cfg, keeping, operator, copied>>

(***************************************************************************)
(* External: the operator.                                                 *)
(***************************************************************************)
\* The results API keeps plain HTTP; the pruner has a controller only while on.
Target(p, s) ==
  CASE FieldOf(p) = "tls" -> {Eff("tls", s["tls"])}
    [] Fixed(p)           -> {"false"}
    [] FieldOf(p) = "mtls" /\ p[1] = "pruner" /\ s["pruner"] # "true" -> {}
    [] OTHER              -> {Eff("mtls", s["mtls"])}

Test == <<container, phase, at, settings, keeping, outcome, copied, faults>>

Notice ==
  /\ seen # cfg /\ seen' = cfg /\ ready' = FALSE /\ sets' = FALSE
  /\ UNCHANGED <<shown, Test>>

\* A rollout has old and new pods for a while.
Reconcile(p) ==
  /\ shown[p] # Target(p, seen)
  /\ \/ shown' = [shown EXCEPT ![p] = Target(p, seen)]
     \/ /\ p[2] = "pods" /\ ~(Target(p, seen) \subseteq shown[p])
        /\ shown' = [shown EXCEPT ![p] = @ \cup Target(p, seen)]
  /\ UNCHANGED <<seen, ready, sets, Test>>

Settle ==
  /\ ~ready /\ \A p \in Parts : shown[p] = Target(p, seen)
  /\ ready' = TRUE /\ sets' = TRUE /\ UNCHANGED <<seen, shown, Test>>

Operator == Notice \/ (\E p \in Parts : Reconcile(p)) \/ Settle

(***************************************************************************)
(* The specification.                                                      *)
(***************************************************************************)
\* The operator is at rest.
Init ==
  /\ container \in Containers /\ phase = "run" /\ at = 1 /\ faults = MaxFaults
  /\ cfg \in Starts /\ orig = cfg /\ seen = cfg /\ ready = TRUE /\ sets = TRUE
  /\ shown = [p \in Parts |-> Target(p, cfg)]
  /\ saved = [f \in Fields |-> "unset"] /\ read = {} /\ restored = {} /\ misread = {}
  /\ failed = {} /\ afterFailed = FALSE /\ copied \in BOOLEAN

Steps == \/ Hosted \/ Get \/ Set \/ Restore \/ Poll \/ TLSHandshake \/ PlainHandshake
         \/ StartAfter \/ Finished
Done == phase = "done" /\ UNCHANGED vars
Next == Steps \/ Operator \/ Done

\* The test thread runs; nothing is asked of the operator.
Spec == Init /\ [][Next]_vars /\ WF_vars(Steps)

-----------------------------------------------------------------------------
(***************************************************************************)
(* Properties.                                                             *)
(***************************************************************************)
\* Types of the variables.
TypeOK ==
  /\ container \in Containers /\ phase \in {"run", "after", "done"}
  /\ at \in Nat \ {0} /\ (phase # "done" => at <= Len(Ops) + 1)
  /\ cfg \in Settings /\ orig \in Settings /\ seen \in Settings /\ saved \in Settings
  /\ read \subseteq Restorable /\ restored \subseteq Restorable /\ misread \subseteq read
  /\ failed \subseteq Nat /\ afterFailed \in BOOLEAN
  /\ shown \in [Parts -> SUBSET FieldValues]
  /\ ready \in BOOLEAN /\ sets \in BOOLEAN /\ copied \in BOOLEAN /\ faults \in 0..MaxFaults

\* Whatever failed in between, a container whose cleanup reports no failure
\* leaves every setting as it found it, the pruner it did not read included
\* (mtls.go:528-569).  There are three exceptions, where it may be the default
\* instead and nothing else: a setting it could not read, the mTLS flag
\* AfterAll restores without having read it, and a custom TLS profile, which
\* PatchClusterTLSProfile cannot write.
Kept(f) == Eff(f, cfg[f]) = Eff(f, orig[f]) /\ (f = "pruner" => cfg["cron"] = orig["cron"])
AtDefault(f) == Eff(f, cfg[f]) = Eff(f, "unset") /\ (f = "pruner" => cfg["cron"] = "true")
Excepted ==
  misread \cup ({"mtls"} \ read) \cup (IF orig["tls"] = "Custom" THEN {"tls"} ELSE {})
RestoredUnlessReported ==
  phase = "done" /\ ~afterFailed =>
    \A f \in Restorable : Kept(f) \/ (f \in Excepted /\ AtDefault(f))

\* An assertion that passed stays true until the setting is changed again:
\* polling does not catch the operator half-way, although Ready may be old
\* (mtls.go:45-69).  A spec that changes the setting twice is excepted: there
\* the operator may still be bringing about the first change.
SameSpec(i, j) == container.ops[i].spec = container.ops[j].spec
Sets(f) == SetsOf(container, f)
Standing ==
  {j \in 1..(at - 1) :
     LET o == container.ops[j]
     IN /\ o.op = "check" /\ failed = {}
        /\ \A i \in Sets(FieldOf(o.p)) : i > j => at <= i
        /\ \A i, k \in Sets(FieldOf(o.p)) : SameSpec(i, j) /\ SameSpec(k, j) => i = k}
InForce(p, v) ==
  shown[p] # {} /\ \A x \in shown[p] : x = v \/ (p[2] = "nginx" /\ Protocols(v) \subseteq Protocols(x))
PassedChecksStand ==
  phase = "run" => \A j \in Standing : InForce(container.ops[j].p, container.ops[j].v)

\* The container keeps the promise of SettingsGuard for the pruner and for the
\* TLS profile: neither is touched before there is a value to go back to, and
\* both end at that value or with a failure of the cleanup, whatever fails.
GuardPhase(f) ==
  IF f \notin read THEN "idle"
  ELSE IF f \in restored THEN "restored"
  ELSE IF afterFailed THEN "reported" ELSE "held"
PrunerGuard == INSTANCE SettingsGuard WITH
  Settings <- {"true", "false"}, Default <- "false", value <- Eff("pruner", cfg["pruner"]),
  saved <- Eff("pruner", saved["pruner"]), phase <- GuardPhase("pruner")
TLSGuard == INSTANCE SettingsGuard WITH
  Settings <- Profiles, Default <- "Intermediate", value <- Eff("tls", cfg["tls"]),
  saved <- IF saved["tls"] = "Custom" THEN "Intermediate" ELSE Eff("tls", saved["tls"]),
  phase <- GuardPhase("tls")
SettingsKept == PrunerGuard!Spec /\ TLSGuard!Spec
=============================================================================
