------------------------------ MODULE OlmProofs ------------------------------
(***************************************************************************)
(* The safety properties of pkg/olm, for every value of the constants:     *)
(* concurrent bootstraps (OperatorBootstrap) for any number of callers and *)
(* any plan, and an upgrade campaign (OperatorUpgrade) for any catalogs,   *)
(* channels, specs and bounds.                                             *)
(*                                                                         *)
(* The argument for the bootstraps: while a caller is on the creating      *)
(* branch, the only subscription of its package another caller can have    *)
(* made is the one it is about to make itself (StageInv), so its Create    *)
(* adds no second one.                                                     *)
(***************************************************************************)
EXTENDS OperatorBootstrap, OperatorUpgrade, TLAPS

-----------------------------------------------------------------------------
(* Bootstraps. *)

\* What a caller that found no subscription, or no OperatorGroup, may rely on.
StageInv ==
  \A c \in Callers :
    /\ place[c] \in Creating => \A s \in subs : s.pkg = Pkg(c) => s.name = Pkg(c) /\ s.ns = NS(c)
    /\ place[c] = "newGroup" => \A g \in groups : g.ns = NS(c) => g = OwnGroup(c)

\* The phases seen in the cluster are on record.
CallPhaseInv ==
  \A p \in Packages, n \in Namespaces : csvPhase[<<p, n>>] # "none" => <<p, csvPhase[<<p, n>>]>> \in reached

\* What a caller has behind it.
ProgressInv ==
  \A c \in Callers :
    /\ \A i \in 1 .. Len(Plan) : i < pos[c] => Installed(Plan[i]) /\ (c \in Waiting => Plan[i] \in served)
    /\ place[c] \in {"api", "ready", "used"} => Installed(Pkg(c))
    /\ place[c] \in {"ready", "used"} => pos[c] = Len(Plan) /\ (c \in Waiting => Pkg(c) \in served)

BootstrapInv ==
  /\ BootstrapTypeOK /\ NoSecondOperator /\ StageInv /\ CallPhaseInv /\ ProgressInv
  /\ RacesAreBenign /\ WaitingCallersServed

\* Plan is a non-empty sequence of packages.
LEMMA PlanFacts ==
  /\ Len(Plan) \in Nat /\ Len(Plan) >= 1
  /\ \A i \in 1 .. Len(Plan) : Plan[i] \in Packages
BY PlanAssumption

\* A caller is always at a package, to be installed in a namespace.
LEMMA CallerFacts ==
  ASSUME BootstrapTypeOK, NEW c \in Callers
  PROVE  Pkg(c) \in Packages /\ NS(c) \in Namespaces
BY PlanFacts, PackagesAssumption DEF BootstrapTypeOK, Pkg, NS

\* The invariant holds initially.
LEMMA InitEstablishesInv == BootstrapInit => BootstrapInv
<1> SUFFICES ASSUME BootstrapInit PROVE BootstrapInv
  OBVIOUS
<1>1. BootstrapTypeOK
  <2>1. PkgNS[Plan[1]] \in Namespaces
    BY PlanFacts, PackagesAssumption
  <2> QED
    BY <2>1, PlanFacts, AdminAssumption, CallersAssumption
       DEF BootstrapInit, BootstrapTypeOK, Places, CSVPhases, SingleOperators
<1>2. NoSecondOperator
  BY DEF BootstrapInit, NoSecondOperator
<1>3. StageInv
  BY DEF BootstrapInit, StageInv, Creating
<1>4. CallPhaseInv
  BY DEF BootstrapInit, CallPhaseInv
<1>5. ProgressInv /\ RacesAreBenign /\ WaitingCallersServed
  BY PlanFacts DEF BootstrapInit, ProgressInv, RacesAreBenign, WaitingCallersServed
<1> QED
  BY <1>1, <1>2, <1>3, <1>4, <1>5 DEF BootstrapInv

\* A caller's Create of a subscription adds no second one for its package.
LEMMA StoredFacts ==
  ASSUME BootstrapInv, NEW c \in Callers, place[c] = "create"
  PROVE  Stored(c) \subseteq Subs /\ (sound => SingleOperators(Stored(c), groups))
<1> DEFINE new == [name |-> Pkg(c), ns |-> NS(c), pkg |-> Pkg(c), channel |-> Requested]
<1>1. Pkg(c) \in Packages /\ NS(c) \in Namespaces
  BY CallerFacts DEF BootstrapInv
<1>2. new \in Subs
  BY <1>1, PackagesAssumption DEF Subs, Names
<1>3. ~NameTaken(c) => \A s \in subs : s.pkg # Pkg(c)
  BY DEF BootstrapInv, StageInv, Creating, NameTaken
<1>4. Stored(c) = IF NameTaken(c) THEN subs ELSE subs \cup {new}
  BY DEF Stored
<1>5. sound => SingleOperators(subs, groups)
  BY DEF BootstrapInv, NoSecondOperator
<1>6. sound => SingleOperators(Stored(c), groups)
  <2> SUFFICES ASSUME sound PROVE SingleOperators(Stored(c), groups)
    OBVIOUS
  <2>1. \A s, t \in Stored(c) : s.pkg = t.pkg => s = t
    BY <1>3, <1>4, <1>5 DEF SingleOperators
  <2>2. \A s \in Stored(c) : s.name \in Packages => s.name = s.pkg
    BY <1>4, <1>5 DEF SingleOperators
  <2> QED
    BY <2>1, <2>2, <1>5 DEF SingleOperators
<1> QED
  BY <1>2, <1>4, <1>6 DEF BootstrapInv, BootstrapTypeOK

\* A caller's Create of an OperatorGroup adds no second one to the namespace.
LEMMA GroupFacts ==
  ASSUME BootstrapInv, NEW c \in Callers, place[c] = "newGroup"
  PROVE  /\ OwnGroup(c) \in Groups
         /\ sound => SingleOperators(subs, groups \cup {OwnGroup(c)})
<1>1. OwnGroup(c) \in Groups /\ OwnGroup(c).ns = NS(c)
  BY CallerFacts DEF BootstrapInv, OwnGroup, Groups
<1>2. \A g \in groups : g.ns = NS(c) => g = OwnGroup(c)
  BY DEF BootstrapInv, StageInv
<1>3. sound => SingleOperators(subs, groups)
  BY DEF BootstrapInv, NoSecondOperator
<1> QED
  BY <1>1, <1>2, <1>3 DEF SingleOperators

\* The loop moves on to the next prerequisite or has reached the last one.
LEMMA LoopFacts ==
  ASSUME BootstrapTypeOK, NEW c \in Callers, NextPrerequisite(c)
  PROVE  /\ place' \in [Callers -> Places] /\ pos' \in [Callers -> 1 .. Len(Plan)]
         /\ \A d \in Callers : d # c => place'[d] = place[d] /\ pos'[d] = pos[d]
         /\ \/ place'[c] = "list" /\ pos'[c] = pos[c] + 1
            \/ place'[c] = "ready" /\ pos'[c] = pos[c] /\ pos[c] = Len(Plan)
<1>1. CASE pos[c] < Len(Plan) /\ place' = [place EXCEPT ![c] = "list"] /\ pos' = [pos EXCEPT ![c] = pos[c] + 1]
  <2>1. pos[c] + 1 \in 1 .. Len(Plan)
    BY <1>1, PlanFacts DEF BootstrapTypeOK
  <2> QED
    BY <1>1, <2>1 DEF BootstrapTypeOK, Places
<1>2. CASE ~(pos[c] < Len(Plan)) /\ place' = [place EXCEPT ![c] = "ready"] /\ pos' = pos
  <2>1. pos[c] = Len(Plan)
    BY <1>2, PlanFacts DEF BootstrapTypeOK
  <2> QED
    BY <1>2, <2>1 DEF BootstrapTypeOK, Places
<1> QED
  BY <1>1, <1>2 DEF NextPrerequisite, Go

\* Moving on with the prerequisite installed, and served if the caller waits
\* for that, preserves what a caller has behind it.
LEMMA LoopProgress ==
  ASSUME BootstrapTypeOK, ProgressInv, NEW c \in Callers, NextPrerequisite(c),
         Installed(Pkg(c)), c \in Waiting => Pkg(c) \in served,
         reached' = reached, served' = served
  PROVE  ProgressInv'
<1>1. \A p : Installed(p)' <=> Installed(p)
  BY DEF Installed
<1>2. \A i \in 1 .. Len(Plan) :
        i < pos[c] + 1 => Installed(Plan[i]) /\ (c \in Waiting => Plan[i] \in served)
  BY PlanFacts DEF BootstrapTypeOK, ProgressInv, Pkg
<1> SUFFICES ASSUME NEW d \in Callers
             PROVE  /\ \A i \in 1 .. Len(Plan) : i < pos'[d] =>
                         Installed(Plan[i]) /\ (d \in Waiting => Plan[i] \in served)
                    /\ place'[d] \in {"api", "ready", "used"} => Installed(Plan[pos'[d]])
                    /\ place'[d] \in {"ready", "used"} =>
                         pos'[d] = Len(Plan) /\ (d \in Waiting => Plan[pos'[d]] \in served)
  BY <1>1 DEF ProgressInv, Pkg, Installed
<1>3. CASE d # c
  BY <1>3, LoopFacts DEF ProgressInv, Pkg
<1>4. CASE d = c
  <2>1. CASE place'[c] = "list" /\ pos'[c] = pos[c] + 1
    BY <1>2, <1>4, <2>1
  <2>2. CASE place'[c] = "ready" /\ pos'[c] = pos[c] /\ pos[c] = Len(Plan)
    BY <1>4, <2>2 DEF ProgressInv, Pkg
  <2> QED
    BY <2>1, <2>2, LoopFacts
<1> QED
  BY <1>3, <1>4

\* A step of a caller preserves the invariant.
LEMMA CallerPreservesInv ==
  ASSUME BootstrapInv, NEW c \in Callers, Caller(c)
  PROVE  BootstrapInv'
<1> USE CallerFacts, PlanFacts DEF BootstrapInv, olmState, calls, callHistory, Go
<1>1. CASE ListSubscriptions(c)
  <2>1. BootstrapTypeOK'
    BY <1>1 DEF ListSubscriptions, Matches, Several, BootstrapTypeOK, Places, Creating, Subs, Groups, Names
  <2>2. NoSecondOperator'
    BY <1>1 DEF ListSubscriptions, Matches, Several, BootstrapTypeOK, NoSecondOperator, SingleOperators
  <2>3. StageInv'
    BY <1>1 DEF ListSubscriptions, Matches, Several, BootstrapTypeOK, StageInv, Pkg, NS, Creating, OwnGroup
  <2>4. CallPhaseInv'
    BY <1>1 DEF ListSubscriptions, Matches, Several, CallPhaseInv
  <2>5. ProgressInv'
    BY <1>1 DEF ListSubscriptions, Matches, Several, BootstrapTypeOK, ProgressInv, Pkg, Installed
  <2>6. RacesAreBenign'
    BY <1>1 DEF ListSubscriptions, Matches, Several, BootstrapTypeOK, NoSecondOperator, SingleOperators,
                    RacesAreBenign, Pkg
  <2>7. WaitingCallersServed'
    BY <1>1 DEF ListSubscriptions, Matches, Several, WaitingCallersServed
  <2> QED
    BY <2>1, <2>2, <2>3, <2>4, <2>5, <2>6, <2>7
<1>2. CASE GetNamespace(c)
  <2>1. BootstrapTypeOK'
    BY <1>2 DEF GetNamespace, BootstrapTypeOK, Places, Creating, Subs, Groups, Names
  <2>2. NoSecondOperator'
    BY <1>2 DEF GetNamespace, BootstrapTypeOK, NoSecondOperator, SingleOperators
  <2>3. StageInv'
    BY <1>2 DEF GetNamespace, BootstrapTypeOK, StageInv, Pkg, NS, Creating, OwnGroup
  <2>4. CallPhaseInv'
    BY <1>2 DEF GetNamespace, CallPhaseInv
  <2>5. ProgressInv'
    BY <1>2 DEF GetNamespace, BootstrapTypeOK, ProgressInv, Pkg, Installed
  <2>6. RacesAreBenign'
    BY <1>2 DEF GetNamespace, BootstrapTypeOK, RacesAreBenign, Pkg
  <2>7. WaitingCallersServed'
    BY <1>2 DEF GetNamespace, WaitingCallersServed
  <2> QED
    BY <2>1, <2>2, <2>3, <2>4, <2>5, <2>6, <2>7
<1>3. CASE CreateNamespace(c)
  <2>1. BootstrapTypeOK'
    BY <1>3 DEF CreateNamespace, BootstrapTypeOK, Places, Creating, Subs, Groups, Names
  <2>2. NoSecondOperator'
    BY <1>3 DEF CreateNamespace, BootstrapTypeOK, NoSecondOperator, SingleOperators
  <2>3. StageInv'
    BY <1>3 DEF CreateNamespace, BootstrapTypeOK, StageInv, Pkg, NS, Creating, OwnGroup
  <2>4. CallPhaseInv'
    BY <1>3 DEF CreateNamespace, CallPhaseInv
  <2>5. ProgressInv'
    BY <1>3 DEF CreateNamespace, BootstrapTypeOK, ProgressInv, Pkg, Installed
  <2>6. RacesAreBenign'
    BY <1>3 DEF CreateNamespace, BootstrapTypeOK, RacesAreBenign, Pkg
  <2>7. WaitingCallersServed'
    BY <1>3 DEF CreateNamespace, WaitingCallersServed
  <2> QED
    BY <2>1, <2>2, <2>3, <2>4, <2>5, <2>6, <2>7
<1>4. CASE ListGroups(c)
  <2>1. BootstrapTypeOK'
    BY <1>4 DEF ListGroups, GroupsIn, Several, BootstrapTypeOK, Places, Creating, Subs, Groups, Names
  <2>2. NoSecondOperator'
    BY <1>4 DEF ListGroups, GroupsIn, Several, BootstrapTypeOK, NoSecondOperator, SingleOperators
  <2>3. StageInv'
    BY <1>4 DEF ListGroups, GroupsIn, Several, BootstrapTypeOK, StageInv, Pkg, NS, Creating, OwnGroup
  <2>4. CallPhaseInv'
    BY <1>4 DEF ListGroups, GroupsIn, Several, CallPhaseInv
  <2>5. ProgressInv'
    BY <1>4 DEF ListGroups, GroupsIn, Several, BootstrapTypeOK, ProgressInv, Pkg, Installed
  <2>6. RacesAreBenign'
    BY <1>4 DEF ListGroups, GroupsIn, Several, BootstrapTypeOK, NoSecondOperator, SingleOperators,
                    RacesAreBenign, Pkg
  <2>7. WaitingCallersServed'
    BY <1>4 DEF ListGroups, GroupsIn, Several, WaitingCallersServed
  <2> QED
    BY <2>1, <2>2, <2>3, <2>4, <2>5, <2>6, <2>7
<1>5. CASE CreateGroup(c)
  <2>1. BootstrapTypeOK'
    BY <1>5 DEF CreateGroup, OwnGroup, AfterGroup, BootstrapTypeOK, Places, Creating, Subs, Groups, Names
  <2>2. NoSecondOperator'
    BY <1>5, GroupFacts DEF CreateGroup, NoSecondOperator
  <2>3. StageInv'
    BY <1>5 DEF CreateGroup, OwnGroup, AfterGroup, BootstrapTypeOK, StageInv, Pkg, NS, Creating
  <2>4. CallPhaseInv'
    BY <1>5 DEF CreateGroup, OwnGroup, AfterGroup, CallPhaseInv
  <2>5. ProgressInv'
    BY <1>5 DEF CreateGroup, OwnGroup, AfterGroup, BootstrapTypeOK, ProgressInv, Pkg, Installed
  <2>6. RacesAreBenign'
    BY <1>5 DEF CreateGroup, OwnGroup, AfterGroup, BootstrapTypeOK, RacesAreBenign, Pkg
  <2>7. WaitingCallersServed'
    BY <1>5 DEF CreateGroup, OwnGroup, AfterGroup, WaitingCallersServed
  <2> QED
    BY <2>1, <2>2, <2>3, <2>4, <2>5, <2>6, <2>7
<1>6. CASE CreateSubscription(c)
  <2>1. BootstrapTypeOK'
    BY <1>6, StoredFacts DEF CreateSubscription, BootstrapTypeOK, Places
  <2>2. NoSecondOperator'
    BY <1>6, StoredFacts DEF CreateSubscription, NoSecondOperator
  <2>3. StageInv'
    BY <1>6 DEF CreateSubscription, Stored, NameTaken, BootstrapTypeOK, StageInv, Pkg, NS, Creating, OwnGroup
  <2>4. CallPhaseInv'
    BY <1>6 DEF CreateSubscription, Stored, NameTaken, CallPhaseInv
  <2>5. ProgressInv'
    BY <1>6 DEF CreateSubscription, Stored, NameTaken, BootstrapTypeOK, ProgressInv, Pkg, Installed
  <2>6. RacesAreBenign'
    BY <1>6 DEF CreateSubscription, Stored, NameTaken, BootstrapTypeOK, RacesAreBenign, Pkg
  <2>7. WaitingCallersServed'
    BY <1>6 DEF CreateSubscription, Stored, NameTaken, WaitingCallersServed
  <2> QED
    BY <2>1, <2>2, <2>3, <2>4, <2>5, <2>6, <2>7
<1>7. CASE GetExisting(c)
  <2>1. BootstrapTypeOK'
    BY <1>7 DEF GetExisting, BootstrapTypeOK, Places, Creating, Subs, Groups, Names
  <2>2. NoSecondOperator'
    BY <1>7 DEF GetExisting, BootstrapTypeOK, NoSecondOperator, SingleOperators
  <2>3. StageInv'
    BY <1>7 DEF GetExisting, BootstrapTypeOK, StageInv, Pkg, NS, Creating, OwnGroup
  <2>4. CallPhaseInv'
    BY <1>7 DEF GetExisting, CallPhaseInv
  <2>5. ProgressInv'
    BY <1>7 DEF GetExisting, BootstrapTypeOK, ProgressInv, Pkg, Installed
  <2>6. RacesAreBenign'
    BY <1>7 DEF GetExisting, BootstrapTypeOK, NoSecondOperator, SingleOperators,
                    RacesAreBenign, Pkg
  <2>7. WaitingCallersServed'
    BY <1>7 DEF GetExisting, WaitingCallersServed
  <2> QED
    BY <2>1, <2>2, <2>3, <2>4, <2>5, <2>6, <2>7
<1>8. CASE AwaitOperator(c)
  <2>1. BootstrapTypeOK'
    BY <1>8, LoopFacts DEF AwaitOperator, BootstrapTypeOK, Places
  <2>2. NoSecondOperator'
    BY <1>8 DEF AwaitOperator, NextPrerequisite, Succeeded, BootstrapTypeOK, NoSecondOperator, SingleOperators
  <2>3. StageInv'
    BY <1>8 DEF AwaitOperator, NextPrerequisite, Succeeded, BootstrapTypeOK, StageInv, Pkg, NS, Creating, OwnGroup
  <2>4. CallPhaseInv'
    BY <1>8 DEF AwaitOperator, NextPrerequisite, Succeeded, CallPhaseInv
  <2>5. ProgressInv'
    <3>1. csvPhase[<<Pkg(c), target[c]>>] # "none" => <<Pkg(c), csvPhase[<<Pkg(c), target[c]>>]>> \in reached
      BY DEF CallPhaseInv, BootstrapTypeOK
    <3>2. CASE NextPrerequisite(c) /\ Succeeded(csvPhase[<<Pkg(c), target[c]>>]) /\ c \notin Waiting
      BY <1>8, <3>1, <3>2, LoopProgress DEF AwaitOperator, Succeeded, Installed
    <3>3. CASE pos' = pos /\ Succeeded(csvPhase[<<Pkg(c), target[c]>>]) /\ place' = [place EXCEPT ![c] = "api"]
      BY <1>8, <3>1, <3>3 DEF AwaitOperator, Succeeded, BootstrapTypeOK, ProgressInv, Pkg, Installed
    <3>4. CASE pos' = pos /\ place' = [place EXCEPT ![c] = "error"]
      BY <1>8, <3>4 DEF AwaitOperator, BootstrapTypeOK, ProgressInv, Pkg, Installed
    <3> QED
      BY <1>8, <3>2, <3>3, <3>4 DEF AwaitOperator
  <2>6. RacesAreBenign'
    BY <1>8, LoopFacts DEF AwaitOperator, CallPhaseInv, BootstrapTypeOK, RacesAreBenign, Pkg
  <2>7. WaitingCallersServed'
    BY <1>8 DEF AwaitOperator, NextPrerequisite, Succeeded, WaitingCallersServed
  <2> QED
    BY <2>1, <2>2, <2>3, <2>4, <2>5, <2>6, <2>7
<1>9. CASE AwaitAPI(c)
  <2>1. BootstrapTypeOK'
    BY <1>9, LoopFacts DEF AwaitAPI, BootstrapTypeOK
  <2>2. NoSecondOperator'
    BY <1>9 DEF AwaitAPI, NextPrerequisite, Served, BootstrapTypeOK, NoSecondOperator, SingleOperators
  <2>3. StageInv'
    BY <1>9 DEF AwaitAPI, NextPrerequisite, Served, BootstrapTypeOK, StageInv, Pkg, NS, Creating, OwnGroup
  <2>4. CallPhaseInv'
    BY <1>9 DEF AwaitAPI, NextPrerequisite, Served, CallPhaseInv
  <2>5. ProgressInv'
    BY <1>9, LoopProgress DEF AwaitAPI, Served, ProgressInv
  <2>6. RacesAreBenign'
    BY <1>9 DEF AwaitAPI, NextPrerequisite, Served, BootstrapTypeOK, RacesAreBenign, Pkg
  <2>7. WaitingCallersServed'
    BY <1>9 DEF AwaitAPI, NextPrerequisite, Served, WaitingCallersServed
  <2> QED
    BY <2>1, <2>2, <2>3, <2>4, <2>5, <2>6, <2>7
<1>10. CASE Fault(c)
  <2>1. BootstrapTypeOK'
    BY <1>10, StoredFacts, GroupFacts DEF Fault, BootstrapTypeOK, Places
  <2>2. NoSecondOperator'
    BY <1>10, StoredFacts, GroupFacts DEF Fault, NoSecondOperator
  <2>3. StageInv'
    BY <1>10 DEF Fault, Stored, NameTaken, OwnGroup, BootstrapTypeOK, StageInv, Pkg, NS, Creating
  <2>4. CallPhaseInv'
    BY <1>10 DEF Fault, Stored, NameTaken, OwnGroup, CallPhaseInv
  <2>5. ProgressInv'
    BY <1>10 DEF Fault, Stored, NameTaken, OwnGroup, BootstrapTypeOK, ProgressInv, Pkg, Installed
  <2>6. RacesAreBenign'
    BY <1>10 DEF Fault, Stored, NameTaken, OwnGroup, BootstrapTypeOK, RacesAreBenign, Pkg
  <2>7. WaitingCallersServed'
    BY <1>10 DEF Fault, Stored, NameTaken, OwnGroup, WaitingCallersServed
  <2> QED
    BY <2>1, <2>2, <2>3, <2>4, <2>5, <2>6, <2>7
<1>11. CASE UseAPI(c)
  <2>1. BootstrapTypeOK'
    BY <1>11 DEF UseAPI, BootstrapTypeOK, Places, Creating, Subs, Groups, Names
  <2>2. NoSecondOperator'
    BY <1>11 DEF UseAPI, BootstrapTypeOK, NoSecondOperator, SingleOperators
  <2>3. StageInv'
    BY <1>11 DEF UseAPI, BootstrapTypeOK, StageInv, Pkg, NS, Creating, OwnGroup
  <2>4. CallPhaseInv'
    BY <1>11 DEF UseAPI, CallPhaseInv
  <2>5. ProgressInv'
    BY <1>11 DEF UseAPI, BootstrapTypeOK, ProgressInv, Pkg, Installed
  <2>6. RacesAreBenign'
    BY <1>11 DEF UseAPI, BootstrapTypeOK, RacesAreBenign, Pkg
  <2>7. WaitingCallersServed'
    <3>1. c \in Waiting => \A i \in 1 .. Len(Plan) : Plan[i] \in served
      BY <1>11 DEF UseAPI, BootstrapTypeOK, ProgressInv, Pkg
    <3> QED
      BY <1>11, <3>1 DEF UseAPI, WaitingCallersServed
  <2> QED
    BY <2>1, <2>2, <2>3, <2>4, <2>5, <2>6, <2>7
<1> QED
  BY <1>1, <1>2, <1>3, <1>4, <1>5, <1>6, <1>7, <1>8, <1>9, <1>10, <1>11 DEF Caller

\* A step of OLM preserves the invariant.
LEMMA OLMPreservesInv == BootstrapInv /\ OLM => BootstrapInv'
<1> SUFFICES ASSUME BootstrapInv, OLM PROVE BootstrapInv'
  OBVIOUS
<1> USE PlanFacts DEF BootstrapInv, olmState, calls, callHistory
<1>1. ASSUME NEW s \in subs, Reconcile(s)
      PROVE  BootstrapInv'
  <2>1. PICK phase \in {"installing", "succeeded", "failed"} :
          csvPhase' = [csvPhase EXCEPT ![<<s.pkg, s.ns>>] = phase] /\ reached' = reached \cup {<<s.pkg, phase>>}
    BY <1>1 DEF Reconcile
  <2>2. s.pkg \in Packages /\ s.ns \in Namespaces
    BY DEF BootstrapTypeOK, Subs
  <2>3. BootstrapTypeOK'
    BY <1>1, <2>1, <2>2 DEF Reconcile, BootstrapTypeOK, CSVPhases
  <2>4. NoSecondOperator' /\ StageInv' /\ WaitingCallersServed'
    BY <1>1 DEF Reconcile, NoSecondOperator, StageInv, WaitingCallersServed, Pkg, NS, OwnGroup
  <2>5. CallPhaseInv'
    BY <2>1, <2>2 DEF CallPhaseInv, BootstrapTypeOK
  <2>6. ProgressInv' /\ RacesAreBenign'
    BY <1>1, <2>1 DEF Reconcile, ProgressInv, RacesAreBenign, Installed, Pkg
  <2> QED
    BY <2>3, <2>4, <2>5, <2>6
<1>2. ASSUME NEW p \in Packages, Serve(p)
      PROVE  BootstrapInv'
  <2>1. BootstrapTypeOK' /\ NoSecondOperator' /\ CallPhaseInv' /\ WaitingCallersServed'
    BY <1>2 DEF Serve, BootstrapTypeOK, NoSecondOperator, CallPhaseInv, WaitingCallersServed
  <2>2. StageInv'
    BY <1>2 DEF Serve, StageInv, Pkg, NS, OwnGroup
  <2>3. ProgressInv' /\ RacesAreBenign'
    BY <1>2 DEF Serve, ProgressInv, RacesAreBenign, Installed, Pkg
  <2> QED
    BY <2>1, <2>2, <2>3
<1> QED
  BY <1>1, <1>2 DEF OLM

\* The invariant is inductive.
LEMMA BootstrapInductive == BootstrapInv /\ [BootstrapNext]_bootstrapVars => BootstrapInv'
<1> SUFFICES ASSUME BootstrapInv, [BootstrapNext]_bootstrapVars PROVE BootstrapInv'
  OBVIOUS
<1>1. CASE UNCHANGED bootstrapVars
  BY <1>1 DEF BootstrapInv, bootstrapVars, olmState, calls, callHistory, BootstrapTypeOK, NoSecondOperator, StageInv, CallPhaseInv,
              ProgressInv, RacesAreBenign, WaitingCallersServed, Pkg, NS, OwnGroup, Installed
<1>2. CASE \E c \in Callers : Caller(c)
  BY <1>2, CallerPreservesInv
<1>3. CASE OLM
  BY <1>3, OLMPreservesInv
<1> QED
  BY <1>1, <1>2, <1>3 DEF BootstrapNext, Finished

\* The invariant holds in every reachable state.
LEMMA BootstrapInvariance == BootstrapSpec => []BootstrapInv
BY InitEstablishesInv, BootstrapInductive, PTL DEF BootstrapSpec

\* Every variable keeps its type (cluster_bootstrap.go:75-252).
THEOREM BootstrapTypeCorrect == BootstrapSpec => []BootstrapTypeOK
<1>1. BootstrapInv => BootstrapTypeOK
  BY DEF BootstrapInv
<1> QED
  BY <1>1, BootstrapInvariance, PTL

\* Any number of concurrent bootstraps, each failing anywhere, leave a sound
\* cluster sound: no second subscription of a package, no second OperatorGroup
\* in a namespace (cluster_bootstrap.go:120-236).
THEOREM NoSecondOperatorEver == BootstrapSpec => []NoSecondOperator
<1>1. BootstrapInv => NoSecondOperator
  BY DEF BootstrapInv
<1> QED
  BY <1>1, BootstrapInvariance, PTL

\* Losing a race is never an error (cluster_bootstrap.go:162-173, 232, 248).
THEOREM RacesNeverFail == BootstrapSpec => []RacesAreBenign
<1>1. BootstrapInv => RacesAreBenign
  BY DEF BootstrapInv
<1> QED
  BY <1>1, BootstrapInvariance, PTL

\* A call that returned nil has seen every operator of its plan installed
\* (cluster_bootstrap.go:75-90, 183-213).
THEOREM ReadyAreInstalled == BootstrapSpec => []ReadyMeansInstalled
<1>1. BootstrapInv => ReadyMeansInstalled
  BY PlanFacts DEF BootstrapInv, BootstrapTypeOK, ProgressInv, ReadyMeansInstalled, Pkg
<1> QED
  BY <1>1, BootstrapInvariance, PTL

\* A caller with a discovery client never uses an API that is not served
\* (cluster_bootstrap.go:83-88, 106-116).
THEOREM WaitingCallersAreServed == BootstrapSpec => []WaitingCallersServed
<1>1. BootstrapInv => WaitingCallersServed
  BY DEF BootstrapInv
<1> QED
  BY <1>1, BootstrapInvariance, PTL

\* No step changes or removes an existing subscription
\* (cluster_bootstrap.go:119, 141-147, 161-174).
THEOREM SubscriptionsReused == BootstrapSpec => ReusedUnchanged
<1>1. [BootstrapNext]_bootstrapVars => [subs \subseteq subs']_bootstrapVars
  <2> SUFFICES ASSUME BootstrapNext PROVE subs \subseteq subs'
    OBVIOUS
  <2>1. ASSUME NEW c \in Callers, Caller(c) PROVE subs \subseteq subs'
    BY <2>1 DEF Caller, ListSubscriptions, GetNamespace, CreateNamespace, ListGroups, CreateGroup,
                CreateSubscription, GetExisting, AwaitOperator, AwaitAPI, Fault, UseAPI, Stored,
                olmState
  <2>2. CASE OLM
    BY <2>2 DEF OLM, Reconcile, Serve
  <2>3. CASE Finished
    BY <2>3 DEF Finished, bootstrapVars, olmState
  <2> QED
    BY <2>1, <2>2, <2>3 DEF BootstrapNext
<1> QED
  BY <1>1, PTL DEF BootstrapSpec, ReusedUnchanged
-----------------------------------------------------------------------------
(* The upgrade campaign. *)

\* A Subscription that is not there has no status either.
SubInv == ~sub.there => sub = NoSub

\* While an install that made its Subscription waits, the Subscription has the
\* requested channel and names nothing that channel has not offered.
FreshInv ==
    spec = "install" /\ fresh /\ stage \in {"subscription", "csv"} =>
        /\ sub.channel = Channel
        /\ head(Channel) \in offered
        /\ sub.installed \in offered \union {NoCSV}
        /\ stage = "csv" => name \in offered

\* While a calm uninstall runs, OLM stays idle.
CalmInv ==
    calm /\ stage \in {"delete csvs", "delete subscription"} =>
        /\ Settled
        /\ stage = "delete subscription" => \A v \in CSVs : csv[v] = "absent"

\* The file is what the successful saves have made it, or does not decode.
FileInv ==
    /\ file.whole => file = Contents(saved)
    /\ stage \in {"truncate", "encode"} => existing = saved
    /\ stage = "compare" => file.whole
    /\ Passed("diff") => file.whole /\ DiffPasses(file.pre, file.post)

\* Which specs make which calls.
CallInv ==
    /\ stage \in {"apply"} => spec = "install"
    /\ stage = "update" => spec = "upgrade"
    /\ stage \in {"subscription", "csv"} => spec \in {"install", "upgrade"}
    /\ stage \in {"get", "delete csvs", "delete subscription"} => spec = "uninstall"
    /\ stage \in {"fetch", "decode", "truncate", "encode"} => spec \in {"save", "diff"}
    /\ stage = "compare" => spec = "diff"
    /\ stage \in {"found", "bounds"} => spec = "versions"

-----------------------------------------------------------------------------

\* The heads of the channels the tests use are known.
LEMMA CatalogHeads ==
    ASSUME NEW cat \in Catalogs, NEW c \in {Latest, Channel, UpgradeChannel}
    PROVE  cat[c].head \in Heads
<1>1. c \in DOMAIN cat
  BY ChannelsAssumption
<1> QED BY <1>1 DEF Heads

LEMMA HeadsKnown ==
    ASSUME TypeOK, NEW c \in {Latest, Channel, UpgradeChannel}
    PROVE  head(c) \in Heads /\ head(c) \in CSVs
<1>1. catalog \in Catalogs
  BY DEF TypeOK, EnvironmentOK, Catalogs
<1> QED BY <1>1, CatalogHeads DEF head, CSVs

\* What is fetched is a value of skipRangeMap.
LEMMA FetchedKnown == ASSUME TypeOK PROVE Fetched(catalog) \in Maps
BY DEF TypeOK, EnvironmentOK, Catalogs, Maps

\* The calls of a spec are calls.
LEMMA FirstCallsKnown ==
    ASSUME NEW k \in Kinds
    PROVE  /\ FirstCall(k) \in {"apply", "update", "fetch", "found", "get"}
           /\ FirstCall(k) = "apply" => k = "install"
           /\ FirstCall(k) = "update" => k = "upgrade"
           /\ FirstCall(k) = "fetch" => k \in {"save", "diff"}
           /\ FirstCall(k) = "found" => k = "versions"
           /\ FirstCall(k) = "get" => k = "uninstall"
BY DEF FirstCall, Kinds

\* The spec at a position of the campaign is one of the suites'.
LEMMA SpecsKnown ==
    ASSUME env \in Environments, NEW i \in DOMAIN env.campaign
    PROVE  env.campaign[i] \in Kinds
<1>1. env.campaign \in Seq(Kinds)
  BY CampaignAssumption
<1> QED BY <1>1

\* A step that leaves the environment, the cluster, the maps, the history or the
\* counters alone leaves their types alone.
LEMMA QuietTypes ==
    ASSUME TypeOK
    PROVE  /\ UNCHANGED <<env, catalog, at>> => EnvironmentOK'
           /\ UNCHANGED <<sub, csv, plans>> => ClusterOK'
           /\ UNCHANGED <<file, saved, existing, ranges>> => FileOK'
           /\ UNCHANGED <<offered, fresh, calm>> => HistoryOK'
           /\ UNCHANGED <<specs, releases, faults>> => CountersOK'
<1>1. UNCHANGED <<env, catalog, at>> => EnvironmentOK'
  BY DEF TypeOK, EnvironmentOK
<1>2. UNCHANGED <<sub, csv, plans>> => ClusterOK'
  BY DEF TypeOK, ClusterOK
<1>3. UNCHANGED <<file, saved, existing, ranges>> => FileOK'
  BY DEF TypeOK, FileOK
<1>4. UNCHANGED <<offered, fresh, calm>> => HistoryOK'
  BY DEF TypeOK, HistoryOK
<1>5. UNCHANGED <<specs, releases, faults>> => CountersOK'
  BY DEF TypeOK, CountersOK
<1> QED BY <1>1, <1>2, <1>3, <1>4, <1>5

\* One more failure, or one more release, is within the bounds.
LEMMA OneMore ==
    ASSUME CountersOK, UNCHANGED specs,
           UNCHANGED faults \/ (faults < MaxFaults /\ faults' = faults + 1),
           UNCHANGED releases \/ (releases < MaxReleases /\ releases' = releases + 1)
    PROVE  CountersOK'
<1>1. faults' \in 0..MaxFaults
  BY BoundsAssumption DEF CountersOK
<1>2. releases' \in 0..MaxReleases
  BY BoundsAssumption DEF CountersOK
<1> QED BY <1>1, <1>2 DEF CountersOK

\* Every step keeps the types.
LEMMA NextPreservesTypes == TypeOK /\ [Next]_vars => TypeOK'
<1> SUFFICES ASSUME TypeOK, [Next]_vars PROVE TypeOK'
  OBVIOUS
<1> USE BoundsAssumption DEF SpecOK, Stages, cluster, history, counters, locals
<1>0. SpecOK /\ CountersOK /\ ClusterOK /\ HistoryOK /\ FileOK
  BY DEF TypeOK
<1>1. ASSUME NEW i \in DOMAIN env.campaign, StartSpec(i) PROVE TypeOK'
  <2>1. FirstCall(env.campaign[i]) \in {"apply", "update", "fetch", "found", "get"}
    BY SpecsKnown, FirstCallsKnown DEF TypeOK, EnvironmentOK
  <2>2. NoRanges \in Maps /\ Empty \in [pre : Maps, post : Maps]
    BY DEF Maps, Empty
  <2>3. SpecOK'
    BY <1>1, <2>1 DEF StartSpec
  <2>4. FileOK'
    BY <1>0, <1>1, <2>2 DEF StartSpec, FileOK
  <2>5. EnvironmentOK'
    BY <1>1 DEF StartSpec, TypeOK, EnvironmentOK
  <2>6. CountersOK'
    BY <1>0, <1>1 DEF StartSpec, CountersOK
  <2>7. UNCHANGED <<sub, csv, plans>> /\ UNCHANGED <<offered, fresh, calm>>
    BY <1>1 DEF StartSpec
  <2> QED BY <2>3, <2>4, <2>5, <2>6, <2>7, QuietTypes DEF TypeOK
<1>2. CASE EndCampaign
  <2>1. SpecOK'
    BY <1>0, <1>2 DEF EndCampaign
  <2>2. UNCHANGED <<env, catalog, at>> /\ UNCHANGED <<sub, csv, plans>> /\ UNCHANGED <<file, saved, existing, ranges>> /\ UNCHANGED <<offered, fresh, calm>> /\ UNCHANGED <<specs, releases, faults>>
    BY <1>2 DEF EndCampaign
  <2> QED BY <2>1, <2>2, QuietTypes DEF TypeOK
<1>3. CASE FailSpec
  <2>1. SpecOK'
    BY <1>0, <1>3 DEF FailSpec
  <2>2. CountersOK'
    <3>1. /\ UNCHANGED <<specs, releases>>
          /\ UNCHANGED faults \/ (faults < MaxFaults /\ faults' = faults + 1)
      BY <1>3 DEF FailSpec
    <3> QED BY <1>0, <3>1, OneMore
  <2>3. UNCHANGED <<env, catalog, at>> /\ UNCHANGED <<sub, csv, plans>> /\ UNCHANGED <<file, saved, existing, ranges>> /\ UNCHANGED <<offered, fresh, calm>>
    BY <1>3 DEF FailSpec
  <2> QED BY <2>1, <2>2, <2>3, QuietTypes DEF TypeOK
<1>4. CASE createSubscription
  <2>1. SpecOK'
    BY <1>0, <1>4 DEF createSubscription, End
  <2>2. CountersOK'
    BY <1>0, <1>4 DEF createSubscription, CountersOK
  <2>3. ClusterOK'
    BY <1>0, <1>4 DEF createSubscription, Applied, ClusterOK
  <2>4. HistoryOK'
    BY <1>0, <1>4, HeadsKnown DEF createSubscription, ClusterOK, HistoryOK
  <2>5. UNCHANGED <<env, catalog, at>> /\ UNCHANGED <<file, saved, existing, ranges>>
    BY <1>4 DEF createSubscription
  <2> QED BY <2>1, <2>2, <2>3, <2>4, <2>5, QuietTypes DEF TypeOK
<1>5. CASE UpdateSubscription
  <2>1. SpecOK'
    BY <1>0, <1>5 DEF UpdateSubscription, End
  <2>2. CountersOK'
    BY <1>0, <1>5 DEF UpdateSubscription, CountersOK
  <2>3. ClusterOK'
    BY <1>0, <1>5 DEF UpdateSubscription, ClusterOK
  <2>4. HistoryOK'
    BY <1>0, <1>5, HeadsKnown DEF UpdateSubscription, HistoryOK
  <2>5. UNCHANGED <<env, catalog, at>> /\ UNCHANGED <<file, saved, existing, ranges>>
    BY <1>5 DEF UpdateSubscription
  <2> QED BY <2>1, <2>2, <2>3, <2>4, <2>5, QuietTypes DEF TypeOK
<1>6. CASE WaitForSubscriptionState
  <2>1. SpecOK'
    BY <1>0, <1>6 DEF WaitForSubscriptionState, IsSubscriptionInstalledCSVPresent, ClusterOK, End
  <2>2. UNCHANGED <<env, catalog, at>> /\ UNCHANGED <<sub, csv, plans>> /\ UNCHANGED <<file, saved, existing, ranges>> /\ UNCHANGED <<offered, fresh, calm>> /\ UNCHANGED <<specs, releases, faults>>
    BY <1>6 DEF WaitForSubscriptionState
  <2> QED BY <2>1, <2>2, QuietTypes DEF TypeOK
<1>7. CASE WaitForClusterServiceVersionState
  <2>1. SpecOK'
    BY <1>0, <1>7 DEF WaitForClusterServiceVersionState, End
  <2>2. UNCHANGED <<env, catalog, at>> /\ UNCHANGED <<sub, csv, plans>> /\ UNCHANGED <<file, saved, existing, ranges>> /\ UNCHANGED <<offered, fresh, calm>> /\ UNCHANGED <<specs, releases, faults>>
    BY <1>7 DEF WaitForClusterServiceVersionState
  <2> QED BY <2>1, <2>2, QuietTypes DEF TypeOK
<1>8. CASE GetSubscription
  <2>1. SpecOK'
    BY <1>0, <1>8 DEF GetSubscription, End
  <2>2. HistoryOK'
    BY <1>0, <1>8 DEF GetSubscription, Settled, HistoryOK
  <2>3. UNCHANGED <<env, catalog, at>> /\ UNCHANGED <<sub, csv, plans>> /\ UNCHANGED <<file, saved, existing, ranges>> /\ UNCHANGED <<specs, releases, faults>>
    BY <1>8 DEF GetSubscription
  <2> QED BY <2>1, <2>2, <2>3, QuietTypes DEF TypeOK
<1>9. CASE DeleteCSVs
  <2>1. SpecOK'
    BY <1>0, <1>9 DEF DeleteCSVs, End
  <2>2. CountersOK'
    <3>1. /\ UNCHANGED <<specs, releases>>
          /\ UNCHANGED faults \/ (faults < MaxFaults /\ faults' = faults + 1)
      BY <1>9 DEF DeleteCSVs
    <3> QED BY <1>0, <3>1, OneMore
  <2>3. ClusterOK'
    BY <1>0, <1>9 DEF DeleteCSVs, Phases, ClusterOK
  <2>4. UNCHANGED <<env, catalog, at>> /\ UNCHANGED <<file, saved, existing, ranges>> /\ UNCHANGED <<offered, fresh, calm>>
    BY <1>9 DEF DeleteCSVs
  <2> QED BY <2>1, <2>2, <2>3, <2>4, QuietTypes DEF TypeOK
<1>10. CASE DeleteSubscription
  <2>1. SpecOK'
    BY <1>0, <1>10 DEF DeleteSubscription, End
  <2>2. CountersOK'
    <3>1. /\ UNCHANGED <<specs, releases>>
          /\ UNCHANGED faults \/ (faults < MaxFaults /\ faults' = faults + 1)
      BY <1>10 DEF DeleteSubscription
    <3> QED BY <1>0, <3>1, OneMore
  <2>3. ClusterOK'
    BY <1>0, <1>10 DEF DeleteSubscription, NoSub, ClusterOK
  <2>4. UNCHANGED <<env, catalog, at>> /\ UNCHANGED <<file, saved, existing, ranges>> /\ UNCHANGED <<offered, fresh, calm>>
    BY <1>10 DEF DeleteSubscription
  <2> QED BY <2>1, <2>2, <2>3, <2>4, QuietTypes DEF TypeOK
<1>11. CASE FetchOlmSkipRange
  <2>1. SpecOK'
    BY <1>0, <1>11 DEF FetchOlmSkipRange, End
  <2>2. FileOK'
    BY <1>0, <1>11, FetchedKnown DEF FetchOlmSkipRange, FileOK
  <2>3. UNCHANGED <<env, catalog, at>> /\ UNCHANGED <<sub, csv, plans>> /\ UNCHANGED <<offered, fresh, calm>> /\ UNCHANGED <<specs, releases, faults>>
    BY <1>11 DEF FetchOlmSkipRange
  <2> QED BY <2>1, <2>2, <2>3, QuietTypes DEF TypeOK
<1>12. CASE DecodeFile
  <2>1. SpecOK'
    BY <1>0, <1>12 DEF DecodeFile, End
  <2>2. FileOK'
    BY <1>0, <1>12 DEF DecodeFile, FileOK
  <2>3. UNCHANGED <<env, catalog, at>> /\ UNCHANGED <<sub, csv, plans>> /\ UNCHANGED <<offered, fresh, calm>> /\ UNCHANGED <<specs, releases, faults>>
    BY <1>12 DEF DecodeFile
  <2> QED BY <2>1, <2>2, <2>3, QuietTypes DEF TypeOK
<1>13. CASE TruncateFile
  <2>1. SpecOK'
    BY <1>0, <1>13 DEF TruncateFile
  <2>2. FileOK'
    BY <1>0, <1>13 DEF TruncateFile, Truncated, Maps, FileOK
  <2>3. UNCHANGED <<env, catalog, at>> /\ UNCHANGED <<sub, csv, plans>> /\ UNCHANGED <<offered, fresh, calm>> /\ UNCHANGED <<specs, releases, faults>>
    BY <1>13 DEF TruncateFile
  <2> QED BY <2>1, <2>2, <2>3, QuietTypes DEF TypeOK
<1>14. CASE EncodeFile
  <2>1. SpecOK'
    BY <1>0, <1>14 DEF EncodeFile, End
  <2>2. FileOK'
    BY <1>0, <1>14 DEF EncodeFile, Put, Contents, FileOK
  <2>3. UNCHANGED <<env, catalog, at>> /\ UNCHANGED <<sub, csv, plans>> /\ UNCHANGED <<offered, fresh, calm>> /\ UNCHANGED <<specs, releases, faults>>
    BY <1>14 DEF EncodeFile
  <2> QED BY <2>1, <2>2, <2>3, QuietTypes DEF TypeOK
<1>15. CASE ValidateOlmSkipRangeDiff
  <2>1. SpecOK'
    BY <1>0, <1>15 DEF ValidateOlmSkipRangeDiff, End
  <2>2. UNCHANGED <<env, catalog, at>> /\ UNCHANGED <<sub, csv, plans>> /\ UNCHANGED <<file, saved, existing, ranges>> /\ UNCHANGED <<offered, fresh, calm>> /\ UNCHANGED <<specs, releases, faults>>
    BY <1>15 DEF ValidateOlmSkipRangeDiff
  <2> QED BY <2>1, <2>2, QuietTypes DEF TypeOK
<1>16. CASE ValidateOlmSkipRange
  <2>1. SpecOK'
    BY <1>0, <1>16 DEF ValidateOlmSkipRange
  <2>2. FileOK'
    BY <1>0, <1>16, FetchedKnown DEF ValidateOlmSkipRange, FileOK
  <2>3. UNCHANGED <<env, catalog, at>> /\ UNCHANGED <<sub, csv, plans>> /\ UNCHANGED <<offered, fresh, calm>> /\ UNCHANGED <<specs, releases, faults>>
    BY <1>16 DEF ValidateOlmSkipRange
  <2> QED BY <2>1, <2>2, <2>3, QuietTypes DEF TypeOK
<1>17. CASE ValidateChannelSkipRangeBounds
  <2>1. SpecOK'
    BY <1>0, <1>17 DEF ValidateChannelSkipRangeBounds, End
  <2>2. FileOK'
    BY <1>0, <1>17, FetchedKnown DEF ValidateChannelSkipRangeBounds, FileOK
  <2>3. UNCHANGED <<env, catalog, at>> /\ UNCHANGED <<sub, csv, plans>> /\ UNCHANGED <<offered, fresh, calm>> /\ UNCHANGED <<specs, releases, faults>>
    BY <1>17 DEF ValidateChannelSkipRangeBounds
  <2> QED BY <2>1, <2>2, <2>3, QuietTypes DEF TypeOK
<1>18. ASSUME NEW cat \in env.catalogs, Release(cat) PROVE TypeOK'
  <2>1. cat \in Catalogs
    BY DEF Catalogs, TypeOK, EnvironmentOK
  <2>2. cat[Channel].head \in Heads /\ cat[UpgradeChannel].head \in Heads
    BY <2>1, CatalogHeads
  <2>3. EnvironmentOK'
    BY <1>18 DEF Release, TypeOK, EnvironmentOK
  <2>4. HistoryOK'
    BY <1>0, <1>18, <2>2 DEF Release, HistoryOK
  <2>5. CountersOK' /\ SpecOK'
    <3>1. UNCHANGED <<specs, faults, stage, outcome, name>>
      BY <1>18 DEF Release
    <3>2. releases < MaxReleases /\ releases' = releases + 1
      BY <1>18 DEF Release
    <3>3. CountersOK'
      BY <1>0, <3>1, <3>2, OneMore
    <3> QED BY <1>0, <3>1, <3>3
  <2>6. UNCHANGED <<sub, csv, plans>> /\ UNCHANGED <<file, saved, existing, ranges>>
    BY <1>18 DEF Release
  <2> QED BY <2>3, <2>4, <2>5, <2>6, QuietTypes DEF TypeOK
<1>19. ASSUME OLMStep, ClusterOK' PROVE TypeOK'
  <2>1. SpecOK'
    BY <1>0, <1>19 DEF OLMStep
  <2>2. /\ UNCHANGED <<env, catalog, at>> /\ UNCHANGED <<file, saved, existing, ranges>>
        /\ UNCHANGED <<offered, fresh, calm>> /\ UNCHANGED <<specs, releases, faults>>
    BY <1>19 DEF OLMStep
  <2> QED BY <1>19, <2>1, <2>2, QuietTypes DEF TypeOK
<1>20. CASE OLMInstalls
  <2>1. head(sub.channel) \in Heads
    BY <1>0, HeadsKnown DEF ClusterOK
  <2> QED BY <1>0, <1>19, <1>20, <2>1 DEF OLMInstalls, Phases, ClusterOK
<1>21. CASE OLMNames
  <2>1. head(sub.channel) \in Heads
    BY <1>0, HeadsKnown DEF ClusterOK
  <2> QED BY <1>0, <1>19, <1>21, <2>1 DEF OLMNames, ClusterOK
<1>24. CASE CollectGarbage
  BY <1>0, <1>19, <1>24 DEF CollectGarbage, ClusterOK
<1>22. ASSUME NEW v \in CSVs, OLMReplaces(v) \/ \E p \in Phases : OLMReports(v, p) PROVE TypeOK'
  BY <1>0, <1>19, <1>22 DEF OLMReplaces, OLMReports, Phases, ClusterOK
<1>23. CASE UNCHANGED vars
  <2>1. SpecOK'
    BY <1>0, <1>23 DEF vars
  <2>2. /\ UNCHANGED <<env, catalog, at>> /\ UNCHANGED <<file, saved, existing, ranges>>
        /\ UNCHANGED <<offered, fresh, calm>> /\ UNCHANGED <<specs, releases, faults>>
        /\ UNCHANGED <<sub, csv, plans>>
    BY <1>23 DEF vars
  <2> QED BY <2>1, <2>2, QuietTypes DEF TypeOK
<1> QED BY <1>1, <1>2, <1>3, <1>4, <1>5, <1>6, <1>7, <1>8, <1>9, <1>10, <1>11, <1>12, <1>13,
           <1>14, <1>15, <1>16, <1>17, <1>18, <1>20, <1>21, <1>22, <1>23, <1>24
        DEF Next, TestStep, Over

-----------------------------------------------------------------------------

\* What an unchanged environment, catalog and Subscription leave unchanged.
LEMMA Same ==
    /\ UNCHANGED <<env, at>> => UNCHANGED spec
    /\ UNCHANGED catalog => head(Channel)' = head(Channel)
    /\ UNCHANGED <<catalog, sub>> => (Settled' <=> Settled)
<1>1. UNCHANGED <<env, at>> => UNCHANGED spec
  BY DEF spec
<1>2. UNCHANGED catalog => head(Channel)' = head(Channel)
  BY DEF head
<1>3. UNCHANGED <<catalog, sub>> => (Settled' <=> Settled)
  BY DEF Settled, head
<1> QED BY <1>1, <1>2, <1>3

FileCall ==
    \/ FetchOlmSkipRange \/ DecodeFile \/ TruncateFile \/ EncodeFile
    \/ ValidateOlmSkipRangeDiff \/ ValidateOlmSkipRange \/ ValidateChannelSkipRangeBounds

\* The calls that read the catalog leave the cluster and its history alone.
LEMMA FileCalls ==
    ASSUME FileCall
    PROVE  /\ UNCHANGED <<catalog, env, at, sub, csv, plans, name, offered, fresh, calm>>
           /\ stage \in {"fetch", "decode", "truncate", "encode", "compare", "found", "bounds"}
           /\ stage' \in {"idle", "decode", "truncate", "encode", "compare", "bounds"}
<1> USE DEF cluster, history, counters, locals, End
<1>1. CASE FetchOlmSkipRange
  BY <1>1 DEF FetchOlmSkipRange
<1>2. CASE DecodeFile \/ TruncateFile \/ EncodeFile
  BY <1>2 DEF DecodeFile, TruncateFile, EncodeFile
<1>3. CASE ValidateOlmSkipRangeDiff
  BY <1>3 DEF ValidateOlmSkipRangeDiff
<1>4. CASE ValidateOlmSkipRange \/ ValidateChannelSkipRangeBounds
  BY <1>4 DEF ValidateOlmSkipRange, ValidateChannelSkipRangeBounds
<1> QED BY <1>1, <1>2, <1>3, <1>4 DEF FileCall

\* OLM, and whoever publishes catalogs, leave the test alone.
LEMMA OLMSteps ==
    ASSUME NEW v \in CSVs,
           \/ OLMInstalls \/ OLMNames \/ CollectGarbage \/ OLMReplaces(v)
           \/ \E p \in Phases : OLMReports(v, p)
    PROVE  /\ UNCHANGED <<catalog, env, at, stage, outcome, file, existing, saved, name,
                          offered, fresh, calm>>
           /\ UNCHANGED sub \/ OLMNames
BY DEF OLMInstalls, OLMNames, CollectGarbage, OLMReplaces, OLMReports, OLMStep, history, counters, locals

\* Every call is made by a spec that makes it.
LEMMA NextPreservesCalls == TypeOK /\ CallInv /\ [Next]_vars => CallInv'
<1> SUFFICES ASSUME TypeOK, CallInv, [Next]_vars PROVE CallInv'
  OBVIOUS
<1> USE DEF CallInv
<1>1. ASSUME NEW i \in DOMAIN env.campaign, StartSpec(i) PROVE CallInv'
  <2>1. env.campaign[i] \in Kinds
    BY SpecsKnown DEF TypeOK, EnvironmentOK
  <2>2. spec' = env.campaign[i] /\ stage' = FirstCall(env.campaign[i])
    BY <1>1 DEF StartSpec, spec
  <2> QED BY <2>1, <2>2, FirstCallsKnown
<1>2. CASE EndCampaign \/ FailSpec
  BY <1>2, Same DEF EndCampaign, FailSpec
<1>3. CASE createSubscription \/ UpdateSubscription
  BY <1>3, Same DEF createSubscription, UpdateSubscription, End
<1>4. CASE WaitForSubscriptionState \/ WaitForClusterServiceVersionState
  BY <1>4, Same DEF WaitForSubscriptionState, WaitForClusterServiceVersionState, End
<1>5. CASE GetSubscription \/ DeleteCSVs \/ DeleteSubscription
  BY <1>5, Same DEF GetSubscription, DeleteCSVs, DeleteSubscription, End
<1>6. CASE FetchOlmSkipRange \/ DecodeFile \/ TruncateFile
  BY <1>6, Same DEF FetchOlmSkipRange, DecodeFile, TruncateFile, End
<1>7. CASE EncodeFile \/ ValidateOlmSkipRangeDiff
  BY <1>7, Same DEF EncodeFile, ValidateOlmSkipRangeDiff, End
<1>8. CASE ValidateOlmSkipRange \/ ValidateChannelSkipRangeBounds
  BY <1>8, Same DEF ValidateOlmSkipRange, ValidateChannelSkipRangeBounds, End
<1>9. ASSUME NEW cat \in env.catalogs, Release(cat) PROVE CallInv'
  BY <1>9, Same DEF Release
<1>10. ASSUME NEW v \in CSVs,
              \/ OLMInstalls \/ OLMNames \/ CollectGarbage \/ OLMReplaces(v)
              \/ \E p \in Phases : OLMReports(v, p)
       PROVE  CallInv'
  BY <1>10, OLMSteps, Same
<1>11. CASE UNCHANGED vars
  BY <1>11, Same DEF vars
<1>12. Other \in CSVs
  BY DEF CSVs
<1> QED BY <1>1, <1>2, <1>3, <1>4, <1>5, <1>6, <1>7, <1>8, <1>9, <1>10, <1>11, <1>12
        DEF Next, TestStep, Over

-----------------------------------------------------------------------------
(* Install. *)

InstallInv == SubInv /\ FreshInv /\ FreshInstallIsCurrent

\* A step outside the two waits of an install keeps it if it leaves the
\* Subscription alone and does not end an install.
LEMMA QuietInstall ==
    ASSUME InstallInv, UNCHANGED sub, stage' \notin {"subscription", "csv"},
           Passed("install")' => FALSE
    PROVE  InstallInv'
BY DEF InstallInv, SubInv, FreshInv, FreshInstallIsCurrent

\* Every step keeps what an install relies on.
LEMMA NextPreservesInstall ==
    TypeOK /\ CallInv /\ InstallInv /\ [Next]_vars => InstallInv'
<1> SUFFICES ASSUME TypeOK, CallInv, InstallInv, [Next]_vars PROVE InstallInv'
  OBVIOUS
<1> USE DEF cluster, history, counters, locals, Passed
<1>0. ClusterOK /\ SubInv /\ FreshInv /\ FreshInstallIsCurrent
  BY DEF TypeOK, InstallInv
<1>1. ASSUME NEW i \in DOMAIN env.campaign, StartSpec(i) PROVE InstallInv'
  <2>1. FirstCall(env.campaign[i]) \in {"apply", "update", "fetch", "found", "get"}
    BY SpecsKnown, FirstCallsKnown DEF TypeOK, EnvironmentOK
  <2> QED BY <1>1, <2>1, QuietInstall DEF StartSpec
<1>2. CASE EndCampaign \/ FailSpec
  BY <1>2, QuietInstall DEF EndCampaign, FailSpec
<1>3. CASE createSubscription
  <2>1. /\ sub' = Applied(Channel) /\ fresh' = ~sub.there
        /\ offered' = {head(Channel)} /\ UNCHANGED catalog
        /\ stage' = "subscription" \/ (stage' = "idle" /\ outcome' = "fail")
    BY <1>3 DEF createSubscription, End
  <2>2. sub'.there /\ sub'.channel = Channel /\ sub'.installed = sub.installed
    BY <1>0, <2>1 DEF Applied, ClusterOK
  <2>3. fresh' => sub.installed = NoCSV
    <3>1. ~sub.there => sub.installed = NoCSV
      <4> SUFFICES ASSUME ~sub.there PROVE sub.installed = NoCSV
        OBVIOUS
      <4>1. sub = NoSub
        BY <1>0 DEF SubInv
      <4> QED BY <4>1 DEF NoSub
    <3>2. fresh' => ~sub.there
      BY <2>1
    <3> QED BY <3>1, <3>2
  <2> QED BY <2>1, <2>2, <2>3, Same DEF InstallInv, SubInv, FreshInv, FreshInstallIsCurrent
<1>4. CASE UpdateSubscription
  <2>1. CASE sub.there
    <3>1. /\ sub' = [sub EXCEPT !.channel = UpgradeChannel] /\ fresh' = FALSE
      BY <1>4, <2>1 DEF UpdateSubscription
    <3>2. sub'.there
      BY <1>0, <2>1, <3>1 DEF ClusterOK
    <3> QED BY <3>1, <3>2 DEF InstallInv, SubInv, FreshInv, FreshInstallIsCurrent
  <2>2. CASE ~sub.there
    BY <1>4, <2>2, QuietInstall DEF UpdateSubscription, End
  <2> QED BY <2>1, <2>2
<1>5. CASE WaitForSubscriptionState
  <2>1. UNCHANGED <<sub, offered, fresh, catalog, env, at>> /\ stage = "subscription"
    BY <1>5 DEF WaitForSubscriptionState
  <2>2. \/ stage' = "csv" /\ name' = sub.installed /\ sub.installed # NoCSV
        \/ stage' = "idle" /\ outcome' = "fail"
    BY <1>5 DEF WaitForSubscriptionState, IsSubscriptionInstalledCSVPresent, End
  <2> QED BY <1>0, <2>1, <2>2, Same DEF InstallInv, SubInv, FreshInv, FreshInstallIsCurrent
<1>6. CASE WaitForClusterServiceVersionState
  <2>1. /\ UNCHANGED <<sub, offered, fresh, name, env, at>>
        /\ stage = "csv" /\ stage' = "idle"
    BY <1>6 DEF WaitForClusterServiceVersionState, End
  <2> QED BY <1>0, <2>1, Same DEF InstallInv, SubInv, FreshInv, FreshInstallIsCurrent
<1>7. CASE GetSubscription \/ DeleteCSVs
  <2>1. /\ UNCHANGED <<sub, env, at>> /\ stage \in {"get", "delete csvs"}
        /\ stage' \notin {"subscription", "csv"}
    BY <1>7 DEF GetSubscription, DeleteCSVs, End
  <2> QED BY <2>1, QuietInstall, Same DEF CallInv
<1>8. CASE DeleteSubscription
  <2>1. /\ sub' = NoSub /\ UNCHANGED <<env, at>> /\ stage = "delete subscription"
        /\ stage' = "idle"
    BY <1>8 DEF DeleteSubscription, End
  <2> QED BY <2>1, Same DEF CallInv, InstallInv, SubInv, FreshInv, FreshInstallIsCurrent
<1>9. CASE FileCall
  BY <1>9, FileCalls, QuietInstall, Same DEF CallInv
<1>10. ASSUME NEW cat \in env.catalogs, Release(cat) PROVE InstallInv'
  <2>1. /\ catalog' = cat /\ UNCHANGED <<sub, env, at, stage, outcome, name, fresh>>
        /\ offered \subseteq offered'
        /\ spec = "install" => cat[Channel].head \in offered'
    BY <1>10 DEF Release
  <2>2. head(Channel)' = cat[Channel].head
    BY <2>1 DEF head
  <2> QED BY <1>0, <2>1, <2>2, Same DEF InstallInv, SubInv, FreshInv, FreshInstallIsCurrent
<1>11. ASSUME NEW v \in CSVs,
              \/ OLMInstalls \/ OLMNames \/ CollectGarbage \/ OLMReplaces(v)
              \/ \E p \in Phases : OLMReports(v, p)
       PROVE  InstallInv'
  <2>1. /\ UNCHANGED <<catalog, env, at, stage, outcome, name, offered, fresh>>
        /\ UNCHANGED sub \/ OLMNames
    BY <1>11, OLMSteps
  <2>2. CASE UNCHANGED sub
    BY <1>0, <2>1, <2>2, Same DEF InstallInv, SubInv, FreshInv, FreshInstallIsCurrent
  <2>3. CASE OLMNames
    <3>1. sub.there /\ sub' = [sub EXCEPT !.installed = head(sub.channel)]
      BY <2>3 DEF OLMNames
    <3>2. sub'.there /\ sub'.channel = sub.channel /\ sub'.installed = head(sub.channel)
      BY <1>0, <3>1 DEF ClusterOK
    <3> QED BY <1>0, <2>1, <3>2, Same DEF InstallInv, SubInv, FreshInv, FreshInstallIsCurrent
  <2> QED BY <2>1, <2>2, <2>3
<1>12. CASE UNCHANGED vars
  <2>1. UNCHANGED <<catalog, env, at, sub, stage, outcome, name, offered, fresh>>
    BY <1>12 DEF vars
  <2> QED BY <1>0, <2>1, Same DEF InstallInv, SubInv, FreshInv, FreshInstallIsCurrent
<1>13. Other \in CSVs
  BY DEF CSVs
<1> QED BY <1>1, <1>2, <1>3, <1>4, <1>5, <1>6, <1>7, <1>8, <1>9, <1>10, <1>11, <1>12, <1>13
        DEF Next, TestStep, FileCall, Over

-----------------------------------------------------------------------------
(* Uninstall. *)

UninstallInv == CalmInv /\ UninstallComplete

\* A step outside an uninstall keeps it.
LEMMA QuietUninstall ==
    ASSUME stage' \notin {"delete csvs", "delete subscription"},
           Passed("uninstall")' => FALSE
    PROVE  UninstallInv'
BY DEF UninstallInv, CalmInv, UninstallComplete

\* So does one that leaves alone all it is about.
LEMMA SameUninstall ==
    ASSUME UninstallInv,
           UNCHANGED <<catalog, env, at, stage, outcome, calm, sub, csv, plans>>
    PROVE  UninstallInv'
<1>1. UNCHANGED spec /\ (Settled' <=> Settled)
  BY Same
<1>2. Passed("uninstall")' <=> Passed("uninstall")
  BY <1>1 DEF Passed
<1> QED BY <1>1, <1>2 DEF UninstallInv, CalmInv, UninstallComplete

\* Every step keeps what an uninstall relies on: once it has begun with nothing
\* left for OLM to do, OLM has nothing to do until it is through.
LEMMA NextPreservesUninstall ==
    TypeOK /\ CallInv /\ UninstallInv /\ [Next]_vars => UninstallInv'
<1> SUFFICES ASSUME TypeOK, CallInv, UninstallInv, [Next]_vars PROVE UninstallInv'
  OBVIOUS
<1> USE DEF cluster, history, counters, locals
<1>0. ClusterOK
  BY DEF TypeOK
<1>1. ASSUME NEW i \in DOMAIN env.campaign, StartSpec(i) PROVE UninstallInv'
  <2>1. FirstCall(env.campaign[i]) \in {"apply", "update", "fetch", "found", "get"}
    BY SpecsKnown, FirstCallsKnown DEF TypeOK, EnvironmentOK
  <2> QED BY <1>1, <2>1, QuietUninstall DEF StartSpec, Passed
<1>2. CASE EndCampaign \/ FailSpec
  BY <1>2, QuietUninstall DEF EndCampaign, FailSpec, Passed
<1>3. CASE createSubscription \/ UpdateSubscription
  BY <1>3, QuietUninstall DEF createSubscription, UpdateSubscription, End, Passed
<1>4. CASE WaitForSubscriptionState
  BY <1>4, QuietUninstall DEF WaitForSubscriptionState, End, Passed
<1>5. CASE WaitForClusterServiceVersionState
  <2>1. UNCHANGED spec /\ spec # "uninstall" /\ stage' = "idle"
    BY <1>5, Same DEF WaitForClusterServiceVersionState, CallInv, End
  <2> QED BY <2>1, QuietUninstall DEF Passed
<1>6. CASE GetSubscription
  <2>1. /\ calm' = Settled /\ UNCHANGED <<catalog, sub>>
        /\ stage' = "delete csvs" \/ (stage' = "idle" /\ outcome' = "fail")
    BY <1>6 DEF GetSubscription, End
  <2>2. Settled' <=> Settled
    BY <2>1, Same
  <2> QED BY <2>1, <2>2 DEF UninstallInv, CalmInv, UninstallComplete, Passed
<1>7. CASE DeleteCSVs
  <2>1. /\ stage = "delete csvs" /\ UNCHANGED <<catalog, sub, calm>>
        /\ stage' = "delete subscription" \/ (stage' = "idle" /\ outcome' = "fail")
    BY <1>7 DEF DeleteCSVs, End
  <2>2. \A v \in CSVs : csv'[v] = "absent"
    BY <1>7 DEF DeleteCSVs, Collected
  <2>3. Settled' <=> Settled
    BY <2>1, Same
  <2> QED BY <2>1, <2>2, <2>3 DEF UninstallInv, CalmInv, UninstallComplete, Passed
<1>8. CASE DeleteSubscription
  <2>1. /\ stage = "delete subscription" /\ stage' = "idle"
        /\ UNCHANGED <<csv, calm>> /\ ~sub'.there /\ plans'.owned = {}
    BY <1>8 DEF DeleteSubscription, End, NoSub
  <2>2. Heads \subseteq CSVs
    BY DEF CSVs
  <2> QED BY <2>1, <2>2 DEF UninstallInv, CalmInv, UninstallComplete
<1>9. CASE FileCall
  <2>1. UNCHANGED spec /\ spec # "uninstall"
    BY <1>9, FileCalls, Same DEF CallInv
  <2>2. stage' \notin {"delete csvs", "delete subscription"}
    BY <1>9, FileCalls
  <2> QED BY <2>1, <2>2, QuietUninstall DEF Passed
<1>10. ASSUME NEW cat \in env.catalogs, Release(cat) PROVE UninstallInv'
  BY <1>10 DEF Release, UninstallInv, CalmInv, UninstallComplete
<1>11. ASSUME NEW v \in CSVs,
              \/ OLMInstalls \/ OLMNames \/ CollectGarbage \/ OLMReplaces(v)
              \/ \E p \in Phases : OLMReports(v, p)
       PROVE  UninstallInv'
  <2>1. UNCHANGED <<catalog, env, at, stage, outcome, calm>>
    BY <1>11, OLMSteps
  <2>2. UNCHANGED spec
    BY <2>1, Same
  <2>3. CASE OLMInstalls \/ OLMNames
    <3>1. sub.there /\ ~Settled
      BY <2>3 DEF OLMInstalls, OLMNames
    <3>2. ~(calm /\ stage \in {"delete csvs", "delete subscription"})
      BY <3>1 DEF UninstallInv, CalmInv
    <3>3. ~(Passed("uninstall") /\ calm)
      BY <3>1 DEF UninstallInv, UninstallComplete
    <3> QED BY <2>1, <2>2, <3>2, <3>3 DEF UninstallInv, CalmInv, UninstallComplete, Passed
  <2>5. CASE CollectGarbage
    <3>1. UNCHANGED <<sub, csv>> /\ plans'.owned = plans.owned
      BY <1>0, <2>5 DEF CollectGarbage, ClusterOK
    <3>2. Settled' <=> Settled
      BY <2>1, <3>1, Same
    <3> QED BY <2>1, <2>2, <3>1, <3>2 DEF UninstallInv, CalmInv, UninstallComplete, Passed
  <2>4. CASE OLMReplaces(v) \/ \E p \in Phases : OLMReports(v, p)
    <3>1. /\ UNCHANGED <<sub, plans>> /\ csv[v] # "absent"
          /\ \A w \in CSVs \ {v} : csv'[w] = csv[w]
      BY <1>0, <2>4 DEF OLMReplaces, OLMReports, ClusterOK
    <3>2. ~(calm /\ stage = "delete subscription")
      BY <3>1 DEF UninstallInv, CalmInv
    <3>3. Settled' <=> Settled
      BY <2>1, <3>1, Same
    <3>4. CalmInv'
      BY <2>1, <3>2, <3>3 DEF UninstallInv, CalmInv
    <3>5. UninstallComplete'
      <4> SUFFICES ASSUME Passed("uninstall"), calm
                   PROVE  /\ ~sub.there /\ plans.owned = {}
                          /\ \A w \in Heads : csv'[w] = "absent"
        BY <2>1, <2>2, <3>1 DEF UninstallComplete, Passed
      <4>1. /\ ~sub.there /\ plans.owned = {}
            /\ \A w \in Heads : csv[w] = "absent"
        BY DEF UninstallInv, UninstallComplete
      <4>2. \A w \in Heads : w \in CSVs \ {v}
        BY <3>1, <4>1 DEF CSVs
      <4> QED BY <3>1, <4>1, <4>2
    <3> QED BY <3>4, <3>5 DEF UninstallInv
  <2> QED BY <1>11, <2>3, <2>4, <2>5
<1>12. CASE UNCHANGED vars
  BY <1>12, SameUninstall DEF vars
<1>13. Other \in CSVs
  BY DEF CSVs
<1> QED BY <1>1, <1>2, <1>3, <1>4, <1>5, <1>6, <1>7, <1>8, <1>9, <1>10, <1>11, <1>12, <1>13
        DEF Next, TestStep, FileCall, Over

-----------------------------------------------------------------------------
(* Skip ranges. *)

\* What the diff says of a file depends on nothing but OSP_VERSION.
LEMMA SameDiff ==
    UNCHANGED <<env, file>> =>
        (DiffPasses(file.pre, file.post)' <=> DiffPasses(file.pre, file.post))
BY DEF DiffPasses, Expected, ExpectedNew, channelMatchesOSP, isValidOspVersionPatchUpdate,
       skipRangeContainsVersion, extractMajorMinor, ChannelContains, Fits, Begins, Ends, osp

\* A step that leaves the file alone keeps FileInv, unless it ends a diff.
LEMMA QuietFile ==
    ASSUME FileInv, UNCHANGED <<file, saved>>,
           stage' \notin {"truncate", "encode", "compare"}, Passed("diff")' => FALSE
    PROVE  FileInv'
BY DEF FileInv, Contents

\* Every step keeps the file what the successful saves have made it.
LEMMA NextPreservesFile == TypeOK /\ CallInv /\ FileInv /\ [Next]_vars => FileInv'
<1> SUFFICES ASSUME TypeOK, CallInv, FileInv, [Next]_vars PROVE FileInv'
  OBVIOUS
<1> USE DEF cluster, history, counters, locals
<1>0. FileOK
  BY DEF TypeOK
<1>1. ASSUME NEW i \in DOMAIN env.campaign, StartSpec(i) PROVE FileInv'
  <2>1. FirstCall(env.campaign[i]) \in {"apply", "update", "fetch", "found", "get"}
    BY SpecsKnown, FirstCallsKnown DEF TypeOK, EnvironmentOK
  <2> QED BY <1>1, <2>1, QuietFile DEF StartSpec, Passed
<1>2. CASE EndCampaign \/ FailSpec
  BY <1>2, QuietFile DEF EndCampaign, FailSpec, Passed
<1>3. CASE createSubscription \/ UpdateSubscription
  BY <1>3, QuietFile DEF createSubscription, UpdateSubscription, End, Passed
<1>4. CASE WaitForSubscriptionState \/ WaitForClusterServiceVersionState
  <2>1. UNCHANGED <<spec, file, saved>> /\ spec # "diff" /\ stage' \in {"idle", "csv"}
    BY <1>4, Same DEF WaitForSubscriptionState, WaitForClusterServiceVersionState,
                      CallInv, End
  <2> QED BY <2>1, QuietFile DEF Passed
<1>5. CASE GetSubscription \/ DeleteCSVs \/ DeleteSubscription
  <2>1. UNCHANGED <<spec, file, saved>> /\ spec # "diff"
    BY <1>5, Same DEF GetSubscription, DeleteCSVs, DeleteSubscription, CallInv
  <2>2. stage' \in {"idle", "delete csvs", "delete subscription"}
    BY <1>5 DEF GetSubscription, DeleteCSVs, DeleteSubscription, End
  <2> QED BY <2>1, <2>2, QuietFile DEF Passed
<1>6. CASE FetchOlmSkipRange
  BY <1>6, QuietFile DEF FetchOlmSkipRange, End, Passed
<1>7. CASE DecodeFile
  <2>1. CASE file.whole
    <3>1. /\ UNCHANGED <<file, saved>> /\ stage' = "truncate"
          /\ existing' = [pre |-> file.pre, post |-> file.post]
      BY <1>7, <2>1 DEF DecodeFile, Decodes
    <3>2. file.pre = saved.pre /\ file.post = saved.post
      BY <2>1 DEF FileInv, Contents
    <3>3. existing' = saved
      BY <1>0, <3>1, <3>2 DEF FileOK
    <3> QED BY <3>1, <3>3 DEF FileInv, Contents, Passed
  <2>2. CASE ~file.whole
    BY <1>7, <2>2, QuietFile DEF DecodeFile, Decodes, End, Passed
  <2> QED BY <2>1, <2>2
<1>8. CASE TruncateFile
  <2>1. /\ ~file'.whole /\ UNCHANGED <<existing, saved>>
        /\ stage = "truncate" /\ stage' = "encode"
    BY <1>8 DEF TruncateFile, Truncated
  <2> QED BY <2>1 DEF FileInv, Passed
<1>9. CASE EncodeFile
  <2>1. UNCHANGED <<env, at, ranges>> /\ stage = "encode" /\ existing = saved
    BY <1>9 DEF EncodeFile, FileInv
  <2>2. file' = Contents(saved')
    BY <1>9, <2>1 DEF EncodeFile
  <2>3. file'.whole
    BY <2>2 DEF Contents
  <2>4. stage' \in {"idle", "compare"} /\ ~Passed("diff")'
    <3>1. UNCHANGED spec
      BY <2>1, Same
    <3> QED BY <1>9, <3>1 DEF EncodeFile, End, Passed
  <2>5. Contents(saved') = Contents(saved)'
    BY DEF Contents
  <2> QED BY <2>2, <2>3, <2>4, <2>5 DEF FileInv
<1>10. CASE ValidateOlmSkipRangeDiff
  <2>1. /\ UNCHANGED <<env, file, saved>> /\ stage' = "idle"
        /\ outcome' = IF file.whole /\ DiffPasses(file.pre, file.post) THEN "pass" ELSE "fail"
    BY <1>10 DEF ValidateOlmSkipRangeDiff, End
  <2>2. Passed("diff")' => file.whole /\ DiffPasses(file.pre, file.post)
    BY <2>1 DEF Passed
  <2>3. DiffPasses(file.pre, file.post)' <=> DiffPasses(file.pre, file.post)
    BY <2>1, SameDiff
  <2> QED BY <2>1, <2>2, <2>3 DEF FileInv, Contents
<1>11. CASE ValidateOlmSkipRange \/ ValidateChannelSkipRangeBounds
  <2>1. UNCHANGED <<spec, file, saved>> /\ spec # "diff" /\ stage' \in {"idle", "bounds"}
    BY <1>11, Same DEF ValidateOlmSkipRange, ValidateChannelSkipRangeBounds, CallInv, End
  <2> QED BY <2>1, QuietFile DEF Passed
<1>12. ASSUME UNCHANGED <<env, at, stage, outcome, file, existing, saved>> PROVE FileInv'
  <2>1. UNCHANGED spec
    BY <1>12, Same
  <2>2. DiffPasses(file.pre, file.post)' <=> DiffPasses(file.pre, file.post)
    BY <1>12, SameDiff
  <2>3. Passed("diff")' <=> Passed("diff")
    BY <1>12, <2>1 DEF Passed
  <2> QED BY <1>12, <2>2, <2>3 DEF FileInv, Contents
<1>13. ASSUME NEW cat \in env.catalogs, Release(cat) PROVE FileInv'
  BY <1>12, <1>13 DEF Release
<1>14. ASSUME NEW v \in CSVs,
              \/ OLMInstalls \/ OLMNames \/ CollectGarbage \/ OLMReplaces(v)
              \/ \E p \in Phases : OLMReports(v, p)
       PROVE  FileInv'
  BY <1>12, <1>14, OLMSteps
<1>15. CASE UNCHANGED vars
  BY <1>12, <1>15 DEF vars
<1>16. Other \in CSVs
  BY DEF CSVs
<1> QED BY <1>1, <1>2, <1>3, <1>4, <1>5, <1>6, <1>7, <1>8, <1>9, <1>10, <1>11, <1>13, <1>14,
           <1>15, <1>16
        DEF Next, TestStep, Over

-----------------------------------------------------------------------------
(* The inductive invariant, and what follows from it. *)

IInv == TypeOK /\ CallInv /\ InstallInv /\ UninstallInv /\ FileInv

LEMMA InitEstablishes == Init => IInv
<1> SUFFICES ASSUME Init PROVE IInv
  OBVIOUS
<1>1. EnvironmentOK
  <2>1. env.campaign \in Seq(Kinds) /\ env.campaign # <<>>
    BY CampaignAssumption DEF Init
  <2>2. 1 \in DOMAIN env.campaign
    BY <2>1
  <2> QED BY <2>2 DEF Init, EnvironmentOK
<1>2. ClusterOK
  BY DEF Init, ClusterOK, NoSub, Phases
<1>3. FileOK
  <2>1. NoRanges \in Maps /\ Empty \in [pre : Maps, post : Maps]
    BY DEF Maps, Empty
  <2>2. Contents(Empty) \in [whole : BOOLEAN, pre : Maps, post : Maps]
    BY <2>1 DEF Contents
  <2> QED BY <2>1, <2>2 DEF Init, FileOK
<1>4. SpecOK /\ HistoryOK /\ CountersOK
  <2>1. SpecOK
    BY DEF Init, SpecOK, Stages
  <2>2. HistoryOK
    BY DEF Init, HistoryOK
  <2>3. CountersOK
    BY BoundsAssumption DEF Init, CountersOK
  <2> QED BY <2>1, <2>2, <2>3
<1>5. CallInv
  BY DEF Init, CallInv
<1>6. InstallInv
  BY DEF Init, InstallInv, SubInv, FreshInv, FreshInstallIsCurrent
<1>7. UninstallInv
  BY DEF Init, UninstallInv, CalmInv, UninstallComplete
<1>8. FileInv
  BY DEF Init, FileInv, Passed
<1> QED BY <1>1, <1>2, <1>3, <1>4, <1>5, <1>6, <1>7, <1>8 DEF IInv, TypeOK

LEMMA NextPreserves == IInv /\ [Next]_vars => IInv'
BY NextPreservesTypes, NextPreservesCalls, NextPreservesInstall, NextPreservesUninstall,
   NextPreservesFile DEF IInv

LEMMA Invariant == Spec => []IInv
BY InitEstablishes, NextPreserves, PTL DEF Spec

\* A file is read and changed as the code's types allow, whatever fails, and
\* WaitForClusterServiceVersionState is always given the name of a CSV.
THEOREM TypeCorrect == Spec => []TypeOK
<1>1. IInv => TypeOK
  BY DEF IInv
<1> QED BY <1>1, Invariant, PTL

\* A passing SubscribeAndWaitForOperatorToBeReady that made its Subscription has
\* waited for a version the channel has offered since.
THEOREM FreshInstallsAreCurrent == Spec => []FreshInstallIsCurrent
<1>1. IInv => FreshInstallIsCurrent
  BY DEF IInv, InstallInv
<1> QED BY <1>1, Invariant, PTL

\* A passing OperatorCleanup leaves no Subscription, no version of the operator
\* and no InstallPlan but orphans, if OLM was through with the Subscription when
\* it began.
THEOREM UninstallsAreComplete == Spec => []UninstallComplete
<1>1. IInv => UninstallComplete
  BY DEF IInv, UninstallInv
<1> QED BY <1>1, Invariant, PTL

\* A passing ValidateOlmSkipRangeDiff speaks of the ranges the last successful
\* saves have fetched: none was lost, and what changed kept its lower bound and
\* is in channels whose names contain the line of OSP_VERSION.
THEOREM DiffsCompareSavedRanges == Spec => []SavedRangesCompared
<1>1. ASSUME FileInv PROVE SavedRangesCompared
  <2> SUFFICES ASSUME Passed("diff"), NEW c \in DOMAIN saved.pre \ {Latest}
               PROVE  /\ c \in DOMAIN saved.post
                      /\ saved.post[c] # saved.pre[c] =>
                           channelMatchesOSP(c) /\ saved.post[c].lower = saved.pre[c].lower
    BY DEF SavedRangesCompared
  <2>1. DiffPasses(saved.pre, saved.post)
    BY <1>1 DEF FileInv, Contents
  <2>2. Expected(saved.pre, saved.post, c)
    BY <2>1 DEF DiffPasses
  <2> QED BY <2>2 DEF Expected, isValidOspVersionPatchUpdate
<1>2. IInv => SavedRangesCompared
  BY <1>1 DEF IInv
<1> QED BY <1>2, Invariant, PTL

\* Whatever ranges pass the diff of the upgrade suite pass the search for
\* OSP_VERSION of the versions suite, if a channel has the version's line.
THEOREM ChecksAlwaysAgree == Spec => []ChecksAgree
<1>1. ASSUME FileInv PROVE ChecksAgree
  <2> SUFFICES ASSUME Passed("diff"), NEW c \in DOMAIN file.post, channelMatchesOSP(c)
               PROVE  Found(file.post)
    BY DEF ChecksAgree
  <2>1. DiffPasses(file.pre, file.post)
    BY <1>1 DEF FileInv
  <2>2. c # Latest /\ ChannelContains(c, osp)
    BY DEF channelMatchesOSP, ChannelContains
  <2>3. skipRangeContainsVersion(file.post[c], osp)
    <3>1. CASE c \in DOMAIN file.pre
      <4>1. Expected(file.pre, file.post, c)
        BY <2>1, <2>2, <3>1 DEF DiffPasses
      <4> QED BY <4>1 DEF Expected, isValidOspVersionPatchUpdate
    <3>2. CASE c \notin DOMAIN file.pre
      <4>1. ExpectedNew(file.post, c)
        BY <2>1, <2>2, <3>2 DEF DiffPasses
      <4> QED BY <4>1 DEF ExpectedNew
    <3> QED BY <3>1, <3>2
  <2> QED BY <2>2, <2>3 DEF Found
<1>2. IInv => ChecksAgree
  BY <1>1 DEF IInv
<1> QED BY <1>2, Invariant, PTL
=============================================================================
