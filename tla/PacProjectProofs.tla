--------------------------- MODULE PacProjectProofs ---------------------------
(***************************************************************************)
(* The safety properties of PacProject for any scripts, number of          *)
(* containers, fork attempts and failing calls.                            *)
(*                                                                         *)
(* The argument follows the container: what the setup has made so far is   *)
(* told by its next call (SetupInv), what it has still to undo by what it  *)
(* has recorded (UndoInv), what the cleanup has still to delete by what is *)
(* left on the stack of deferred calls (StackInv, CleanInv); and the       *)
(* shared files are absent unless the container that wrote them still has  *)
(* its cleanup to come, or this could not remove them (FilesInv).  While   *)
(* every spec of a script passes, the runs are those its events were due   *)
(* to start, in that order, at most the last one is still on its way, and  *)
(* those before it have ended, so that no two are of one second            *)
(* (CheckInv).                                                             *)
(***************************************************************************)
EXTENDS PacProject, SequenceTheorems, FiniteSetTheorems, TLAPS
LOCAL INSTANCE SequencesExt

\* BeforeAll up to the project, what follows it, and what undoes it on GitHub.
First  == {"init", "smee_url", "smee_dep"}
Early  == First \cup {"validate", "create"}
Later  == {"hook", "cr", "owner", "ready", "secret"}
Undoes == {"undo_cr", "undo_secret", "undo_repo"}
Cleans == {"clean_cr", "clean_secret", "clean_repo", "clean_smee"}
Ending == {"defer", "clean_own_smee", "end"}

\* The deferred calls of a container: its own relay on GitHub, then the project.
OwnSmee == IF OnGitHub THEN <<"smee">> ELSE <<>>
Both    == IF OnGitHub THEN <<"smee", "project">> ELSE <<"project">>

\* Where the container is tells which deferred calls are left and whether the
\* setup has succeeded.
StackInv ==
  /\ pc \in {"owner", "ready", "secret", "clean_cr", "clean_secret", "clean_own_smee"} \cup Undoes
       => OnGitHub
  /\ pc \in First => defers = <<>>
  /\ pc \in {"validate", "create"} \cup Later \cup Undoes \cup Cleans => defers = OwnSmee
  /\ pc = "body" => defers = Both
  /\ pc \in {"clean_own_smee", "end"} => defers = <<>>
  /\ pc = "defer" => defers \in {<<>>, OwnSmee} \/ (ready /\ defers = Both)
  /\ pc \in {"body"} \cup Cleans => ready
  /\ pc \in Early \cup Later \cup Undoes => ~ready

\* No container makes more projects than its share.
MadeInv ==
  /\ made <= container * MaxForks
  /\ OnGitHub /\ pc \in Early => made = (container - 1) * MaxForks

\* What the setup has made so far.
RelayInv ==
  /\ pc \in First => smee = before.smee
  /\ pc \in (Early \cup Later \cup {"body"}) \ {"init", "smee_url"} => smeeURL = container
  /\ pc \in ((Early \cup Later \cup {"body"}) \ First) /\ before.smee = None => smee = container
SecretInv ==
  /\ pc = "init" => secret = before.secret
  /\ ~OnGitHub /\ pc \in (Early \cup Later \cup {"body"}) \ {"init"} /\ before.secret = None
       => secret = container
  /\ OnGitHub /\ pc \in {"cr", "hook", "body"} => secret = container
ProjectInv ==
  /\ pc \in Later \cup {"body"} => proj \in Ids
  /\ pc = "body" \/ (~OnGitHub /\ pc = "cr") => hooks[proj] = [url |-> container, key |-> container]
  /\ pc = "body" \/ (OnGitHub /\ pc = "hook") => proj \in crs
SetupInv == RelayInv /\ SecretInv /\ ProjectInv

\* Until GitHub's setup has succeeded: what it has made is recorded as to be
\* undone, and what has been undone is gone, unless an undo call was refused.
UndoCRInv ==
  /\ pc \in Early \cup (Later \ {"hook"}) => crs = {}
  /\ pc \in {"hook", "undo_cr"} /\ proj \in crs => undo.cr
  /\ pc \in {"undo_secret", "undo_repo"} \cup Ending /\ proj \in crs => "cr" \in kept
UndoSecretInv ==
  /\ pc \in Early \cup {"owner", "ready", "secret"} => secret = before.secret
  /\ pc \in Later \cup {"undo_cr", "undo_secret"} =>
       /\ undo.secret = "none"   => secret = before.secret
       /\ undo.secret = "delete" => before.secret = None
  /\ pc \in {"undo_repo"} \cup Ending => secret = before.secret \/ "secret" \in kept
UndoRepoInv ==
  /\ pc \in Early => proj = None
  /\ pc \in Ending /\ proj \in projects => "repo" \in kept \/ ~owner
UndoInv == OnGitHub /\ ~ready /\ ~lost => UndoCRInv /\ UndoSecretInv /\ UndoRepoInv

\* After a setup that has succeeded: what the cleanup has passed is gone, unless
\* its deletion was refused.
Cleaned == pc \in {"clean_own_smee", "end"} \/ (pc = "defer" /\ defers # Both)
CleanInv ==
  ready =>
    /\ OnGitHub /\ proj \in crs /\ (pc \in Cleans \ {"clean_cr"} \/ Cleaned) => "cr" \in kept
    /\ OnGitHub /\ secret # None /\ (pc \in {"clean_repo", "clean_smee"} \/ Cleaned)
         => "secret" \in kept
    /\ proj \in projects /\ (pc = "clean_smee" \/ Cleaned) => "repo" \in kept
    /\ smee # None /\ Cleaned => "smee" \in kept \/ (~OnGitHub /\ "repo" \in kept)

\* What is in the temporary files, on the branch and on main is of this project,
\* or a file that could not be removed.
Ours(f) == f.url \in {None, proj, Stale}
FilesInv ==
  /\ pc = "body" =>
       /\ projectURL = proj /\ Ours(main)
       /\ \A e \in Events : Ours(files[e]) /\ Ours(branch[e])
  /\ pc \notin {"body", "done"} /\ ~(pc = "defer" /\ defers = Both)
       => \A e \in Events : files[e].url \in {None, Stale}
  /\ ~OnGitHub /\ pc \in {"hook", "cr"} => projectURL = proj
  /\ pc \in Early \cup Later => main.url = None /\ \A e \in Events : branch[e].url = None

\* The spec that has picked a run is one that validates it.
PickInv == picked # 0 => step <= Len(script) /\ Cur.op \in {"mr", "main", "new"}

OuterInv == StackInv /\ MadeInv /\ SetupInv /\ UndoInv /\ CleanInv
IInv == TypeOK /\ OuterInv /\ FilesInv /\ PickInv


-----------------------------------------------------------------------------
LEMMA ConstantFacts ==
  /\ MaxContainers \in Nat \ {0} /\ MaxForks \in Nat \ {0} /\ MaxFaults \in Nat
  /\ \A c \in 1..MaxContainers : c * MaxForks \in 0..(MaxContainers * MaxForks)
  /\ \A c \in 1..MaxContainers : (c - 1) * MaxForks + 1 <= c * MaxForks
  /\ \A c \in 1..MaxContainers : (c - 1) * MaxForks >= 0
BY BoundsAssumption

\* Pushing to and popping from a stack of one or two calls.
LEMMA PushPair ==
  ASSUME NEW x, NEW y
  PROVE  Append(<<x>>, y) = <<x, y>>
<1> DEFINE S == {x, y}
<1> DEFINE s == Append(<<x>>, y)
<1> DEFINE t == <<x, y>>
<1>1. s \in Seq(S) /\ Len(s) = 2 /\ s[1] = x /\ s[2] = y
  <2>1. <<x>> \in Seq(S) /\ Len(<<x>>) = 1 /\ <<x>>[1] = x
    OBVIOUS
  <2> QED
    BY <2>1, AppendProperties
<1>2. t \in Seq(S) /\ Len(t) = 2 /\ t[1] = x /\ t[2] = y
  OBVIOUS
<1> HIDE DEF s, t, S
<1>3. \A i \in 1..2 : s[i] = t[i]
  BY <1>1, <1>2
<1>4. s = t
  BY <1>1, <1>2, <1>3, SeqEqual
<1> QED
  BY <1>4 DEF s, t

LEMMA PopPair ==
  ASSUME NEW x, NEW y
  PROVE  SubSeq(<<x, y>>, 1, 1) = <<x>>
<1> DEFINE S == {x, y}
<1> DEFINE s == SubSeq(<<x, y>>, 1, 1)
<1> DEFINE t == <<x>>
<1>1. s \in Seq(S) /\ Len(s) = 1 /\ s[1] = x
  <2>1. <<x, y>> \in Seq(S) /\ Len(<<x, y>>) = 2 /\ <<x, y>>[1] = x
    OBVIOUS
  <2> QED
    BY <2>1, SubSeqProperties
<1>2. t \in Seq(S) /\ Len(t) = 1 /\ t[1] = x
  OBVIOUS
<1> HIDE DEF s, t, S
<1>3. s = t
  BY <1>1, <1>2, SeqEqual
<1> QED
  BY <1>3 DEF s, t

\* The stacks of deferred calls, popped.
LEMMA StackFacts ==
  /\ <<"smee">> # <<>> /\ <<"smee">>[Len(<<"smee">>)] = "smee"
  /\ <<"project">> # <<>> /\ <<"project">>[Len(<<"project">>)] = "project"
  /\ <<"smee", "project">> # <<>>
  /\ <<"smee", "project">>[Len(<<"smee", "project">>)] = "project"
  /\ <<"smee">> # <<"project">> /\ <<"smee">> # <<"smee", "project">>
  /\ SubSeq(<<"smee">>, 1, Len(<<"smee">>) - 1) = <<>>
  /\ SubSeq(<<"project">>, 1, Len(<<"project">>) - 1) = <<>>
  /\ SubSeq(<<"smee", "project">>, 1, Len(<<"smee", "project">>) - 1) = <<"smee">>
<1>1. Len(<<"smee", "project">>) - 1 = 1
  OBVIOUS
<1> QED
  BY <1>1, PopPair

LEMMA FreshId ==
  ASSUME TypeOK, made < container * MaxForks
  PROVE  made + 1 \in Ids
<1> container * MaxForks \in 0..(MaxContainers * MaxForks) /\ made \in Nat
  BY ConstantFacts DEF TypeOK, ControlOK, ForgeOK
<1> MaxContainers * MaxForks \in Nat
  BY ConstantFacts
<1> QED BY DEF Ids

LEMMA ShareLeft ==
  ASSUME TypeOK, MadeInv, OnGitHub, pc \in Early
  PROVE  made < container * MaxForks
<1> (container - 1) * MaxForks + 1 <= container * MaxForks
  BY ConstantFacts DEF TypeOK, ControlOK
<1> made = (container - 1) * MaxForks /\ made \in Nat
  BY ConstantFacts DEF MadeInv, TypeOK, ForgeOK
<1> container * MaxForks \in Nat
  BY ConstantFacts DEF TypeOK, ControlOK
<1> QED OBVIOUS


LEMMA InitClientStep ==
  ASSUME IInv, InitClient
  PROVE  IInv'
<1> USE DEF IInv, OuterInv, InitClient, Goto, Fine, Fault, FailSetup, Rollback,
           control, local, process, namespace, forge, body, history
<1>1. ControlOK'
  BY ConstantFacts DEF TypeOK, ControlOK, Labels
<1>2. ValuesOK'
  BY ConstantFacts DEF TypeOK, ControlOK, ValuesOK, Values, Foreign, None
<1>3. SetupOK'
  BY DEF TypeOK, SetupOK, None
<1>4. CleanupOK'
  BY DEF TypeOK, CleanupOK, StackInv, Later, OwnSmee
<1>5. ForgeOK'
  BY ConstantFacts DEF TypeOK, ControlOK, ValuesOK, SetupOK, ForgeOK, MadeInv, OnGitHub, Ids, Values
<1>6. StackInv'
  BY DEF StackInv, First, Early, Later, Undoes, Cleans, OwnSmee, Both, OnGitHub
<1>7. MadeInv'
  BY ConstantFacts DEF MadeInv, Early, First, OnGitHub, TypeOK, ControlOK, ForgeOK
<1>8. RelayInv'
  BY DEF SetupInv, RelayInv, First, Early, Later
<1>9. SecretInv'
  BY DEF SetupInv, SecretInv, First, Early, Later, OnGitHub
<1>10. ProjectInv'
  BY DEF SetupInv, RelayInv, ProjectInv, First, Early, Later, OnGitHub, TypeOK, ForgeOK
<1>11. UndoInv'
  <2> SUFFICES ASSUME OnGitHub', ~ready', ~lost'
               PROVE  (UndoCRInv /\ UndoSecretInv /\ UndoRepoInv)'
    BY DEF UndoInv
  <2>1. OnGitHub /\ ~ready /\ ~lost
    BY DEF OnGitHub, TypeOK, CleanupOK
  <2>2. UndoCRInv /\ UndoSecretInv /\ UndoRepoInv
    BY <2>1 DEF UndoInv
  <2>3. UndoCRInv'
    BY <2>1, <2>2 DEF UndoCRInv, First, Early, Later, Ending, StackInv, Cleans, TypeOK, SetupOK
  <2>4. UndoSecretInv'
    BY <2>1, <2>2 DEF UndoSecretInv, First, Early, Later, Ending, StackInv, Cleans, TypeOK, SetupOK
  <2>5. UndoRepoInv'
    BY <2>1, <2>2 DEF UndoRepoInv, First, Early, Later, Ending, StackInv, Cleans, TypeOK,
                  ForgeOK, Ids, None
  <2> QED
    BY <2>3, <2>4, <2>5
<1>12. CleanInv'
  <2>1. ~ready' \/ pc' = "body"
    BY DEF StackInv, First, Early, Later, Undoes
  <2> QED
    BY <2>1 DEF CleanInv, Cleaned, Cleans
<1>13. FilesOK'
  BY DEF TypeOK, FilesOK, SetupOK
<1>14. FilesInv'
  BY DEF FilesInv, Ours, Early, Later, First, StackInv, Both, OwnSmee, OnGitHub, None
<1>15. BodyOK' /\ PickInv'
  BY DEF TypeOK, BodyOK, PickInv, Cur
<1> QED
  BY <1>1, <1>2, <1>3, <1>4, <1>5, <1>6, <1>7, <1>8, <1>9, <1>10, <1>11, <1>12, <1>13,
     <1>14, <1>15 DEF SetupInv, TypeOK


LEMMA NewSmeeURLStep ==
  ASSUME IInv, NewSmeeURL
  PROVE  IInv'
<1> USE DEF IInv, OuterInv, NewSmeeURL, Goto, Fine, Fault, FailSetup, Rollback,
           control, local, process, namespace, forge, body, history
<1>1. ControlOK'
  BY ConstantFacts DEF TypeOK, ControlOK, Labels
<1>2. ValuesOK'
  BY ConstantFacts DEF TypeOK, ControlOK, ValuesOK, Values, Foreign, None
<1>3. SetupOK'
  BY DEF TypeOK, SetupOK, None
<1>4. CleanupOK'
  BY DEF TypeOK, CleanupOK, StackInv, Later, OwnSmee
<1>5. ForgeOK'
  BY ConstantFacts DEF TypeOK, ControlOK, ValuesOK, SetupOK, ForgeOK, MadeInv, OnGitHub, Ids, Values
<1>6. StackInv'
  BY DEF StackInv, First, Early, Later, Undoes, Cleans, OwnSmee, Both, OnGitHub
<1>7. MadeInv'
  BY ConstantFacts DEF MadeInv, Early, First, OnGitHub, TypeOK, ControlOK, ForgeOK
<1>8. RelayInv'
  BY DEF SetupInv, RelayInv, First, Early, Later
<1>9. SecretInv'
  BY DEF SetupInv, SecretInv, First, Early, Later, OnGitHub
<1>10. ProjectInv'
  BY DEF SetupInv, RelayInv, ProjectInv, First, Early, Later, OnGitHub, TypeOK, ForgeOK
<1>11. UndoInv'
  <2> SUFFICES ASSUME OnGitHub', ~ready', ~lost'
               PROVE  (UndoCRInv /\ UndoSecretInv /\ UndoRepoInv)'
    BY DEF UndoInv
  <2>1. OnGitHub /\ ~ready /\ ~lost
    BY DEF OnGitHub, TypeOK, CleanupOK
  <2>2. UndoCRInv /\ UndoSecretInv /\ UndoRepoInv
    BY <2>1 DEF UndoInv
  <2>3. UndoCRInv'
    BY <2>1, <2>2 DEF UndoCRInv, First, Early, Later, Ending, StackInv, Cleans, TypeOK, SetupOK
  <2>4. UndoSecretInv'
    BY <2>1, <2>2 DEF UndoSecretInv, First, Early, Later, Ending, StackInv, Cleans, TypeOK, SetupOK
  <2>5. UndoRepoInv'
    BY <2>1, <2>2 DEF UndoRepoInv, First, Early, Later, Ending, StackInv, Cleans, TypeOK,
                  ForgeOK, Ids, None
  <2> QED
    BY <2>3, <2>4, <2>5
<1>12. CleanInv'
  <2>1. ~ready' \/ pc' = "body"
    BY DEF StackInv, First, Early, Later, Undoes
  <2> QED
    BY <2>1 DEF CleanInv, Cleaned, Cleans
<1>13. FilesOK'
  BY DEF TypeOK, FilesOK, SetupOK
<1>14. FilesInv'
  BY DEF FilesInv, Ours, Early, Later, First, StackInv, Both, OwnSmee, OnGitHub, None
<1>15. BodyOK' /\ PickInv'
  BY DEF TypeOK, BodyOK, PickInv, Cur
<1> QED
  BY <1>1, <1>2, <1>3, <1>4, <1>5, <1>6, <1>7, <1>8, <1>9, <1>10, <1>11, <1>12, <1>13,
     <1>14, <1>15 DEF SetupInv, TypeOK


LEMMA CreateSmeeDeploymentStep ==
  ASSUME IInv, CreateSmeeDeployment
  PROVE  IInv'
<1> USE DEF IInv, OuterInv, CreateSmeeDeployment, Goto, Fine, Fault, FailSetup, Rollback,
           control, local, process, namespace, forge, body, history
<1>1. ControlOK'
  BY ConstantFacts DEF TypeOK, ControlOK, Labels
<1>2. ValuesOK'
  BY ConstantFacts DEF TypeOK, ControlOK, ValuesOK, Values, Foreign, None
<1>3. SetupOK'
  BY DEF TypeOK, SetupOK, None
<1>4. CleanupOK'
  BY DEF TypeOK, CleanupOK, StackInv, Later, OwnSmee
<1>5. ForgeOK'
  BY ConstantFacts DEF TypeOK, ControlOK, ValuesOK, SetupOK, ForgeOK, MadeInv, OnGitHub, Ids, Values
<1>6. StackInv'
  BY DEF StackInv, First, Early, Later, Undoes, Cleans, OwnSmee, Both, OnGitHub
<1>7. MadeInv'
  BY ConstantFacts DEF MadeInv, Early, First, OnGitHub, TypeOK, ControlOK, ForgeOK
<1>8. RelayInv'
  BY DEF SetupInv, RelayInv, First, Early, Later
<1>9. SecretInv'
  BY DEF SetupInv, SecretInv, First, Early, Later, OnGitHub
<1>10. ProjectInv'
  BY DEF SetupInv, RelayInv, ProjectInv, First, Early, Later, OnGitHub, TypeOK, ForgeOK
<1>11. UndoInv'
  <2> SUFFICES ASSUME OnGitHub', ~ready', ~lost'
               PROVE  (UndoCRInv /\ UndoSecretInv /\ UndoRepoInv)'
    BY DEF UndoInv
  <2>1. OnGitHub /\ ~ready /\ ~lost
    BY DEF OnGitHub, TypeOK, CleanupOK
  <2>2. UndoCRInv /\ UndoSecretInv /\ UndoRepoInv
    BY <2>1 DEF UndoInv
  <2>3. UndoCRInv'
    BY <2>1, <2>2 DEF UndoCRInv, First, Early, Later, Ending, StackInv, Cleans, TypeOK, SetupOK
  <2>4. UndoSecretInv'
    BY <2>1, <2>2 DEF UndoSecretInv, First, Early, Later, Ending, StackInv, Cleans, TypeOK, SetupOK
  <2>5. UndoRepoInv'
    BY <2>1, <2>2 DEF UndoRepoInv, First, Early, Later, Ending, StackInv, Cleans, TypeOK,
                  ForgeOK, Ids, None
  <2> QED
    BY <2>3, <2>4, <2>5
<1>12. CleanInv'
  <2>1. ~ready' \/ pc' = "body"
    BY DEF StackInv, First, Early, Later, Undoes
  <2> QED
    BY <2>1 DEF CleanInv, Cleaned, Cleans
<1>13. FilesOK'
  BY DEF TypeOK, FilesOK, SetupOK
<1>14. FilesInv'
  BY DEF FilesInv, Ours, Early, Later, First, StackInv, Both, OwnSmee, OnGitHub, None
<1>15. BodyOK' /\ PickInv'
  BY DEF TypeOK, BodyOK, PickInv, Cur
<1> QED
  BY <1>1, <1>2, <1>3, <1>4, <1>5, <1>6, <1>7, <1>8, <1>9, <1>10, <1>11, <1>12, <1>13,
     <1>14, <1>15 DEF SetupInv, TypeOK


LEMMA ValidateSmeeStep ==
  ASSUME IInv, ValidateSmee
  PROVE  IInv'
<1> USE DEF IInv, OuterInv, ValidateSmee, Goto, Fine, Fault, FailSetup, Rollback,
           control, local, process, namespace, forge, body, history
<1>1. ControlOK'
  BY ConstantFacts DEF TypeOK, ControlOK, Labels
<1>2. ValuesOK'
  BY ConstantFacts DEF TypeOK, ControlOK, ValuesOK, Values, Foreign, None
<1>3. SetupOK'
  BY DEF TypeOK, SetupOK, None
<1>4. CleanupOK'
  BY DEF TypeOK, CleanupOK, StackInv, Later, OwnSmee
<1>5. ForgeOK'
  BY ConstantFacts DEF TypeOK, ControlOK, ValuesOK, SetupOK, ForgeOK, MadeInv, OnGitHub, Ids, Values
<1>6. StackInv'
  BY DEF StackInv, First, Early, Later, Undoes, Cleans, OwnSmee, Both, OnGitHub
<1>7. MadeInv'
  BY ConstantFacts DEF MadeInv, Early, First, OnGitHub, TypeOK, ControlOK, ForgeOK
<1>8. RelayInv'
  BY DEF SetupInv, RelayInv, First, Early, Later
<1>9. SecretInv'
  BY DEF SetupInv, SecretInv, First, Early, Later, OnGitHub
<1>10. ProjectInv'
  BY DEF SetupInv, RelayInv, ProjectInv, First, Early, Later, OnGitHub, TypeOK, ForgeOK
<1>11. UndoInv'
  <2> SUFFICES ASSUME OnGitHub', ~ready', ~lost'
               PROVE  (UndoCRInv /\ UndoSecretInv /\ UndoRepoInv)'
    BY DEF UndoInv
  <2>1. OnGitHub /\ ~ready /\ ~lost
    BY DEF OnGitHub, TypeOK, CleanupOK
  <2>2. UndoCRInv /\ UndoSecretInv /\ UndoRepoInv
    BY <2>1 DEF UndoInv
  <2>3. UndoCRInv'
    BY <2>1, <2>2 DEF UndoCRInv, First, Early, Later, Ending, StackInv, Cleans, TypeOK, SetupOK
  <2>4. UndoSecretInv'
    BY <2>1, <2>2 DEF UndoSecretInv, First, Early, Later, Ending, StackInv, Cleans, TypeOK, SetupOK
  <2>5. UndoRepoInv'
    BY <2>1, <2>2 DEF UndoRepoInv, First, Early, Later, Ending, StackInv, Cleans, TypeOK,
                  ForgeOK, Ids, None
  <2> QED
    BY <2>3, <2>4, <2>5
<1>12. CleanInv'
  <2>1. ~ready' \/ pc' = "body"
    BY DEF StackInv, First, Early, Later, Undoes
  <2> QED
    BY <2>1 DEF CleanInv, Cleaned, Cleans
<1>13. FilesOK'
  BY DEF TypeOK, FilesOK, SetupOK
<1>14. FilesInv'
  BY DEF FilesInv, Ours, Early, Later, First, StackInv, Both, OwnSmee, OnGitHub, None
<1>15. BodyOK' /\ PickInv'
  BY DEF TypeOK, BodyOK, PickInv, Cur
<1> QED
  BY <1>1, <1>2, <1>3, <1>4, <1>5, <1>6, <1>7, <1>8, <1>9, <1>10, <1>11, <1>12, <1>13,
     <1>14, <1>15 DEF SetupInv, TypeOK


LEMMA ForkProjectStep ==
  ASSUME IInv, ForkProject
  PROVE  IInv'
<1> USE DEF IInv, OuterInv, ForkProject, ForksLeft, Goto, Fine, Fault, FailSetup, Rollback,
           control, local, process, namespace, forge, body, history
<1>0. ForksLeft => made + 1 \in Ids
  BY FreshId DEF ForksLeft
<1>1. ControlOK'
  BY ConstantFacts DEF TypeOK, ControlOK, Labels
<1>2. ValuesOK'
  BY ConstantFacts DEF TypeOK, ControlOK, ValuesOK, Values, Foreign, None
<1>3. SetupOK'
  BY <1>0 DEF TypeOK, SetupOK, None
<1>4. CleanupOK'
  BY DEF TypeOK, CleanupOK, StackInv, Later, OwnSmee
<1>5. ForgeOK'
  <2>1. made' \in 0..(MaxContainers * MaxForks)
    <3>1. MaxContainers * MaxForks \in Nat
      BY ConstantFacts
    <3>2. made \in 0..(MaxContainers * MaxForks) /\ made' \in {made, made + 1}
      BY DEF TypeOK, ForgeOK
    <3> QED BY <1>0, <3>1, <3>2 DEF Ids
  <2>2. /\ (projects \cup crs) \subseteq Ids
        /\ hooks \in [Ids -> [url : Values, key : Values]]
    BY DEF TypeOK, ForgeOK
  <2>3. (projects' \cup crs') \subseteq Ids /\ UNCHANGED hooks
    BY <1>0, <2>2
  <2> QED
    BY <2>1, <2>2, <2>3 DEF ForgeOK, Ids, Values
<1>6. StackInv'
  BY DEF StackInv, First, Early, Later, Undoes, Cleans, OwnSmee, Both, OnGitHub
<1>7. MadeInv'
  BY ConstantFacts DEF MadeInv, Early, First, OnGitHub, TypeOK, ControlOK, ForgeOK
<1>8. RelayInv'
  BY DEF SetupInv, RelayInv, First, Early, Later
<1>9. SecretInv'
  BY DEF SetupInv, SecretInv, First, Early, Later, OnGitHub
<1>10. ProjectInv'
  BY <1>0 DEF SetupInv, RelayInv, ProjectInv, First, Early, Later, OnGitHub, TypeOK, ForgeOK
<1>11. UndoInv'
  <2> SUFFICES ASSUME OnGitHub', ~ready', ~lost'
               PROVE  (UndoCRInv /\ UndoSecretInv /\ UndoRepoInv)'
    BY DEF UndoInv
  <2>1. OnGitHub /\ ~ready /\ ~lost
    BY DEF OnGitHub, TypeOK, CleanupOK
  <2>2. UndoCRInv /\ UndoSecretInv /\ UndoRepoInv
    BY <2>1 DEF UndoInv
  <2>3. UndoCRInv'
    BY <2>1, <2>2 DEF UndoCRInv, First, Early, Later, Ending, StackInv, Cleans, TypeOK, SetupOK
  <2>4. UndoSecretInv'
    BY <2>1, <2>2 DEF UndoSecretInv, First, Early, Later, Ending, StackInv, Cleans, TypeOK, SetupOK
  <2>5. UndoRepoInv'
    BY <2>1, <2>2 DEF UndoRepoInv, First, Early, Later, Ending, StackInv, Cleans, TypeOK,
                  ForgeOK, Ids, None
  <2> QED
    BY <2>3, <2>4, <2>5
<1>12. CleanInv'
  <2>1. ~ready' \/ pc' = "body"
    BY DEF StackInv, First, Early, Later, Undoes
  <2> QED
    BY <2>1 DEF CleanInv, Cleaned, Cleans
<1>13. FilesOK'
  BY <1>0 DEF TypeOK, FilesOK, SetupOK
<1>14. FilesInv'
  BY DEF FilesInv, Ours, Early, Later, First, StackInv, Both, OwnSmee, OnGitHub, None
<1>15. BodyOK' /\ PickInv'
  BY DEF TypeOK, BodyOK, PickInv, Cur
<1> QED
  BY <1>1, <1>2, <1>3, <1>4, <1>5, <1>6, <1>7, <1>8, <1>9, <1>10, <1>11, <1>12, <1>13,
     <1>14, <1>15 DEF SetupInv, TypeOK


LEMMA AddWebhookStep ==
  ASSUME IInv, AddWebhook
  PROVE  IInv'
<1> USE DEF IInv, OuterInv, AddWebhook, Goto, Fine, Fault, FailSetup, Rollback,
           control, local, process, namespace, forge, body, history
<1>1. ControlOK'
  BY ConstantFacts DEF TypeOK, ControlOK, Labels
<1>2. ValuesOK'
  BY ConstantFacts DEF TypeOK, ControlOK, ValuesOK, Values, Foreign, None
<1>3. SetupOK'
  BY DEF TypeOK, SetupOK, None
<1>4. CleanupOK'
  BY DEF TypeOK, CleanupOK, StackInv, Later, OwnSmee
<1>5. ForgeOK'
  <2>1. [url |-> smeeURL, key |-> container] \in [url : Values, key : Values]
    BY ConstantFacts DEF TypeOK, ControlOK, ValuesOK, Values, Foreign
  <2> QED
    BY <2>1 DEF TypeOK, ForgeOK
<1>6. StackInv'
  BY DEF StackInv, First, Early, Later, Undoes, Cleans, OwnSmee, Both, OnGitHub
<1>7. MadeInv'
  BY ConstantFacts DEF MadeInv, Early, First, OnGitHub, TypeOK, ControlOK, ForgeOK
<1>8. RelayInv'
  BY DEF SetupInv, RelayInv, First, Early, Later
<1>9. SecretInv'
  BY DEF SetupInv, SecretInv, First, Early, Later, OnGitHub
<1>10. ProjectInv'
  BY DEF SetupInv, RelayInv, ProjectInv, First, Early, Later, OnGitHub, TypeOK, ForgeOK
<1>11. UndoInv'
  <2> SUFFICES ASSUME OnGitHub', ~ready', ~lost'
               PROVE  (UndoCRInv /\ UndoSecretInv /\ UndoRepoInv)'
    BY DEF UndoInv
  <2>1. OnGitHub /\ ~ready /\ ~lost
    BY DEF OnGitHub, TypeOK, CleanupOK
  <2>2. UndoCRInv /\ UndoSecretInv /\ UndoRepoInv
    BY <2>1 DEF UndoInv
  <2>3. UndoCRInv'
    BY <2>1, <2>2 DEF UndoCRInv, First, Early, Later, Ending, StackInv, Cleans, TypeOK, SetupOK
  <2>4. UndoSecretInv'
    BY <2>1, <2>2 DEF UndoSecretInv, First, Early, Later, Ending, StackInv, Cleans, TypeOK, SetupOK
  <2>5. UndoRepoInv'
    BY <2>1, <2>2 DEF UndoRepoInv, First, Early, Later, Ending, StackInv, Cleans, TypeOK,
                  ForgeOK, Ids, None
  <2> QED
    BY <2>3, <2>4, <2>5
<1>12. CleanInv'
  <2>1. ~ready' \/ pc' = "body"
    BY DEF StackInv, First, Early, Later, Undoes
  <2> QED
    BY <2>1 DEF CleanInv, Cleaned, Cleans
<1>13. FilesOK'
  BY DEF TypeOK, FilesOK, SetupOK
<1>14. FilesInv'
  BY DEF FilesInv, Ours, Early, Later, First, StackInv, Both, OwnSmee, OnGitHub, None
<1>15. BodyOK' /\ PickInv'
  BY DEF TypeOK, BodyOK, PickInv, Cur
<1> QED
  BY <1>1, <1>2, <1>3, <1>4, <1>5, <1>6, <1>7, <1>8, <1>9, <1>10, <1>11, <1>12, <1>13,
     <1>14, <1>15 DEF SetupInv, TypeOK


LEMMA CreateNewRepositoryStep ==
  ASSUME IInv, CreateNewRepository
  PROVE  IInv'
<1> USE DEF IInv, OuterInv, CreateNewRepository, Goto, Fine, Fault, FailSetup, Rollback,
           control, local, process, namespace, forge, body, history
<1>1. ControlOK'
  BY ConstantFacts DEF TypeOK, ControlOK, Labels
<1>2. ValuesOK'
  BY ConstantFacts DEF TypeOK, ControlOK, ValuesOK, Values, Foreign, None
<1>3. SetupOK'
  BY DEF TypeOK, SetupOK, None
<1>4. CleanupOK'
  BY DEF TypeOK, CleanupOK, StackInv, Later, OwnSmee
<1>5. ForgeOK'
  BY DEF TypeOK, ForgeOK, SetupInv, ProjectInv, Later
<1>6. StackInv'
  BY DEF StackInv, First, Early, Later, Undoes, Cleans, OwnSmee, Both, OnGitHub
<1>7. MadeInv'
  BY ConstantFacts DEF MadeInv, Early, First, OnGitHub, TypeOK, ControlOK, ForgeOK
<1>8. RelayInv'
  BY DEF SetupInv, RelayInv, First, Early, Later
<1>9. SecretInv'
  BY DEF SetupInv, SecretInv, First, Early, Later, OnGitHub
<1>10. ProjectInv'
  BY DEF SetupInv, RelayInv, ProjectInv, First, Early, Later, OnGitHub, TypeOK, ForgeOK
<1>11. UndoInv'
  <2> SUFFICES ASSUME OnGitHub', ~ready', ~lost'
               PROVE  (UndoCRInv /\ UndoSecretInv /\ UndoRepoInv)'
    BY DEF UndoInv
  <2>1. OnGitHub /\ ~ready /\ ~lost
    BY DEF OnGitHub, TypeOK, CleanupOK
  <2>2. UndoCRInv /\ UndoSecretInv /\ UndoRepoInv
    BY <2>1 DEF UndoInv
  <2>3. UndoCRInv'
    BY <2>1, <2>2 DEF UndoCRInv, First, Early, Later, Ending, StackInv, Cleans, TypeOK, SetupOK
  <2>4. UndoSecretInv'
    BY <2>1, <2>2 DEF UndoSecretInv, First, Early, Later, Ending, StackInv, Cleans, TypeOK, SetupOK
  <2>5. UndoRepoInv'
    BY <2>1, <2>2 DEF UndoRepoInv, First, Early, Later, Ending, StackInv, Cleans, TypeOK,
                  ForgeOK, Ids, None
  <2> QED
    BY <2>3, <2>4, <2>5
<1>12. CleanInv'
  <2>1. ~ready' \/ pc' = "body"
    BY DEF StackInv, First, Early, Later, Undoes
  <2> QED
    BY <2>1 DEF CleanInv, Cleaned, Cleans
<1>13. FilesOK'
  BY DEF TypeOK, FilesOK, SetupOK
<1>14. FilesInv'
  BY DEF FilesInv, Ours, Early, Later, First, StackInv, Both, OwnSmee, OnGitHub, None
<1>15. BodyOK' /\ PickInv'
  BY DEF TypeOK, BodyOK, PickInv, Cur
<1> QED
  BY <1>1, <1>2, <1>3, <1>4, <1>5, <1>6, <1>7, <1>8, <1>9, <1>10, <1>11, <1>12, <1>13,
     <1>14, <1>15 DEF SetupInv, TypeOK


LEMMA CreateRepositoryStep ==
  ASSUME IInv, CreateRepository
  PROVE  IInv'
<1> USE DEF IInv, OuterInv, CreateRepository, NoUndo, Goto, Fine, Fault, FailSetup, Rollback,
           control, local, process, namespace, forge, body, history
<1>0. made + 1 \in Ids
  BY FreshId, ShareLeft DEF Early
<1>1. ControlOK'
  BY ConstantFacts DEF TypeOK, ControlOK, Labels
<1>2. ValuesOK'
  BY ConstantFacts DEF TypeOK, ControlOK, ValuesOK, Values, Foreign, None
<1>3. SetupOK'
  <2>1. NoUndo \in [cr : BOOLEAN, secret : {"none", "delete", "restore"}]
    BY DEF NoUndo
  <2> QED
    BY <1>0, <2>1 DEF TypeOK, SetupOK
<1>4. CleanupOK'
  BY DEF TypeOK, CleanupOK, StackInv, Later, OwnSmee
<1>5. ForgeOK'
  <2>1. made' \in 0..(MaxContainers * MaxForks)
    <3>1. MaxContainers * MaxForks \in Nat
      BY ConstantFacts
    <3>2. made \in 0..(MaxContainers * MaxForks) /\ made' \in {made, made + 1}
      BY DEF TypeOK, ForgeOK
    <3> QED BY <1>0, <3>1, <3>2 DEF Ids
  <2>2. /\ (projects \cup crs) \subseteq Ids
        /\ hooks \in [Ids -> [url : Values, key : Values]]
    BY DEF TypeOK, ForgeOK
  <2>3. (projects' \cup crs') \subseteq Ids /\ UNCHANGED hooks
    BY <1>0, <2>2
  <2> QED
    BY <2>1, <2>2, <2>3 DEF ForgeOK, Ids, Values
<1>6. StackInv'
  BY DEF StackInv, First, Early, Later, Undoes, Cleans, OwnSmee, Both, OnGitHub
<1>7. MadeInv'
  BY ConstantFacts DEF MadeInv, Early, First, OnGitHub, TypeOK, ControlOK, ForgeOK
<1>8. RelayInv'
  BY DEF SetupInv, RelayInv, First, Early, Later
<1>9. SecretInv'
  BY DEF SetupInv, SecretInv, First, Early, Later, OnGitHub
<1>10. ProjectInv'
  BY <1>0 DEF SetupInv, RelayInv, ProjectInv, First, Early, Later, OnGitHub, TypeOK, ForgeOK
<1>11. UndoInv'
  <2> SUFFICES ASSUME OnGitHub', ~ready', ~lost'
               PROVE  (UndoCRInv /\ UndoSecretInv /\ UndoRepoInv)'
    BY DEF UndoInv
  <2>1. OnGitHub /\ ~ready /\ ~lost
    BY DEF OnGitHub, TypeOK, CleanupOK
  <2>2. UndoCRInv /\ UndoSecretInv /\ UndoRepoInv
    BY <2>1 DEF UndoInv
  <2>3. UndoCRInv'
    BY <2>1, <2>2 DEF UndoCRInv, First, Early, Later, Ending, StackInv, Cleans, TypeOK, SetupOK
  <2>4. UndoSecretInv'
    BY <2>1, <2>2 DEF UndoSecretInv, First, Early, Later, Ending, StackInv, Cleans, TypeOK, SetupOK
  <2>5. UndoRepoInv'
    BY <2>1, <2>2 DEF UndoRepoInv, First, Early, Later, Ending, StackInv, Cleans, TypeOK,
                  ForgeOK, Ids, None
  <2> QED
    BY <2>3, <2>4, <2>5
<1>12. CleanInv'
  <2>1. ~ready' \/ pc' = "body"
    BY DEF StackInv, First, Early, Later, Undoes
  <2> QED
    BY <2>1 DEF CleanInv, Cleaned, Cleans
<1>13. FilesOK'
  BY <1>0 DEF TypeOK, FilesOK, SetupOK
<1>14. FilesInv'
  BY DEF FilesInv, Ours, Early, Later, First, StackInv, Both, OwnSmee, OnGitHub, None
<1>15. BodyOK' /\ PickInv'
  BY DEF TypeOK, BodyOK, PickInv, Cur
<1> QED
  BY <1>1, <1>2, <1>3, <1>4, <1>5, <1>6, <1>7, <1>8, <1>9, <1>10, <1>11, <1>12, <1>13,
     <1>14, <1>15 DEF SetupInv, TypeOK


LEMMA FindOwnerStep ==
  ASSUME IInv, FindOwner
  PROVE  IInv'
<1> USE DEF IInv, OuterInv, FindOwner, Goto, Fine, Fault, FailSetup, Rollback,
           control, local, process, namespace, forge, body, history
<1>1. ControlOK'
  BY ConstantFacts DEF TypeOK, ControlOK, Labels
<1>2. ValuesOK'
  BY ConstantFacts DEF TypeOK, ControlOK, ValuesOK, Values, Foreign, None
<1>3. SetupOK'
  BY DEF TypeOK, SetupOK, None
<1>4. CleanupOK'
  BY DEF TypeOK, CleanupOK, StackInv, Later, OwnSmee
<1>5. ForgeOK'
  BY ConstantFacts DEF TypeOK, ControlOK, ValuesOK, SetupOK, ForgeOK, MadeInv, OnGitHub, Ids, Values
<1>6. StackInv'
  BY DEF StackInv, First, Early, Later, Undoes, Cleans, OwnSmee, Both, OnGitHub
<1>7. MadeInv'
  BY ConstantFacts DEF MadeInv, Early, First, OnGitHub, TypeOK, ControlOK, ForgeOK
<1>8. RelayInv'
  BY DEF SetupInv, RelayInv, First, Early, Later
<1>9. SecretInv'
  BY DEF SetupInv, SecretInv, First, Early, Later, OnGitHub
<1>10. ProjectInv'
  BY DEF SetupInv, RelayInv, ProjectInv, First, Early, Later, OnGitHub, TypeOK, ForgeOK
<1>11. UndoInv'
  <2> SUFFICES ASSUME OnGitHub', ~ready', ~lost'
               PROVE  (UndoCRInv /\ UndoSecretInv /\ UndoRepoInv)'
    BY DEF UndoInv
  <2>1. OnGitHub /\ ~ready /\ ~lost
    BY DEF OnGitHub, TypeOK, CleanupOK
  <2>2. UndoCRInv /\ UndoSecretInv /\ UndoRepoInv
    BY <2>1 DEF UndoInv
  <2>3. UndoCRInv'
    BY <2>1, <2>2 DEF UndoCRInv, First, Early, Later, Ending, StackInv, Cleans, TypeOK, SetupOK
  <2>4. UndoSecretInv'
    BY <2>1, <2>2 DEF UndoSecretInv, First, Early, Later, Ending, StackInv, Cleans, TypeOK, SetupOK
  <2>5. UndoRepoInv'
    BY <2>1, <2>2 DEF UndoRepoInv, First, Early, Later, Ending, StackInv, Cleans, TypeOK,
                  ForgeOK, Ids, None
  <2> QED
    BY <2>3, <2>4, <2>5
<1>12. CleanInv'
  <2>1. ~ready' \/ pc' = "body"
    BY DEF StackInv, First, Early, Later, Undoes
  <2> QED
    BY <2>1 DEF CleanInv, Cleaned, Cleans
<1>13. FilesOK'
  BY DEF TypeOK, FilesOK, SetupOK
<1>14. FilesInv'
  BY DEF FilesInv, Ours, Early, Later, First, StackInv, Both, OwnSmee, OnGitHub, None
<1>15. BodyOK' /\ PickInv'
  BY DEF TypeOK, BodyOK, PickInv, Cur
<1> QED
  BY <1>1, <1>2, <1>3, <1>4, <1>5, <1>6, <1>7, <1>8, <1>9, <1>10, <1>11, <1>12, <1>13,
     <1>14, <1>15 DEF SetupInv, TypeOK


LEMMA RepositoryReadyStep ==
  ASSUME IInv, RepositoryReady
  PROVE  IInv'
<1> USE DEF IInv, OuterInv, RepositoryReady, Goto, Fine, Fault, FailSetup, Rollback,
           control, local, process, namespace, forge, body, history
<1>1. ControlOK'
  BY ConstantFacts DEF TypeOK, ControlOK, Labels
<1>2. ValuesOK'
  BY ConstantFacts DEF TypeOK, ControlOK, ValuesOK, Values, Foreign, None
<1>3. SetupOK'
  BY DEF TypeOK, SetupOK, None
<1>4. CleanupOK'
  BY DEF TypeOK, CleanupOK, StackInv, Later, OwnSmee
<1>5. ForgeOK'
  BY ConstantFacts DEF TypeOK, ControlOK, ValuesOK, SetupOK, ForgeOK, MadeInv, OnGitHub, Ids, Values
<1>6. StackInv'
  BY DEF StackInv, First, Early, Later, Undoes, Cleans, OwnSmee, Both, OnGitHub
<1>7. MadeInv'
  BY ConstantFacts DEF MadeInv, Early, First, OnGitHub, TypeOK, ControlOK, ForgeOK
<1>8. RelayInv'
  BY DEF SetupInv, RelayInv, First, Early, Later
<1>9. SecretInv'
  BY DEF SetupInv, SecretInv, First, Early, Later, OnGitHub
<1>10. ProjectInv'
  BY DEF SetupInv, RelayInv, ProjectInv, First, Early, Later, OnGitHub, TypeOK, ForgeOK
<1>11. UndoInv'
  <2> SUFFICES ASSUME OnGitHub', ~ready', ~lost'
               PROVE  (UndoCRInv /\ UndoSecretInv /\ UndoRepoInv)'
    BY DEF UndoInv
  <2>1. OnGitHub /\ ~ready /\ ~lost
    BY DEF OnGitHub, TypeOK, CleanupOK
  <2>2. UndoCRInv /\ UndoSecretInv /\ UndoRepoInv
    BY <2>1 DEF UndoInv
  <2>3. UndoCRInv'
    BY <2>1, <2>2 DEF UndoCRInv, First, Early, Later, Ending, StackInv, Cleans, TypeOK, SetupOK
  <2>4. UndoSecretInv'
    BY <2>1, <2>2 DEF UndoSecretInv, First, Early, Later, Ending, StackInv, Cleans, TypeOK, SetupOK
  <2>5. UndoRepoInv'
    BY <2>1, <2>2 DEF UndoRepoInv, First, Early, Later, Ending, StackInv, Cleans, TypeOK,
                  ForgeOK, Ids, None
  <2> QED
    BY <2>3, <2>4, <2>5
<1>12. CleanInv'
  <2>1. ~ready' \/ pc' = "body"
    BY DEF StackInv, First, Early, Later, Undoes
  <2> QED
    BY <2>1 DEF CleanInv, Cleaned, Cleans
<1>13. FilesOK'
  BY DEF TypeOK, FilesOK, SetupOK
<1>14. FilesInv'
  BY DEF FilesInv, Ours, Early, Later, First, StackInv, Both, OwnSmee, OnGitHub, None
<1>15. BodyOK' /\ PickInv'
  BY DEF TypeOK, BodyOK, PickInv, Cur
<1> QED
  BY <1>1, <1>2, <1>3, <1>4, <1>5, <1>6, <1>7, <1>8, <1>9, <1>10, <1>11, <1>12, <1>13,
     <1>14, <1>15 DEF SetupInv, TypeOK


LEMMA EnsureWebhookSecretStep ==
  ASSUME IInv, EnsureWebhookSecret
  PROVE  IInv'
<1> USE DEF IInv, OuterInv, EnsureWebhookSecret, WantedSecret, Goto, Fine, Fault, FailSetup, Rollback,
           control, local, process, namespace, forge, body, history
<1>1. ControlOK'
  BY ConstantFacts DEF TypeOK, ControlOK, Labels
<1>2. ValuesOK'
  BY ConstantFacts DEF TypeOK, ControlOK, ValuesOK, Values, Foreign, None
<1>3. SetupOK'
  BY DEF TypeOK, SetupOK, None
<1>4. CleanupOK'
  BY DEF TypeOK, CleanupOK, StackInv, Later, OwnSmee
<1>5. ForgeOK'
  BY ConstantFacts DEF TypeOK, ControlOK, ValuesOK, SetupOK, ForgeOK, MadeInv, OnGitHub, Ids, Values
<1>6. StackInv'
  BY DEF StackInv, First, Early, Later, Undoes, Cleans, OwnSmee, Both, OnGitHub
<1>7. MadeInv'
  BY ConstantFacts DEF MadeInv, Early, First, OnGitHub, TypeOK, ControlOK, ForgeOK
<1>8. RelayInv'
  BY DEF SetupInv, RelayInv, First, Early, Later
<1>9. SecretInv'
  BY DEF SetupInv, SecretInv, First, Early, Later, OnGitHub
<1>10. ProjectInv'
  BY DEF SetupInv, RelayInv, ProjectInv, StackInv, First, Early, Later, OnGitHub, TypeOK, ForgeOK
<1>11. UndoInv'
  <2> SUFFICES ASSUME OnGitHub', ~ready', ~lost'
               PROVE  (UndoCRInv /\ UndoSecretInv /\ UndoRepoInv)'
    BY DEF UndoInv
  <2>1. OnGitHub /\ ~ready /\ ~lost
    BY DEF OnGitHub, TypeOK, CleanupOK
  <2>2. UndoCRInv /\ UndoSecretInv /\ UndoRepoInv
    BY <2>1 DEF UndoInv
  <2>3. UndoCRInv'
    BY <2>1, <2>2 DEF UndoCRInv, First, Early, Later, Ending, StackInv, Cleans, TypeOK, SetupOK
  <2>4. UndoSecretInv'
    BY <2>1, <2>2 DEF UndoSecretInv, First, Early, Later, Ending, StackInv, Cleans, TypeOK, SetupOK
  <2>5. UndoRepoInv'
    BY <2>1, <2>2 DEF UndoRepoInv, First, Early, Later, Ending, StackInv, Cleans, TypeOK,
                  ForgeOK, Ids, None
  <2> QED
    BY <2>3, <2>4, <2>5
<1>12. CleanInv'
  <2>1. ~ready' \/ pc' = "body"
    BY DEF StackInv, First, Early, Later, Undoes
  <2> QED
    BY <2>1 DEF CleanInv, Cleaned, Cleans
<1>13. FilesOK'
  BY DEF TypeOK, FilesOK, SetupOK
<1>14. FilesInv'
  BY DEF FilesInv, Ours, Early, Later, First, StackInv, Both, OwnSmee, OnGitHub, None
<1>15. BodyOK' /\ PickInv'
  BY DEF TypeOK, BodyOK, PickInv, Cur
<1> QED
  BY <1>1, <1>2, <1>3, <1>4, <1>5, <1>6, <1>7, <1>8, <1>9, <1>10, <1>11, <1>12, <1>13,
     <1>14, <1>15 DEF SetupInv, TypeOK


LEMMA CreateGitHubRepositoryCRStep ==
  ASSUME IInv, CreateGitHubRepositoryCR
  PROVE  IInv'
<1> USE DEF IInv, OuterInv, CreateGitHubRepositoryCR, Goto, Fine, Fault, FailSetup, Rollback,
           control, local, process, namespace, forge, body, history
<1>1. ControlOK'
  BY ConstantFacts DEF TypeOK, ControlOK, Labels
<1>2. ValuesOK'
  BY ConstantFacts DEF TypeOK, ControlOK, ValuesOK, Values, Foreign, None
<1>3. SetupOK'
  BY DEF TypeOK, SetupOK, None
<1>4. CleanupOK'
  BY DEF TypeOK, CleanupOK, StackInv, Later, OwnSmee
<1>5. ForgeOK'
  BY DEF TypeOK, ForgeOK, SetupInv, ProjectInv, Later
<1>6. StackInv'
  BY DEF StackInv, First, Early, Later, Undoes, Cleans, OwnSmee, Both, OnGitHub
<1>7. MadeInv'
  BY ConstantFacts DEF MadeInv, Early, First, OnGitHub, TypeOK, ControlOK, ForgeOK
<1>8. RelayInv'
  BY DEF SetupInv, RelayInv, First, Early, Later
<1>9. SecretInv'
  BY DEF SetupInv, SecretInv, First, Early, Later, OnGitHub
<1>10. ProjectInv'
  BY DEF SetupInv, RelayInv, ProjectInv, First, Early, Later, OnGitHub, TypeOK, ForgeOK
<1>11. UndoInv'
  <2> SUFFICES ASSUME OnGitHub', ~ready', ~lost'
               PROVE  (UndoCRInv /\ UndoSecretInv /\ UndoRepoInv)'
    BY DEF UndoInv
  <2>1. OnGitHub /\ ~ready /\ ~lost
    BY DEF OnGitHub, TypeOK, CleanupOK
  <2>2. UndoCRInv /\ UndoSecretInv /\ UndoRepoInv
    BY <2>1 DEF UndoInv
  <2>3. UndoCRInv'
    BY <2>1, <2>2 DEF UndoCRInv, First, Early, Later, Ending, StackInv, Cleans, TypeOK, SetupOK
  <2>4. UndoSecretInv'
    BY <2>1, <2>2 DEF UndoSecretInv, First, Early, Later, Ending, StackInv, Cleans, TypeOK, SetupOK
  <2>5. UndoRepoInv'
    BY <2>1, <2>2 DEF UndoRepoInv, First, Early, Later, Ending, StackInv, Cleans, TypeOK,
                  ForgeOK, Ids, None
  <2> QED
    BY <2>3, <2>4, <2>5
<1>12. CleanInv'
  <2>1. ~ready' \/ pc' = "body"
    BY DEF StackInv, First, Early, Later, Undoes
  <2> QED
    BY <2>1 DEF CleanInv, Cleaned, Cleans
<1>13. FilesOK'
  BY DEF TypeOK, FilesOK, SetupOK
<1>14. FilesInv'
  BY DEF FilesInv, Ours, Early, Later, First, StackInv, Both, OwnSmee, OnGitHub, None
<1>15. BodyOK' /\ PickInv'
  BY DEF TypeOK, BodyOK, PickInv, Cur
<1> QED
  BY <1>1, <1>2, <1>3, <1>4, <1>5, <1>6, <1>7, <1>8, <1>9, <1>10, <1>11, <1>12, <1>13,
     <1>14, <1>15 DEF SetupInv, TypeOK


LEMMA AddGitHubWebhookStep ==
  ASSUME IInv, AddGitHubWebhook
  PROVE  IInv'
<1> USE DEF IInv, OuterInv, AddGitHubWebhook, Goto, Fine, Fault, FailSetup, Rollback,
           control, local, process, namespace, forge, body, history
<1>0. defers = <<"smee">> /\ Append(defers, "project") = <<"smee", "project">>
  <2>1. defers = <<"smee">>
    BY DEF StackInv, Later, OwnSmee
  <2> QED
    BY <2>1, PushPair
<1>1. ControlOK'
  BY ConstantFacts DEF TypeOK, ControlOK, Labels
<1>2. ValuesOK'
  BY ConstantFacts DEF TypeOK, ControlOK, ValuesOK, Values, Foreign, None
<1>3. SetupOK'
  BY DEF TypeOK, SetupOK, None
<1>4. CleanupOK'
  BY <1>0 DEF TypeOK, CleanupOK
<1>5. ForgeOK'
  <2>1. [url |-> smeeURL, key |-> container] \in [url : Values, key : Values]
    BY ConstantFacts DEF TypeOK, ControlOK, ValuesOK, Values, Foreign
  <2> QED
    BY <2>1 DEF TypeOK, ForgeOK
<1>6. StackInv'
  BY <1>0 DEF StackInv, First, Early, Later, Undoes, Cleans, OwnSmee, Both, OnGitHub
<1>7. MadeInv'
  BY ConstantFacts DEF MadeInv, Early, First, OnGitHub, TypeOK, ControlOK, ForgeOK
<1>8. RelayInv'
  BY DEF SetupInv, RelayInv, First, Early, Later
<1>9. SecretInv'
  BY DEF SetupInv, SecretInv, First, Early, Later, OnGitHub
<1>10. ProjectInv'
  BY DEF SetupInv, RelayInv, ProjectInv, First, Early, Later, OnGitHub, TypeOK, ForgeOK
<1>11. UndoInv'
  <2> SUFFICES ASSUME OnGitHub', ~ready', ~lost'
               PROVE  (UndoCRInv /\ UndoSecretInv /\ UndoRepoInv)'
    BY DEF UndoInv
  <2>1. OnGitHub /\ ~ready /\ ~lost
    BY DEF OnGitHub, TypeOK, CleanupOK
  <2>2. UndoCRInv /\ UndoSecretInv /\ UndoRepoInv
    BY <2>1 DEF UndoInv
  <2>3. UndoCRInv'
    BY <2>1, <2>2 DEF UndoCRInv, First, Early, Later, Ending, StackInv, Cleans, TypeOK, SetupOK
  <2>4. UndoSecretInv'
    BY <2>1, <2>2 DEF UndoSecretInv, First, Early, Later, Ending, StackInv, Cleans, TypeOK, SetupOK
  <2>5. UndoRepoInv'
    BY <2>1, <2>2 DEF UndoRepoInv, First, Early, Later, Ending, StackInv, Cleans, TypeOK,
                  ForgeOK, Ids, None
  <2> QED
    BY <2>3, <2>4, <2>5
<1>12. CleanInv'
  <2>1. ~ready' \/ pc' = "body"
    BY DEF StackInv, First, Early, Later, Undoes
  <2> QED
    BY <2>1 DEF CleanInv, Cleaned, Cleans
<1>13. FilesOK'
  BY DEF TypeOK, FilesOK, SetupOK
<1>14. FilesInv'
  BY DEF FilesInv, Ours, Early, Later, First, StackInv, Both, OwnSmee, OnGitHub, None
<1>15. BodyOK' /\ PickInv'
  BY DEF TypeOK, BodyOK, PickInv, Cur
<1> QED
  BY <1>1, <1>2, <1>3, <1>4, <1>5, <1>6, <1>7, <1>8, <1>9, <1>10, <1>11, <1>12, <1>13,
     <1>14, <1>15 DEF SetupInv, TypeOK


LEMMA UndoCRStep ==
  ASSUME IInv, UndoCR
  PROVE  IInv'
<1> USE DEF IInv, OuterInv, UndoCR, Goto, Fine, Fault, FailSetup, Rollback,
           control, local, process, namespace, forge, body, history
<1>1. ControlOK'
  BY ConstantFacts DEF TypeOK, ControlOK, Labels
<1>2. ValuesOK'
  BY ConstantFacts DEF TypeOK, ControlOK, ValuesOK, Values, Foreign, None
<1>3. SetupOK'
  BY DEF TypeOK, SetupOK, None
<1>4. CleanupOK'
  BY DEF TypeOK, CleanupOK, StackInv, Later, OwnSmee
<1>5. ForgeOK'
  BY ConstantFacts DEF TypeOK, ControlOK, ValuesOK, SetupOK, ForgeOK, MadeInv, OnGitHub, Ids, Values
<1>6. StackInv'
  BY DEF StackInv, First, Early, Later, Undoes, Cleans, OwnSmee, Both, OnGitHub
<1>7. MadeInv'
  BY ConstantFacts DEF MadeInv, Early, First, OnGitHub, TypeOK, ControlOK, ForgeOK
<1>8. RelayInv'
  BY DEF SetupInv, RelayInv, First, Early, Later
<1>9. SecretInv'
  BY DEF SetupInv, SecretInv, First, Early, Later, OnGitHub
<1>10. ProjectInv'
  BY DEF SetupInv, RelayInv, ProjectInv, First, Early, Later, OnGitHub, TypeOK, ForgeOK
<1>11. UndoInv'
  <2> SUFFICES ASSUME OnGitHub', ~ready', ~lost'
               PROVE  (UndoCRInv /\ UndoSecretInv /\ UndoRepoInv)'
    BY DEF UndoInv
  <2>1. OnGitHub /\ ~ready /\ ~lost
    BY DEF OnGitHub, TypeOK, CleanupOK
  <2>2. UndoCRInv /\ UndoSecretInv /\ UndoRepoInv
    BY <2>1 DEF UndoInv
  <2>3. UndoCRInv'
    BY <2>1, <2>2 DEF UndoCRInv, First, Early, Later, Ending, StackInv, Cleans, TypeOK, SetupOK
  <2>4. UndoSecretInv'
    BY <2>1, <2>2 DEF UndoSecretInv, First, Early, Later, Ending, StackInv, Cleans, TypeOK, SetupOK
  <2>5. UndoRepoInv'
    BY <2>1, <2>2 DEF UndoRepoInv, First, Early, Later, Ending, StackInv, Cleans, TypeOK,
                  ForgeOK, Ids, None
  <2> QED
    BY <2>3, <2>4, <2>5
<1>12. CleanInv'
  <2>1. ~ready' \/ pc' = "body"
    BY DEF StackInv, First, Early, Later, Undoes
  <2> QED
    BY <2>1 DEF CleanInv, Cleaned, Cleans
<1>13. FilesOK'
  BY DEF TypeOK, FilesOK, SetupOK
<1>14. FilesInv'
  BY DEF FilesInv, Ours, Early, Later, First, StackInv, Both, OwnSmee, OnGitHub, None
<1>15. BodyOK' /\ PickInv'
  BY DEF TypeOK, BodyOK, PickInv, Cur
<1> QED
  BY <1>1, <1>2, <1>3, <1>4, <1>5, <1>6, <1>7, <1>8, <1>9, <1>10, <1>11, <1>12, <1>13,
     <1>14, <1>15 DEF SetupInv, TypeOK


LEMMA UndoSecretStep ==
  ASSUME IInv, UndoSecret
  PROVE  IInv'
<1> USE DEF IInv, OuterInv, UndoSecret, Goto, Fine, Fault, FailSetup, Rollback,
           control, local, process, namespace, forge, body, history
<1>1. ControlOK'
  BY ConstantFacts DEF TypeOK, ControlOK, Labels
<1>2. ValuesOK'
  BY ConstantFacts DEF TypeOK, ControlOK, ValuesOK, Values, Foreign, None
<1>3. SetupOK'
  BY DEF TypeOK, SetupOK, None
<1>4. CleanupOK'
  BY DEF TypeOK, CleanupOK, StackInv, Later, OwnSmee
<1>5. ForgeOK'
  BY ConstantFacts DEF TypeOK, ControlOK, ValuesOK, SetupOK, ForgeOK, MadeInv, OnGitHub, Ids, Values
<1>6. StackInv'
  BY DEF StackInv, First, Early, Later, Undoes, Cleans, OwnSmee, Both, OnGitHub
<1>7. MadeInv'
  BY ConstantFacts DEF MadeInv, Early, First, OnGitHub, TypeOK, ControlOK, ForgeOK
<1>8. RelayInv'
  BY DEF SetupInv, RelayInv, First, Early, Later
<1>9. SecretInv'
  BY DEF SetupInv, SecretInv, First, Early, Later, OnGitHub
<1>10. ProjectInv'
  BY DEF SetupInv, RelayInv, ProjectInv, First, Early, Later, OnGitHub, TypeOK, ForgeOK
<1>11. UndoInv'
  <2> SUFFICES ASSUME OnGitHub', ~ready', ~lost'
               PROVE  (UndoCRInv /\ UndoSecretInv /\ UndoRepoInv)'
    BY DEF UndoInv
  <2>1. OnGitHub /\ ~ready /\ ~lost
    BY DEF OnGitHub, TypeOK, CleanupOK
  <2>2. UndoCRInv /\ UndoSecretInv /\ UndoRepoInv
    BY <2>1 DEF UndoInv
  <2>3. UndoCRInv'
    BY <2>1, <2>2 DEF UndoCRInv, First, Early, Later, Ending, StackInv, Cleans, TypeOK, SetupOK
  <2>4. UndoSecretInv'
    BY <2>1, <2>2 DEF UndoSecretInv, First, Early, Later, Ending, StackInv, Cleans, TypeOK, SetupOK
  <2>5. UndoRepoInv'
    BY <2>1, <2>2 DEF UndoRepoInv, First, Early, Later, Ending, StackInv, Cleans, TypeOK,
                  ForgeOK, Ids, None
  <2> QED
    BY <2>3, <2>4, <2>5
<1>12. CleanInv'
  <2>1. ~ready' \/ pc' = "body"
    BY DEF StackInv, First, Early, Later, Undoes
  <2> QED
    BY <2>1 DEF CleanInv, Cleaned, Cleans
<1>13. FilesOK'
  BY DEF TypeOK, FilesOK, SetupOK
<1>14. FilesInv'
  BY DEF FilesInv, Ours, Early, Later, First, StackInv, Both, OwnSmee, OnGitHub, None
<1>15. BodyOK' /\ PickInv'
  BY DEF TypeOK, BodyOK, PickInv, Cur
<1> QED
  BY <1>1, <1>2, <1>3, <1>4, <1>5, <1>6, <1>7, <1>8, <1>9, <1>10, <1>11, <1>12, <1>13,
     <1>14, <1>15 DEF SetupInv, TypeOK


LEMMA UndoRepositoryStep ==
  ASSUME IInv, UndoRepository
  PROVE  IInv'
<1> USE DEF IInv, OuterInv, UndoRepository, Goto, Fine, Fault, FailSetup, Rollback,
           control, local, process, namespace, forge, body, history
<1>1. ControlOK'
  BY ConstantFacts DEF TypeOK, ControlOK, Labels
<1>2. ValuesOK'
  BY ConstantFacts DEF TypeOK, ControlOK, ValuesOK, Values, Foreign, None
<1>3. SetupOK'
  BY DEF TypeOK, SetupOK, None
<1>4. CleanupOK'
  BY DEF TypeOK, CleanupOK, StackInv, Later, OwnSmee
<1>5. ForgeOK'
  BY ConstantFacts DEF TypeOK, ControlOK, ValuesOK, SetupOK, ForgeOK, MadeInv, OnGitHub, Ids, Values
<1>6. StackInv'
  BY DEF StackInv, First, Early, Later, Undoes, Cleans, OwnSmee, Both, OnGitHub
<1>7. MadeInv'
  BY ConstantFacts DEF MadeInv, Early, First, OnGitHub, TypeOK, ControlOK, ForgeOK
<1>8. RelayInv'
  BY DEF SetupInv, RelayInv, First, Early, Later
<1>9. SecretInv'
  BY DEF SetupInv, SecretInv, First, Early, Later, OnGitHub
<1>10. ProjectInv'
  BY DEF SetupInv, RelayInv, ProjectInv, First, Early, Later, OnGitHub, TypeOK, ForgeOK
<1>11. UndoInv'
  <2> SUFFICES ASSUME OnGitHub', ~ready', ~lost'
               PROVE  (UndoCRInv /\ UndoSecretInv /\ UndoRepoInv)'
    BY DEF UndoInv
  <2>1. OnGitHub /\ ~ready /\ ~lost
    BY DEF OnGitHub, TypeOK, CleanupOK
  <2>2. UndoCRInv /\ UndoSecretInv /\ UndoRepoInv
    BY <2>1 DEF UndoInv
  <2>3. UndoCRInv'
    BY <2>1, <2>2 DEF UndoCRInv, First, Early, Later, Ending, StackInv, Cleans, TypeOK, SetupOK
  <2>4. UndoSecretInv'
    BY <2>1, <2>2 DEF UndoSecretInv, First, Early, Later, Ending, StackInv, Cleans, TypeOK, SetupOK
  <2>5. UndoRepoInv'
    BY <2>1, <2>2 DEF UndoRepoInv, First, Early, Later, Ending, StackInv, Cleans, TypeOK,
                  ForgeOK, Ids, None
  <2> QED
    BY <2>3, <2>4, <2>5
<1>12. CleanInv'
  <2>1. ~ready' \/ pc' = "body"
    BY DEF StackInv, First, Early, Later, Undoes
  <2> QED
    BY <2>1 DEF CleanInv, Cleaned, Cleans
<1>13. FilesOK'
  BY DEF TypeOK, FilesOK, SetupOK
<1>14. FilesInv'
  BY DEF FilesInv, Ours, Early, Later, First, StackInv, Both, OwnSmee, OnGitHub, None
<1>15. BodyOK' /\ PickInv'
  BY DEF TypeOK, BodyOK, PickInv, Cur
<1> QED
  BY <1>1, <1>2, <1>3, <1>4, <1>5, <1>6, <1>7, <1>8, <1>9, <1>10, <1>11, <1>12, <1>13,
     <1>14, <1>15 DEF SetupInv, TypeOK


LEMMA EndBodyStep ==
  ASSUME IInv, EndBody
  PROVE  IInv'
<1> USE DEF IInv, OuterInv, EndBody, Afresh, NoFiles, NoFile, Goto, Fine, Fault, FailSetup, Rollback,
           control, local, process, namespace, forge, body, history
<1>1. ControlOK'
  BY ConstantFacts DEF TypeOK, ControlOK, Labels
<1>2. ValuesOK'
  BY ConstantFacts DEF TypeOK, ControlOK, ValuesOK, Values, Foreign, None
<1>3. SetupOK'
  BY DEF TypeOK, SetupOK, None
<1>4. CleanupOK'
  BY DEF TypeOK, CleanupOK, StackInv, Later, OwnSmee
<1>5. ForgeOK'
  BY ConstantFacts DEF TypeOK, ControlOK, ValuesOK, SetupOK, ForgeOK, MadeInv, OnGitHub, Ids, Values
<1>6. StackInv'
  BY DEF StackInv, First, Early, Later, Undoes, Cleans, OwnSmee, Both, OnGitHub
<1>7. MadeInv'
  BY ConstantFacts DEF MadeInv, Early, First, OnGitHub, TypeOK, ControlOK, ForgeOK
<1>8. RelayInv'
  BY DEF SetupInv, RelayInv, First, Early, Later
<1>9. SecretInv'
  BY DEF SetupInv, SecretInv, First, Early, Later, OnGitHub
<1>10. ProjectInv'
  BY DEF SetupInv, RelayInv, ProjectInv, First, Early, Later, OnGitHub, TypeOK, ForgeOK
<1>11. UndoInv'
  <2> SUFFICES ASSUME OnGitHub', ~ready', ~lost'
               PROVE  (UndoCRInv /\ UndoSecretInv /\ UndoRepoInv)'
    BY DEF UndoInv
  <2>1. OnGitHub /\ ~ready /\ ~lost
    BY DEF OnGitHub, TypeOK, CleanupOK
  <2>2. UndoCRInv /\ UndoSecretInv /\ UndoRepoInv
    BY <2>1 DEF UndoInv
  <2>3. UndoCRInv'
    BY <2>1, <2>2 DEF UndoCRInv, First, Early, Later, Ending, StackInv, Cleans, TypeOK, SetupOK
  <2>4. UndoSecretInv'
    BY <2>1, <2>2 DEF UndoSecretInv, First, Early, Later, Ending, StackInv, Cleans, TypeOK, SetupOK
  <2>5. UndoRepoInv'
    BY <2>1, <2>2 DEF UndoRepoInv, First, Early, Later, Ending, StackInv, Cleans, TypeOK,
                  ForgeOK, Ids, None
  <2> QED
    BY <2>3, <2>4, <2>5
<1>12. CleanInv'
  BY DEF CleanInv, Cleaned, Cleans, Both, OwnSmee, StackInv, OnGitHub
<1>13. FilesOK'
  <2>1. NoFiles \in [Events -> FileType] /\ NoFile \in FileType
    BY DEF NoFiles, NoFile, FileType
  <2> QED
    BY <2>1 DEF TypeOK, FilesOK
<1>14. FilesInv'
  BY DEF FilesInv, Ours, Early, Later, First, StackInv, Both, OwnSmee, OnGitHub, None
<1>15. BodyOK' /\ PickInv'
  <2>1. Len(script') \in Nat
    BY ScriptsAssumption DEF TypeOK, ControlOK
  <2>2. <<>> \in Seq(WireEvents) /\ <<>> \in Seq(RunType)
    OBVIOUS
  <2>3. 1 \in 1..(Len(script') + 1)
    BY <2>1
  <2> QED
    BY <2>2, <2>3 DEF BodyOK, PickInv
<1> QED
  BY <1>1, <1>2, <1>3, <1>4, <1>5, <1>6, <1>7, <1>8, <1>9, <1>10, <1>11, <1>12, <1>13,
     <1>14, <1>15 DEF SetupInv, TypeOK


\* What is left of the files when they have been removed.
LEMMA NoFilesLeft ==
  ASSUME files \in [Events -> FileType], RemoveFiles
  PROVE  /\ files' \in [Events -> FileType] /\ \A e \in Events : files'[e].url \in {None, Stale}
         /\ Fine \/ Fault
         /\ \A e \in Events : files'[e].url = None => files'[e].on = "none"
<1>1. PICK left \in SUBSET Events : files' = RemovedFiles(left) /\ (Fine \/ Fault)
  BY DEF RemoveFiles
<1>2. Stale # None
  BY ConstantFacts DEF Stale, None
<1>3. ASSUME NEW e \in Events
      PROVE  /\ LeftAs(e) \in FileType /\ LeftAs(e).url = Stale
             /\ NoFile \in FileType /\ NoFile.url = None /\ NoFile.on = "none"
  BY DEF LeftAs, FileType, NoFile
<1> QED
  BY <1>1, <1>2, <1>3 DEF RemovedFiles

LEMMA StartCleanupStep ==
  ASSUME IInv, StartCleanup
  PROVE  IInv'
<1> USE DEF IInv, OuterInv, StartCleanup, Goto, Fine, Fault, FailSetup, Rollback,
           control, local, process, namespace, forge, body, history
<1>0. pc = "defer" => \/ defers = <<>>
                      \/ /\ defers # <<>> /\ defers[Len(defers)] = "smee" /\ OnGitHub
                         /\ defers = OwnSmee /\ defers # Both
                         /\ SubSeq(defers, 1, Len(defers) - 1) = <<>>
                      \/ /\ defers # <<>> /\ defers[Len(defers)] = "project" /\ ready
                         /\ defers = Both /\ defers # OwnSmee
                         /\ SubSeq(defers, 1, Len(defers) - 1) = OwnSmee
  BY StackFacts DEF StackInv, OwnSmee, Both
<1>2a. /\ files' \in [Events -> FileType]
       /\ files' = files \/ \A e \in Events : files'[e].url \in {None, Stale}
       /\ defers # <<>> /\ defers[Len(defers)] = "project"
            => \A e \in Events : files'[e].url \in {None, Stale}
       /\ Fine \/ Fault
  <2>1. files \in [Events -> FileType]
    BY DEF TypeOK, FilesOK
  <2>2. CASE UNCHANGED files /\ Fine
            /\ ~(defers # <<>> /\ defers[Len(defers)] = "project")
    BY <2>1, <2>2
  <2>3. CASE RemoveFiles
    BY <2>1, <2>3, NoFilesLeft
  <2> QED
    BY <1>0, <2>2, <2>3
<1> HIDE DEF RemoveFiles
<1>1. ControlOK'
  BY <1>2a, ConstantFacts DEF TypeOK, ControlOK, Labels
<1>2. ValuesOK'
  BY ConstantFacts DEF TypeOK, ControlOK, ValuesOK, Values, Foreign, None
<1>3. SetupOK'
  BY DEF TypeOK, SetupOK, None
<1>4. CleanupOK'
  BY <1>0 DEF TypeOK, CleanupOK, StackInv, OwnSmee, Both
<1>5. ForgeOK'
  BY ConstantFacts DEF TypeOK, ControlOK, ValuesOK, SetupOK, ForgeOK, MadeInv, OnGitHub, Ids, Values
<1>6. StackInv'
  BY <1>0 DEF StackInv, First, Early, Later, Undoes, Cleans, OwnSmee, Both, OnGitHub
<1>7. MadeInv'
  BY ConstantFacts DEF MadeInv, Early, First, OnGitHub, TypeOK, ControlOK, ForgeOK
<1>8. RelayInv'
  BY DEF SetupInv, RelayInv, First, Early, Later
<1>9. SecretInv'
  BY DEF SetupInv, SecretInv, First, Early, Later, OnGitHub
<1>10. ProjectInv'
  BY DEF SetupInv, RelayInv, ProjectInv, First, Early, Later, OnGitHub, TypeOK, ForgeOK
<1>11. UndoInv'
  <2> SUFFICES ASSUME OnGitHub', ~ready', ~lost'
               PROVE  (UndoCRInv /\ UndoSecretInv /\ UndoRepoInv)'
    BY DEF UndoInv
  <2>1. OnGitHub /\ ~ready /\ ~lost
    BY DEF OnGitHub, TypeOK, CleanupOK
  <2>2. UndoCRInv /\ UndoSecretInv /\ UndoRepoInv
    BY <2>1 DEF UndoInv
  <2>3. UndoCRInv'
    BY <2>1, <2>2 DEF UndoCRInv, First, Early, Later, Ending, StackInv, Cleans, TypeOK, SetupOK
  <2>4. UndoSecretInv'
    BY <2>1, <2>2 DEF UndoSecretInv, First, Early, Later, Ending, StackInv, Cleans, TypeOK, SetupOK
  <2>5. UndoRepoInv'
    BY <2>1, <2>2 DEF UndoRepoInv, First, Early, Later, Ending, StackInv, Cleans, TypeOK,
                  ForgeOK, Ids, None
  <2> QED
    BY <2>3, <2>4, <2>5
<1>12. CleanInv'
  BY <1>0 DEF CleanInv, Cleaned, Cleans, Both, OwnSmee, StackInv, OnGitHub
<1>13. FilesOK'
  BY <1>2a DEF TypeOK, FilesOK
<1>14. FilesInv'
  <2>1. pc = "defer" /\ pc' \in {"end", "clean_own_smee", "clean_cr", "clean_repo"}
    OBVIOUS
  <2>2. \A e \in Events : files'[e].url \in {None, Stale}
    <3>1. CASE defers = Both
      <4>1. defers # <<>> /\ defers[Len(defers)] = "project"
        BY <1>0, <2>1, <3>1 DEF Both
      <4> QED
        BY <4>1, <1>2a
    <3>2. CASE defers # Both
      <4>1. \A e \in Events : files[e].url \in {None, Stale}
        BY <2>1, <3>2 DEF FilesInv
      <4> QED
        BY <4>1, <1>2a
    <3> QED
      BY <3>1, <3>2
  <2> HIDE DEF IInv, OuterInv, StartCleanup, Goto, Fine, Fault, FailSetup, Rollback
  <2> QED
    BY <2>1, <2>2 DEF FilesInv, Early, Later, First
<1>15. BodyOK' /\ PickInv'
  BY DEF TypeOK, BodyOK, PickInv, Cur
<1> QED
  BY <1>1, <1>2, <1>3, <1>4, <1>5, <1>6, <1>7, <1>8, <1>9, <1>10, <1>11, <1>12, <1>13,
     <1>14, <1>15 DEF SetupInv, TypeOK


LEMMA CleanCRStep ==
  ASSUME IInv, CleanCR
  PROVE  IInv'
<1> USE DEF IInv, OuterInv, CleanCR, Goto, Fine, Fault, FailSetup, Rollback,
           control, local, process, namespace, forge, body, history
<1>1. ControlOK'
  BY ConstantFacts DEF TypeOK, ControlOK, Labels
<1>2. ValuesOK'
  BY ConstantFacts DEF TypeOK, ControlOK, ValuesOK, Values, Foreign, None
<1>3. SetupOK'
  BY DEF TypeOK, SetupOK, None
<1>4. CleanupOK'
  BY DEF TypeOK, CleanupOK, StackInv, Later, OwnSmee
<1>5. ForgeOK'
  BY ConstantFacts DEF TypeOK, ControlOK, ValuesOK, SetupOK, ForgeOK, MadeInv, OnGitHub, Ids, Values
<1>6. StackInv'
  BY DEF StackInv, First, Early, Later, Undoes, Cleans, OwnSmee, Both, OnGitHub
<1>7. MadeInv'
  BY ConstantFacts DEF MadeInv, Early, First, OnGitHub, TypeOK, ControlOK, ForgeOK
<1>8. RelayInv'
  BY DEF SetupInv, RelayInv, First, Early, Later
<1>9. SecretInv'
  BY DEF SetupInv, SecretInv, First, Early, Later, OnGitHub
<1>10. ProjectInv'
  BY DEF SetupInv, RelayInv, ProjectInv, First, Early, Later, OnGitHub, TypeOK, ForgeOK
<1>11. UndoInv'
  <2> SUFFICES ASSUME OnGitHub', ~ready', ~lost'
               PROVE  (UndoCRInv /\ UndoSecretInv /\ UndoRepoInv)'
    BY DEF UndoInv
  <2>1. OnGitHub /\ ~ready /\ ~lost
    BY DEF OnGitHub, TypeOK, CleanupOK
  <2>2. UndoCRInv /\ UndoSecretInv /\ UndoRepoInv
    BY <2>1 DEF UndoInv
  <2>3. UndoCRInv'
    BY <2>1, <2>2 DEF UndoCRInv, First, Early, Later, Ending, StackInv, Cleans, TypeOK, SetupOK
  <2>4. UndoSecretInv'
    BY <2>1, <2>2 DEF UndoSecretInv, First, Early, Later, Ending, StackInv, Cleans, TypeOK, SetupOK
  <2>5. UndoRepoInv'
    BY <2>1, <2>2 DEF UndoRepoInv, First, Early, Later, Ending, StackInv, Cleans, TypeOK,
                  ForgeOK, Ids, None
  <2> QED
    BY <2>3, <2>4, <2>5
<1>12. CleanInv'
  BY DEF CleanInv, Cleaned, Cleans, Both, OwnSmee, StackInv, OnGitHub
<1>13. FilesOK'
  BY DEF TypeOK, FilesOK, SetupOK
<1>14. FilesInv'
  BY DEF FilesInv, Ours, Early, Later, First, StackInv, Both, OwnSmee, OnGitHub, None
<1>15. BodyOK' /\ PickInv'
  BY DEF TypeOK, BodyOK, PickInv, Cur
<1> QED
  BY <1>1, <1>2, <1>3, <1>4, <1>5, <1>6, <1>7, <1>8, <1>9, <1>10, <1>11, <1>12, <1>13,
     <1>14, <1>15 DEF SetupInv, TypeOK


LEMMA CleanSecretStep ==
  ASSUME IInv, CleanSecret
  PROVE  IInv'
<1> USE DEF IInv, OuterInv, CleanSecret, Goto, Fine, Fault, FailSetup, Rollback,
           control, local, process, namespace, forge, body, history
<1>1. ControlOK'
  BY ConstantFacts DEF TypeOK, ControlOK, Labels
<1>2. ValuesOK'
  BY ConstantFacts DEF TypeOK, ControlOK, ValuesOK, Values, Foreign, None
<1>3. SetupOK'
  BY DEF TypeOK, SetupOK, None
<1>4. CleanupOK'
  BY DEF TypeOK, CleanupOK, StackInv, Later, OwnSmee
<1>5. ForgeOK'
  BY ConstantFacts DEF TypeOK, ControlOK, ValuesOK, SetupOK, ForgeOK, MadeInv, OnGitHub, Ids, Values
<1>6. StackInv'
  BY DEF StackInv, First, Early, Later, Undoes, Cleans, OwnSmee, Both, OnGitHub
<1>7. MadeInv'
  BY ConstantFacts DEF MadeInv, Early, First, OnGitHub, TypeOK, ControlOK, ForgeOK
<1>8. RelayInv'
  BY DEF SetupInv, RelayInv, First, Early, Later
<1>9. SecretInv'
  BY DEF SetupInv, SecretInv, First, Early, Later, OnGitHub
<1>10. ProjectInv'
  BY DEF SetupInv, RelayInv, ProjectInv, First, Early, Later, OnGitHub, TypeOK, ForgeOK
<1>11. UndoInv'
  <2> SUFFICES ASSUME OnGitHub', ~ready', ~lost'
               PROVE  (UndoCRInv /\ UndoSecretInv /\ UndoRepoInv)'
    BY DEF UndoInv
  <2>1. OnGitHub /\ ~ready /\ ~lost
    BY DEF OnGitHub, TypeOK, CleanupOK
  <2>2. UndoCRInv /\ UndoSecretInv /\ UndoRepoInv
    BY <2>1 DEF UndoInv
  <2>3. UndoCRInv'
    BY <2>1, <2>2 DEF UndoCRInv, First, Early, Later, Ending, StackInv, Cleans, TypeOK, SetupOK
  <2>4. UndoSecretInv'
    BY <2>1, <2>2 DEF UndoSecretInv, First, Early, Later, Ending, StackInv, Cleans, TypeOK, SetupOK
  <2>5. UndoRepoInv'
    BY <2>1, <2>2 DEF UndoRepoInv, First, Early, Later, Ending, StackInv, Cleans, TypeOK,
                  ForgeOK, Ids, None
  <2> QED
    BY <2>3, <2>4, <2>5
<1>12. CleanInv'
  BY DEF CleanInv, Cleaned, Cleans, Both, OwnSmee, StackInv, OnGitHub
<1>13. FilesOK'
  BY DEF TypeOK, FilesOK, SetupOK
<1>14. FilesInv'
  BY DEF FilesInv, Ours, Early, Later, First, StackInv, Both, OwnSmee, OnGitHub, None
<1>15. BodyOK' /\ PickInv'
  BY DEF TypeOK, BodyOK, PickInv, Cur
<1> QED
  BY <1>1, <1>2, <1>3, <1>4, <1>5, <1>6, <1>7, <1>8, <1>9, <1>10, <1>11, <1>12, <1>13,
     <1>14, <1>15 DEF SetupInv, TypeOK


LEMMA CleanRepoStep ==
  ASSUME IInv, CleanRepo
  PROVE  IInv'
<1> USE DEF IInv, OuterInv, CleanRepo, Goto, Fine, Fault, FailSetup, Rollback,
           control, local, process, namespace, forge, body, history
<1>1. ControlOK'
  BY ConstantFacts DEF TypeOK, ControlOK, Labels
<1>2. ValuesOK'
  BY ConstantFacts DEF TypeOK, ControlOK, ValuesOK, Values, Foreign, None
<1>3. SetupOK'
  BY DEF TypeOK, SetupOK, None
<1>4. CleanupOK'
  BY DEF TypeOK, CleanupOK, StackInv, Later, OwnSmee
<1>5. ForgeOK'
  BY ConstantFacts DEF TypeOK, ControlOK, ValuesOK, SetupOK, ForgeOK, MadeInv, OnGitHub, Ids, Values
<1>6. StackInv'
  BY DEF StackInv, First, Early, Later, Undoes, Cleans, OwnSmee, Both, OnGitHub
<1>7. MadeInv'
  BY ConstantFacts DEF MadeInv, Early, First, OnGitHub, TypeOK, ControlOK, ForgeOK
<1>8. RelayInv'
  BY DEF SetupInv, RelayInv, First, Early, Later
<1>9. SecretInv'
  BY DEF SetupInv, SecretInv, First, Early, Later, OnGitHub
<1>10. ProjectInv'
  BY DEF SetupInv, RelayInv, ProjectInv, First, Early, Later, OnGitHub, TypeOK, ForgeOK
<1>11. UndoInv'
  <2> SUFFICES ASSUME OnGitHub', ~ready', ~lost'
               PROVE  (UndoCRInv /\ UndoSecretInv /\ UndoRepoInv)'
    BY DEF UndoInv
  <2>1. OnGitHub /\ ~ready /\ ~lost
    BY DEF OnGitHub, TypeOK, CleanupOK
  <2>2. UndoCRInv /\ UndoSecretInv /\ UndoRepoInv
    BY <2>1 DEF UndoInv
  <2>3. UndoCRInv'
    BY <2>1, <2>2 DEF UndoCRInv, First, Early, Later, Ending, StackInv, Cleans, TypeOK, SetupOK
  <2>4. UndoSecretInv'
    BY <2>1, <2>2 DEF UndoSecretInv, First, Early, Later, Ending, StackInv, Cleans, TypeOK, SetupOK
  <2>5. UndoRepoInv'
    BY <2>1, <2>2 DEF UndoRepoInv, First, Early, Later, Ending, StackInv, Cleans, TypeOK,
                  ForgeOK, Ids, None
  <2> QED
    BY <2>3, <2>4, <2>5
<1>12. CleanInv'
  BY DEF CleanInv, Cleaned, Cleans, Both, OwnSmee, StackInv, OnGitHub
<1>13. FilesOK'
  BY DEF TypeOK, FilesOK, SetupOK
<1>14. FilesInv'
  BY DEF FilesInv, Ours, Early, Later, First, StackInv, Both, OwnSmee, OnGitHub, None
<1>15. BodyOK' /\ PickInv'
  BY DEF TypeOK, BodyOK, PickInv, Cur
<1> QED
  BY <1>1, <1>2, <1>3, <1>4, <1>5, <1>6, <1>7, <1>8, <1>9, <1>10, <1>11, <1>12, <1>13,
     <1>14, <1>15 DEF SetupInv, TypeOK


LEMMA CleanSmeeStep ==
  ASSUME IInv, CleanSmee
  PROVE  IInv'
<1> USE DEF IInv, OuterInv, CleanSmee, DeleteSmee, Goto, Fine, Fault, FailSetup, Rollback,
           control, local, process, namespace, forge, body, history
<1>1. ControlOK'
  BY ConstantFacts DEF TypeOK, ControlOK, Labels
<1>2. ValuesOK'
  BY ConstantFacts DEF TypeOK, ControlOK, ValuesOK, Values, Foreign, None
<1>3. SetupOK'
  BY DEF TypeOK, SetupOK, None
<1>4. CleanupOK'
  BY DEF TypeOK, CleanupOK, StackInv, Later, OwnSmee
<1>5. ForgeOK'
  BY ConstantFacts DEF TypeOK, ControlOK, ValuesOK, SetupOK, ForgeOK, MadeInv, OnGitHub, Ids, Values
<1>6. StackInv'
  BY DEF StackInv, First, Early, Later, Undoes, Cleans, OwnSmee, Both, OnGitHub
<1>7. MadeInv'
  BY ConstantFacts DEF MadeInv, Early, First, OnGitHub, TypeOK, ControlOK, ForgeOK
<1>8. RelayInv'
  BY DEF SetupInv, RelayInv, First, Early, Later
<1>9. SecretInv'
  BY DEF SetupInv, SecretInv, First, Early, Later, OnGitHub
<1>10. ProjectInv'
  BY DEF SetupInv, RelayInv, ProjectInv, First, Early, Later, OnGitHub, TypeOK, ForgeOK
<1>11. UndoInv'
  <2> SUFFICES ASSUME OnGitHub', ~ready', ~lost'
               PROVE  (UndoCRInv /\ UndoSecretInv /\ UndoRepoInv)'
    BY DEF UndoInv
  <2>1. OnGitHub /\ ~ready /\ ~lost
    BY DEF OnGitHub, TypeOK, CleanupOK
  <2>2. UndoCRInv /\ UndoSecretInv /\ UndoRepoInv
    BY <2>1 DEF UndoInv
  <2>3. UndoCRInv'
    BY <2>1, <2>2 DEF UndoCRInv, First, Early, Later, Ending, StackInv, Cleans, TypeOK, SetupOK
  <2>4. UndoSecretInv'
    BY <2>1, <2>2 DEF UndoSecretInv, First, Early, Later, Ending, StackInv, Cleans, TypeOK, SetupOK
  <2>5. UndoRepoInv'
    BY <2>1, <2>2 DEF UndoRepoInv, First, Early, Later, Ending, StackInv, Cleans, TypeOK,
                  ForgeOK, Ids, None
  <2> QED
    BY <2>3, <2>4, <2>5
<1>12. CleanInv'
  BY DEF CleanInv, Cleaned, Cleans, Both, OwnSmee, StackInv, OnGitHub
<1>13. FilesOK'
  BY DEF TypeOK, FilesOK, SetupOK
<1>14. FilesInv'
  BY DEF FilesInv, Ours, Early, Later, First, StackInv, Both, OwnSmee, OnGitHub, None
<1>15. BodyOK' /\ PickInv'
  BY DEF TypeOK, BodyOK, PickInv, Cur
<1> QED
  BY <1>1, <1>2, <1>3, <1>4, <1>5, <1>6, <1>7, <1>8, <1>9, <1>10, <1>11, <1>12, <1>13,
     <1>14, <1>15 DEF SetupInv, TypeOK


LEMMA NoHookFacts == NoHooks \in [Ids -> [url : Values, key : Values]]
<1>1. [url |-> None, key |-> None] \in [url : Values, key : Values]
  BY ConstantFacts DEF Values, Foreign, None
<1> QED
  BY <1>1 DEF NoHooks

LEMMA NextContainerStep ==
  ASSUME IInv, NextContainer
  PROVE  IInv'
<1> USE DEF IInv, OuterInv, NextContainer, Afresh, NoUndo, NoFiles, NoFile, Goto, Fine, Fault, FailSetup, Rollback,
           control, local, process, namespace, forge, body, history
<1>1. ControlOK'
  BY ConstantFacts DEF TypeOK, ControlOK, Labels
<1>2. ValuesOK'
  BY ConstantFacts DEF TypeOK, ControlOK, ValuesOK, Values, Foreign, None
<1>3. SetupOK'
  BY DEF TypeOK, SetupOK, None
<1>4. CleanupOK'
  BY DEF TypeOK, CleanupOK, StackInv, Later, OwnSmee
<1>5. ForgeOK'
  BY NoHookFacts, ConstantFacts DEF TypeOK, ControlOK, ValuesOK, SetupOK, ForgeOK, MadeInv, OnGitHub, Ids, Values
<1>6. StackInv'
  BY DEF StackInv, First, Early, Later, Undoes, Cleans, OwnSmee, Both, OnGitHub
<1>7. MadeInv'
  BY ConstantFacts DEF MadeInv, Early, First, OnGitHub, TypeOK, ControlOK, ForgeOK
<1>8. RelayInv'
  BY DEF SetupInv, RelayInv, First, Early, Later
<1>9. SecretInv'
  BY DEF SetupInv, SecretInv, First, Early, Later, OnGitHub
<1>10. ProjectInv'
  BY DEF SetupInv, RelayInv, ProjectInv, First, Early, Later, OnGitHub, TypeOK, ForgeOK
<1>11. UndoInv'
  BY DEF UndoInv, UndoCRInv, UndoSecretInv, UndoRepoInv, First, Early, Later, Ending
<1>12. CleanInv'
  BY DEF CleanInv, Cleaned, Cleans, Both, OwnSmee, StackInv, OnGitHub
<1>13. FilesOK'
  <2>1. NoFiles \in [Events -> FileType] /\ NoFile \in FileType
    BY DEF NoFiles, NoFile, FileType
  <2> QED
    BY <2>1 DEF TypeOK, FilesOK
<1>14. FilesInv'
  BY DEF FilesInv, Ours, Early, Later, First, StackInv, Both, OwnSmee, OnGitHub, None
<1>15. BodyOK' /\ PickInv'
  <2>1. Len(script') \in Nat
    BY ScriptsAssumption
  <2>2. <<>> \in Seq(WireEvents) /\ <<>> \in Seq(RunType)
    OBVIOUS
  <2>3. 1 \in 1..(Len(script') + 1)
    BY <2>1
  <2> QED
    BY <2>2, <2>3 DEF BodyOK, PickInv
<1> QED
  BY <1>1, <1>2, <1>3, <1>4, <1>5, <1>6, <1>7, <1>8, <1>9, <1>10, <1>11, <1>12, <1>13,
     <1>14, <1>15 DEF SetupInv, TypeOK


LEMMA SuiteEndsStep ==
  ASSUME IInv, SuiteEnds
  PROVE  IInv'
<1> USE DEF IInv, OuterInv, SuiteEnds, Goto, Fine, Fault, FailSetup, Rollback,
           control, local, process, namespace, forge, body, history
<1>1. ControlOK'
  BY ConstantFacts DEF TypeOK, ControlOK, Labels
<1>2. ValuesOK'
  BY ConstantFacts DEF TypeOK, ControlOK, ValuesOK, Values, Foreign, None
<1>3. SetupOK'
  BY DEF TypeOK, SetupOK, None
<1>4. CleanupOK'
  BY DEF TypeOK, CleanupOK, StackInv, Later, OwnSmee
<1>5. ForgeOK'
  BY ConstantFacts DEF TypeOK, ControlOK, ValuesOK, SetupOK, ForgeOK, MadeInv, OnGitHub, Ids, Values
<1>6. StackInv'
  BY DEF StackInv, First, Early, Later, Undoes, Cleans, OwnSmee, Both, OnGitHub
<1>7. MadeInv'
  BY ConstantFacts DEF MadeInv, Early, First, OnGitHub, TypeOK, ControlOK, ForgeOK
<1>8. RelayInv'
  BY DEF SetupInv, RelayInv, First, Early, Later
<1>9. SecretInv'
  BY DEF SetupInv, SecretInv, First, Early, Later, OnGitHub
<1>10. ProjectInv'
  BY DEF SetupInv, RelayInv, ProjectInv, First, Early, Later, OnGitHub, TypeOK, ForgeOK
<1>11. UndoInv'
  <2> SUFFICES ASSUME OnGitHub', ~ready', ~lost'
               PROVE  (UndoCRInv /\ UndoSecretInv /\ UndoRepoInv)'
    BY DEF UndoInv
  <2>1. OnGitHub /\ ~ready /\ ~lost
    BY DEF OnGitHub, TypeOK, CleanupOK
  <2>2. UndoCRInv /\ UndoSecretInv /\ UndoRepoInv
    BY <2>1 DEF UndoInv
  <2>3. UndoCRInv'
    BY <2>1, <2>2 DEF UndoCRInv, First, Early, Later, Ending, StackInv, Cleans, TypeOK, SetupOK
  <2>4. UndoSecretInv'
    BY <2>1, <2>2 DEF UndoSecretInv, First, Early, Later, Ending, StackInv, Cleans, TypeOK, SetupOK
  <2>5. UndoRepoInv'
    BY <2>1, <2>2 DEF UndoRepoInv, First, Early, Later, Ending, StackInv, Cleans, TypeOK,
                  ForgeOK, Ids, None
  <2> QED
    BY <2>3, <2>4, <2>5
<1>12. CleanInv'
  BY DEF CleanInv, Cleaned, Cleans, Both, OwnSmee, StackInv, OnGitHub
<1>13. FilesOK'
  BY DEF TypeOK, FilesOK, SetupOK
<1>14. FilesInv'
  BY DEF FilesInv, Ours, Early, Later, First, StackInv, Both, OwnSmee, OnGitHub, None
<1>15. BodyOK' /\ PickInv'
  BY DEF TypeOK, BodyOK, PickInv, Cur
<1> QED
  BY <1>1, <1>2, <1>3, <1>4, <1>5, <1>6, <1>7, <1>8, <1>9, <1>10, <1>11, <1>12, <1>13,
     <1>14, <1>15 DEF SetupInv, TypeOK


-----------------------------------------------------------------------------
(* The specs of the container. *)

\* A spec changes nothing of what the setup has made.
LEMMA BodyFrame ==
  ASSUME IInv, Frame, Fine \/ Fault
  PROVE  OuterInv' /\ (ControlOK /\ ValuesOK /\ SetupOK /\ CleanupOK /\ ForgeOK)'
<1> USE DEF IInv, OuterInv, Frame, Fine, Fault, control, local, namespace, forge, history
<1>1. ControlOK'
  BY ConstantFacts DEF TypeOK, ControlOK
<1>2. (ValuesOK /\ SetupOK /\ CleanupOK /\ ForgeOK)'
  BY DEF TypeOK, ValuesOK, SetupOK, CleanupOK, ForgeOK
<1>3. StackInv' /\ MadeInv'
  BY DEF StackInv, MadeInv, OwnSmee, Both, OnGitHub
<1>4. SetupInv'
  BY DEF SetupInv, RelayInv, SecretInv, ProjectInv, OnGitHub
<1>5. UndoInv'
  BY DEF UndoInv, UndoCRInv, UndoSecretInv, UndoRepoInv, OnGitHub
<1>6. CleanInv'
  BY DEF CleanInv, Cleaned, Both, OnGitHub
<1> QED
  BY <1>1, <1>2, <1>3, <1>4, <1>5, <1>6

\* The step under way is one of the script's.
LEMMA CurrentStep ==
  ASSUME TypeOK, step <= Len(script)
  PROVE  /\ step \in DOMAIN script /\ step + 1 \in 1..(Len(script) + 1)
         /\ Cur \in Step
         /\ Cur.op = "annotate" => Cur.on \in Annotations
         /\ Cur.op = "generate" => Cur.on \in Events
<1>1. script \in Seq(Step) /\ Len(script) \in Nat
  BY ScriptsAssumption DEF TypeOK, ControlOK
<1>2. step \in 1..Len(script)
  BY <1>1 DEF TypeOK, BodyOK
<1>3. DOMAIN script = 1..Len(script)
  BY <1>1
<1>4. script[step] \in Step
  BY <1>1, <1>2
<1>5. /\ Cur.op = "annotate" => Cur.on \in Annotations
      /\ Cur.op = "generate" => Cur.on \in Events
  BY <1>2, ScriptsAssumption DEF TypeOK, ControlOK, Cur
<1>6. step + 1 \in 1..(Len(script) + 1)
  BY <1>1, <1>2
<1> QED
  BY <1>2, <1>3, <1>4, <1>5, <1>6 DEF Cur

\* A spec that ends without having picked a run.
LEMMA SpecOver ==
  ASSUME IInv, Frame, step <= Len(script), PassIt \/ FailIt, picked' = 0,
         mr' \in BOOLEAN, wire' \in Seq(WireEvents), UNCHANGED <<runs, picks, last>>
  PROVE  BodyOK' /\ PickInv'
<1> USE DEF IInv, Frame, control
<1>1. step' \in 1..(Len(script') + 1) /\ passed' \subseteq DOMAIN script' /\ passed \subseteq passed'
  BY CurrentStep DEF PassIt, FailIt, TypeOK, BodyOK
<1>2. runs' \in Seq(RunType) /\ last' \in {0} \cup DOMAIN runs'
  BY DEF TypeOK, BodyOK
<1>3. \A p \in picks' : p[1] \in passed' /\ p[2] \in DOMAIN runs'
  BY <1>1 DEF TypeOK, BodyOK
<1> QED
  BY <1>1, <1>2, <1>3 DEF BodyOK, PickInv

\* Only a spec that validates a run picks one.
LEMMA NothingPicked ==
  ASSUME IInv, NEW op \in {"generate", "annotate", "preview", "trigger", "raise", "count"},
         InBody(op)
  PROVE  picked = 0 /\ pc = "body" /\ step <= Len(script)
BY DEF IInv, PickInv, InBody

\* Files with the annotations and the project they may have.
LEMMA NoFileFacts == NoFile \in FileType /\ NoFile.url = None
BY DEF NoFile, FileType

\* What a spec writes is well typed and of this project.
LEMMA FilesStep ==
  ASSUME IInv, Frame, pc = "body",
         files' \in [Events -> FileType], branch' \in [Events -> FileType], main' \in FileType,
         Ours(main'), \A e \in Events : Ours(files'[e]) /\ Ours(branch'[e])
  PROVE  FilesOK' /\ FilesInv'
<1> USE DEF IInv, Frame, local
<1>1. projectURL' = proj'
  BY DEF FilesInv
<1>2. Ours(main)' /\ \A e \in Events : (Ours(files[e]) /\ Ours(branch[e]))'
  BY DEF Ours
<1>3. FilesInv'
  BY <1>1, <1>2 DEF FilesInv, Early, Later, First
<1>4. FilesOK'
  BY DEF TypeOK, FilesOK
<1> QED
  BY <1>3, <1>4

\* What the files, the branch and main are while the specs run.
LEMMA FilesNow ==
  ASSUME IInv, pc = "body"
  PROVE  /\ files \in [Events -> FileType] /\ branch \in [Events -> FileType] /\ main \in FileType
         /\ Ours(main) /\ \A e \in Events : Ours(files[e]) /\ Ours(branch[e])
BY DEF IInv, FilesInv, TypeOK, FilesOK

LEMMA GenerateStep ==
  ASSUME IInv, Generate
  PROVE  IInv'
<1>1. picked = 0 /\ pc = "body" /\ step <= Len(script)
  BY NothingPicked DEF Generate
<1>2. Frame /\ (Fine \/ Fault) /\ (PassIt \/ FailIt)
  BY DEF Generate
<1>3. BodyOK' /\ PickInv'
  BY <1>1, <1>2, SpecOver DEF Generate, IInv, TypeOK, BodyOK
<1>4. PICK f \in FileType : Ours(f) /\ files' = [files EXCEPT ![Cur.on] = f]
  <2>1. projectURL = proj /\ projectURL \in {None} \cup Ids
    BY <1>1 DEF IInv, FilesInv, TypeOK, FilesOK
  <2>2. Generated \in FileType
    BY <2>1 DEF FileType, Generated
  <2>3. Ours(Generated) /\ Ours(NoFile)
    BY <2>1, NoFileFacts DEF Ours, Generated
  <2>4. Cur.on \in Events
    BY <1>1, CurrentStep DEF Generate, InBody, IInv
  <2>5. files[Cur.on] \in FileType /\ Ours(files[Cur.on])
    BY <1>1, <2>4, FilesNow
  <2> QED
    BY <2>2, <2>3, <2>5, NoFileFacts DEF Generate
<1>5. files' \in [Events -> FileType] /\ \A e \in Events : Ours(files'[e])
  BY <1>1, <1>4, FilesNow
<1>6. FilesOK' /\ FilesInv'
  BY <1>1, <1>2, <1>5, FilesNow, FilesStep DEF Generate
<1> QED
  BY <1>2, <1>3, <1>6, BodyFrame DEF IInv, TypeOK

LEMMA AnnotateStep ==
  ASSUME IInv, NEW e \in Events, Annotate(e)
  PROVE  IInv'
<1>1. picked = 0 /\ pc = "body" /\ step <= Len(script)
  BY NothingPicked DEF Annotate
<1>2. Frame /\ Fine /\ (PassIt \/ FailIt)
  BY DEF Annotate
<1>3. BodyOK' /\ PickInv'
  BY <1>1, <1>2, SpecOver DEF Annotate, IInv, TypeOK, BodyOK
<1>4. files' \in [Events -> FileType] /\ \A g \in Events : Ours(files'[g])
  <2>1. Cur.on \in Annotations
    BY <1>1, CurrentStep DEF Annotate, InBody, IInv
  <2>2. [files[e] EXCEPT !.on = Cur.on] \in FileType
    BY <1>1, <2>1, FilesNow DEF FileType
  <2>3. Ours([files[e] EXCEPT !.on = Cur.on])
    BY <1>1, FilesNow DEF Ours, FileType
  <2> QED
    BY <1>1, <2>2, <2>3, FilesNow DEF Annotate
<1>5. FilesOK' /\ FilesInv'
  BY <1>1, <1>2, <1>4, FilesNow, FilesStep DEF Annotate
<1> QED
  BY <1>2, <1>3, <1>5, BodyFrame DEF IInv, TypeOK

LEMMA OpenStep ==
  ASSUME IInv, NEW possible, Open(possible)
  PROVE  IInv'
<1>1. picked = 0 /\ pc = "body" /\ step <= Len(script)
  BY NothingPicked DEF Open
<1>2. Frame /\ (Fine \/ Fault) /\ (PassIt \/ FailIt)
  BY DEF Open
<1>3. wire' \in Seq(WireEvents) /\ mr' \in BOOLEAN
  <2>1. wire \in Seq(WireEvents) /\ mr \in BOOLEAN
    BY DEF IInv, TypeOK, BodyOK
  <2>2. Append(wire, "opened") \in Seq(WireEvents) /\ Append(wire, "push") \in Seq(WireEvents)
    BY <2>1 DEF WireEvents, Cancels
  <2>3. wire' \in {wire, Append(wire, "opened"), Append(wire, "push")}
    BY DEF Open, Raise
  <2>4. mr' \in {TRUE, mr}
    BY DEF Open
  <2> QED
    BY <2>1, <2>2, <2>3, <2>4
<1>4. BodyOK' /\ PickInv'
  BY <1>1, <1>2, <1>3, SpecOver DEF Open
<1>5. UNCHANGED <<files, main>> /\ (branch' = branch \/ branch' = files)
  BY DEF Open
<1>6. FilesOK' /\ FilesInv'
  BY <1>1, <1>2, <1>5, FilesNow, FilesStep
<1> QED
  BY <1>2, <1>4, <1>6, BodyFrame DEF IInv, TypeOK

LEMMA PushToMainStep ==
  ASSUME IInv, NEW possible, NEW content \in {files["push"], branch["push"]},
         PushToMain(possible, content)
  PROVE  IInv'
<1>1. picked = 0 /\ pc = "body" /\ step <= Len(script)
  BY NothingPicked DEF PushToMain
<1>2. Frame /\ (Fine \/ Fault) /\ (PassIt \/ FailIt)
  BY DEF PushToMain
<1>3. wire' \in Seq(WireEvents) /\ mr' \in BOOLEAN
  <2>1. wire \in Seq(WireEvents) /\ mr \in BOOLEAN
    BY DEF IInv, TypeOK, BodyOK
  <2>2. Append(wire, "opened") \in Seq(WireEvents) /\ Append(wire, "push") \in Seq(WireEvents)
    BY <2>1 DEF WireEvents, Cancels
  <2>3. wire' \in {wire, Append(wire, "opened"), Append(wire, "push")}
    BY DEF PushToMain, Raise
  <2>4. mr' \in {TRUE, mr}
    BY DEF PushToMain
  <2> QED
    BY <2>1, <2>2, <2>3, <2>4
<1>4. BodyOK' /\ PickInv'
  BY <1>1, <1>2, <1>3, SpecOver DEF PushToMain
<1>5. UNCHANGED <<files, branch>> /\ (main' = main \/ main' = content)
  BY DEF PushToMain
<1>6. content \in FileType /\ Ours(content)
  BY <1>1, FilesNow DEF Events
<1>7. FilesOK' /\ FilesInv'
  BY <1>1, <1>2, <1>5, <1>6, FilesNow, FilesStep
<1> QED
  BY <1>2, <1>4, <1>7, BodyFrame DEF IInv, TypeOK

LEMMA RequestStep ==
  ASSUME IInv, NEW possible, Request(possible), Cur.on \in WireEvents
  PROVE  IInv'
<1>1. picked = 0 /\ pc = "body" /\ step <= Len(script)
  BY NothingPicked DEF Request
<1>2. Frame /\ (Fine \/ Fault) /\ (PassIt \/ FailIt)
  BY DEF Request
<1>3. wire' \in Seq(WireEvents) /\ mr' \in BOOLEAN
  <2>1. wire \in Seq(WireEvents) /\ mr \in BOOLEAN
    BY DEF IInv, TypeOK, BodyOK
  <2>2. wire' = wire \/ wire' = Append(wire, Cur.on)
    BY DEF Request, Raise
  <2>3. mr' = mr
    BY DEF Request
  <2> QED
    BY <2>1, <2>2, <2>3
<1>4. BodyOK' /\ PickInv'
  BY <1>1, <1>2, <1>3, SpecOver DEF Request
<1>5. FilesOK' /\ FilesInv'
  BY <1>1, <1>2, FilesNow, FilesStep DEF Request
<1> QED
  BY <1>2, <1>4, <1>5, BodyFrame DEF IInv, TypeOK

LEMMA CountRunsStep ==
  ASSUME IInv, CountRuns
  PROVE  IInv'
<1>1. picked = 0 /\ pc = "body" /\ step <= Len(script)
  BY NothingPicked DEF CountRuns
<1>2. Frame /\ Fine /\ (PassIt \/ FailIt)
  BY DEF CountRuns
<1>3. BodyOK' /\ PickInv'
  BY <1>1, <1>2, SpecOver DEF CountRuns, IInv, TypeOK, BodyOK
<1>4. FilesOK' /\ FilesInv'
  BY <1>1, <1>2, FilesNow, FilesStep DEF CountRuns
<1> QED
  BY <1>2, <1>3, <1>4, BodyFrame DEF IInv, TypeOK

\* The three waits for a run to validate: they pick the latest one, go on
\* waiting, or fail.
LEMMA PickStep ==
  ASSUME IInv, Frame, Fine \/ Fault, Unpicked, pc = "body", step <= Len(script), picked = 0,
         Cur.op \in {"mr", "main", "new"}, NoPick \/ \E k \in Latest : Pick(k)
  PROVE  IInv'
<1>1. FilesOK' /\ FilesInv'
  BY FilesNow, FilesStep DEF Unpicked
<1>2. CASE NoPick
  <2>1. BodyOK' /\ PickInv'
    BY <1>2, SpecOver DEF Unpicked, NoPick, IInv, TypeOK, BodyOK
  <2> QED
    BY <1>1, <2>1, BodyFrame DEF IInv, TypeOK
<1>3. CASE \E k \in Latest : Pick(k)
  <2>1. PICK k \in DOMAIN runs : picked' = k /\ UNCHANGED <<passed, step>>
    BY <1>3 DEF Latest, Pick
  <2>3. BodyOK' /\ PickInv'
    BY <2>1 DEF Unpicked, IInv, TypeOK, BodyOK, PickInv, Cur, Frame, control
  <2> QED
    BY <1>1, <2>3, BodyFrame DEF IInv, TypeOK
<1> QED
  BY <1>2, <1>3

LEMMA ValidateRunStep ==
  ASSUME IInv, ValidateRun
  PROVE  IInv'
<1>1. pc = "body" /\ picked # 0 /\ Frame /\ Fine /\ picked' = 0
  BY DEF ValidateRun
<1>2. step <= Len(script) /\ picked \in DOMAIN runs
  BY <1>1 DEF IInv, PickInv, TypeOK, BodyOK
<1>3. FilesOK' /\ FilesInv'
  BY <1>1, FilesNow, FilesStep DEF ValidateRun
<1>4. BodyOK' /\ PickInv'
  <2>1. step' \in 1..(Len(script') + 1) /\ passed' \subseteq DOMAIN script'
    BY <1>1, <1>2, CurrentStep
       DEF ValidateRun, PassIt, FailIt, Frame, control, IInv, TypeOK, BodyOK
  <2>2. last' \in {0} \cup DOMAIN runs' /\ UNCHANGED <<runs, wire, mr>>
    BY <1>2 DEF ValidateRun, IInv, TypeOK, BodyOK
  <2>3. \A p \in picks' : p[1] \in passed' /\ p[2] \in DOMAIN runs'
    BY <1>2, <2>2 DEF ValidateRun, PassIt, FailIt, IInv, TypeOK, BodyOK
  <2> QED
    BY <1>1, <2>1, <2>2, <2>3 DEF BodyOK, PickInv, IInv, TypeOK
<1> QED
  BY <1>1, <1>3, <1>4, BodyFrame DEF IInv, TypeOK

-----------------------------------------------------------------------------
(* The relay and the controller. *)

\* Runs are added and end, but none goes away.
LEMMA RunsStep ==
  ASSUME IInv, Frame, Fine \/ Fault, pc = "body",
         UNCHANGED <<files, step, passed, picks, last, picked, mr, branch, main>>,
         wire' \in Seq(WireEvents), runs' \in Seq(RunType), DOMAIN runs \subseteq DOMAIN runs'
  PROVE  IInv'
<1>1. FilesOK' /\ FilesInv'
  BY FilesNow, FilesStep
<1>2. BodyOK' /\ PickInv'
  BY DEF IInv, TypeOK, BodyOK, PickInv, Cur, Frame, control
<1> QED
  BY <1>1, <1>2, BodyFrame DEF IInv, TypeOK

LEMMA RunEndsStep ==
  ASSUME IInv, RunEnds
  PROVE  IInv'
<1>1. PICK k \in DOMAIN runs, s \in {"succeeded", "failed"} :
         runs' = [runs EXCEPT ![k].state = s] /\ (Fine \/ Fault)
  BY DEF RunEnds
<1>2. runs \in Seq(RunType) /\ wire \in Seq(WireEvents)
  BY DEF IInv, TypeOK, BodyOK
<1>3. [runs[k] EXCEPT !.state = s] \in RunType
  <2>1. runs[k] \in RunType
    BY <1>2
  <2> QED
    BY <2>1 DEF RunType
<1>4. runs' \in Seq(RunType) /\ DOMAIN runs' = DOMAIN runs
  BY <1>1, <1>2, <1>3
<1> QED
  BY <1>1, <1>2, <1>4, RunsStep DEF RunEnds

\* An event that has been delivered or lost leaves the wire.
LEMMA WireShrinks ==
  ASSUME NEW i \in DOMAIN wire, wire \in Seq(WireEvents)
  PROVE  RemoveAt(wire, i) \in Seq(WireEvents)
BY DEF RemoveAt

LEMMA DeliverStep ==
  ASSUME IInv, Deliver
  PROVE  IInv'
<1>1. runs \in Seq(RunType) /\ wire \in Seq(WireEvents)
  BY DEF IInv, TypeOK, BodyOK
<1>2. PICK i \in DOMAIN wire :
         /\ wire' = RemoveAt(wire, i)
         /\ \/ runs' = runs
            \/ runs' = Cancelled
            \/ runs' \in Started(wire[i])
  BY DEF Deliver
<1>3. wire' \in Seq(WireEvents)
  BY <1>1, <1>2, WireShrinks
<1>4. runs' \in Seq(RunType) /\ DOMAIN runs \subseteq DOMAIN runs'
  <2>1. CASE runs' = runs
    BY <1>1, <2>1
  <2>2. CASE runs' = Cancelled
    <3>1. \A k \in DOMAIN runs : runs[k] \in RunType
      BY <1>1
    <3>2. \A r \in RunType : [r EXCEPT !.state = "cancelled"] \in RunType
      BY DEF RunType
    <3>3. \A k \in DOMAIN runs : runs'[k] \in RunType
      BY <2>2, <3>1, <3>2 DEF Cancelled
    <3> QED
      BY <1>1, <2>2, <3>3 DEF Cancelled
  <2>3. CASE runs' \in Started(wire[i])
    <3>1. PICK t \in BOOLEAN : runs' = Append(runs, [ev |-> wire[i], state |-> "running", tied |-> t])
      BY <2>3 DEF Started, Tied
    <3>2. [ev |-> wire[i], state |-> "running", tied |-> t] \in RunType
      BY <1>1 DEF RunType
    <3> QED
      BY <1>1, <3>1, <3>2
  <2> QED
    BY <1>2, <2>1, <2>2, <2>3
<1>5. Frame /\ (Fine \/ Fault) /\ pc = "body"
  BY DEF Deliver
<1> QED
  BY <1>3, <1>4, <1>5, RunsStep DEF Deliver

-----------------------------------------------------------------------------
(* The invariant, and the theorems. *)

LEMMA InitEstablishesIInv == Init => IInv
<1> SUFFICES ASSUME Init PROVE IInv
  OBVIOUS
<1> USE DEF Init
<1>0. ControlOK
  BY ConstantFacts DEF ControlOK, Labels
<1>1. ValuesOK /\ SetupOK
  <2>1. ValuesOK
    BY ConstantFacts DEF ValuesOK, Values, Foreign, None
  <2>2. NoUndo \in [cr : BOOLEAN, secret : {"none", "delete", "restore"}]
    BY DEF NoUndo
  <2> QED
    BY <2>1, <2>2 DEF SetupOK
<1>2. CleanupOK /\ ForgeOK
  <2>1. NoHooks \in [Ids -> [url : Values, key : Values]]
    BY NoHookFacts
  <2>2. MaxContainers * MaxForks \in Nat
    BY ConstantFacts
  <2>3. CleanupOK
    BY DEF CleanupOK
  <2> QED
    BY <2>1, <2>2, <2>3 DEF ForgeOK
<1>3. FilesOK /\ FilesInv
  <2>1. NoFiles \in [Events -> FileType] /\ \A e \in Events : NoFiles[e] = NoFile
    BY NoFileFacts DEF NoFiles
  <2> QED
    BY <2>1, NoFileFacts DEF FilesOK, FilesInv
<1>4. BodyOK /\ PickInv
  <2>1. Len(script) \in Nat
    BY ScriptsAssumption
  <2>2. 1 \in 1..(Len(script) + 1)
    BY <2>1
  <2>3. <<>> \in Seq(WireEvents) /\ <<>> \in Seq(RunType)
    OBVIOUS
  <2> QED
    BY <2>2, <2>3 DEF BodyOK, PickInv
<1>5. StackInv
  BY DEF StackInv, First, Early, Later, Undoes, Cleans
<1>6. MadeInv
  BY ConstantFacts DEF MadeInv
<1>7. SetupInv
  BY DEF SetupInv, RelayInv, SecretInv, ProjectInv, First, Early, Later
<1>8. UndoInv
  BY DEF UndoInv, UndoCRInv, UndoSecretInv, UndoRepoInv, First, Early, Later, Ending
<1>9. CleanInv
  BY DEF CleanInv
<1> QED
  BY <1>0, <1>1, <1>2, <1>3, <1>4, <1>5, <1>6, <1>7, <1>8, <1>9 DEF IInv, OuterInv, TypeOK

LEMMA StutterStep ==
  ASSUME IInv, UNCHANGED vars
  PROVE  IInv'
<1> USE DEF IInv, vars, control, local, process, namespace, forge, body, history
<1>1. (ControlOK /\ ValuesOK /\ SetupOK /\ CleanupOK /\ ForgeOK /\ FilesOK)'
  BY DEF TypeOK, ControlOK, ValuesOK, SetupOK, CleanupOK, ForgeOK, FilesOK
<1>2. (BodyOK /\ PickInv)'
  BY DEF TypeOK, BodyOK, PickInv, Cur
<1>3. (StackInv /\ MadeInv /\ CleanInv)'
  BY DEF OuterInv, StackInv, MadeInv, CleanInv, Cleaned, OwnSmee, Both, OnGitHub
<1>4. (SetupInv /\ UndoInv)'
  BY DEF OuterInv, SetupInv, RelayInv, SecretInv, ProjectInv, UndoInv, UndoCRInv, UndoSecretInv,
         UndoRepoInv, OnGitHub
<1>5. FilesInv'
  BY DEF FilesInv, Ours, Both, OnGitHub
<1> QED
  BY <1>1, <1>2, <1>3, <1>4, <1>5 DEF OuterInv, TypeOK

LEMMA BodyKeepsIInv ==
  ASSUME IInv, Body
  PROVE  IInv'
<1>1. CASE Generate
  BY <1>1, GenerateStep
<1>2. CASE UpdateAnnotation \/ UpdatePushOnTargetBranch
  BY <1>2, AnnotateStep DEF UpdateAnnotation, UpdatePushOnTargetBranch, Events
<1>3. CASE ConfigurePreviewChanges \/ ConfigurePreviewChangesGitHub
  BY <1>3, OpenStep DEF ConfigurePreviewChanges, ConfigurePreviewChangesGitHub
<1>4. CASE TriggerPushOnForkMain \/ TriggerPushOnGitHubMain
  BY <1>4, PushToMainStep DEF TriggerPushOnForkMain, TriggerPushOnGitHubMain
<1>5. CASE \/ AddComment \/ AddLabel \/ CreateTagOnBranch
           \/ AddCommitCommentOnTag \/ AddCommentNamingRunOnTag
  <2>1. Cur.on \in WireEvents
    BY <1>5 DEF AddComment, AddLabel, CreateTagOnBranch, AddCommitCommentOnTag, AddCommentNamingRunOnTag,
              WireEvents, Cancels
  <2> QED
    BY <1>5, <2>1, RequestStep
       DEF AddComment, AddLabel, CreateTagOnBranch, AddCommitCommentOnTag, AddCommentNamingRunOnTag
<1>6. CASE GetPipelineNameFromMR \/ GetPushPipelineNameFromMain \/ WaitForNewPipelineRunName
  <2> USE DEF GetPipelineNameFromMR, GetPushPipelineNameFromMain, WaitForNewPipelineRunName,
              AtPick, AtFault, At
  <2>1. pc = "body" /\ step <= Len(script) /\ picked = 0 /\ Cur.op \in {"mr", "main", "new"}
    BY <1>6
  <2>2. Frame /\ (Fine \/ Fault) /\ Unpicked
    BY <1>6
  <2>3. NoPick \/ \E k \in Latest : Pick(k)
    BY <1>6 DEF GetLatestPipelinerun
  <2> QED
    BY <2>1, <2>2, <2>3, PickStep
<1>7. CASE ValidateRun
  BY <1>7, ValidateRunStep
<1>8. CASE CountRuns
  BY <1>8, CountRunsStep
<1>9. CASE EndBody
  BY <1>9, EndBodyStep
<1> QED
  BY <1>1, <1>2, <1>3, <1>4, <1>5, <1>6, <1>7, <1>8, <1>9 DEF Body

LEMMA SetupKeepsIInv ==
  ASSUME IInv, Setup
  PROVE  IInv'
BY InitClientStep, NewSmeeURLStep, CreateSmeeDeploymentStep, ValidateSmeeStep, ForkProjectStep,
   AddWebhookStep, CreateNewRepositoryStep, CreateRepositoryStep, FindOwnerStep,
   RepositoryReadyStep, EnsureWebhookSecretStep, CreateGitHubRepositoryCRStep,
   AddGitHubWebhookStep, UndoCRStep, UndoSecretStep, UndoRepositoryStep DEF Setup

LEMMA NextKeepsIInv == IInv /\ [Next]_vars => IInv'
<1> SUFFICES ASSUME IInv, [Next]_vars PROVE IInv'
  OBVIOUS
<1>1. CASE Setup
  BY <1>1, SetupKeepsIInv
<1>2. CASE Body
  BY <1>2, BodyKeepsIInv
<1>3. CASE Deliver \/ RunEnds
  BY <1>3, DeliverStep, RunEndsStep
<1>4. CASE Cleanup
  BY <1>4, StartCleanupStep, CleanCRStep, CleanSecretStep, CleanRepoStep, CleanSmeeStep
     DEF Cleanup
<1>5. CASE NextContainer \/ SuiteEnds
  BY <1>5, NextContainerStep, SuiteEndsStep
<1>6. CASE UNCHANGED vars
  BY <1>6, StutterStep
<1> QED
  BY <1>1, <1>2, <1>3, <1>4, <1>5, <1>6 DEF Next, Done

LEMMA IInvHolds == Spec => []IInv
BY InitEstablishesIInv, NextKeepsIInv, PTL DEF Spec

\* Types of the variables: whatever fails, no container forks more projects than
\* maxRetriesForkProject allows it (pac.go:43), and a spec that validates a
\* PipelineRun has one to validate.
THEOREM TypeCorrect == Spec => []TypeOK
<1>1. IInv => TypeOK
  BY DEF IInv
<1> QED
  BY <1>1, IInvHolds, PTL

\* A setup of a GitHub project that fails half-way leaves nothing behind
\* (pac-github.go:350-369), whichever call failed and for any number of forks,
\* containers and failing calls.
THEOREM FailedSetupsUndone == Spec => []FailedSetupUndone
<1>1. IInv => FailedSetupUndone
  BY DEF IInv, OuterInv, UndoInv, UndoCRInv, UndoSecretInv, UndoRepoInv, Ending, FailedSetupUndone
<1> QED
  BY <1>1, IInvHolds, PTL

\* After a setup that succeeded each object is gone or its own deletion was
\* refused (pac.go:799-815, pac-github.go:548-565), whatever the script did.
THEOREM CleanupsComplete == Spec => []CleanupComplete
<1>1. IInv => CleanupComplete
  BY DEF IInv, OuterInv, CleanInv, Cleaned, CleanupComplete
<1> QED
  BY <1>1, IInvHolds, PTL

\* Once the body runs, hook, relay, Secret and Repository CR agree, although
\* four calls wrote them (pac.go:110, pac-github.go:72).
THEOREM EventsReachControllers == Spec => []EventsReachController
<1>1. IInv => EventsReachController
  <2> SUFFICES ASSUME IInv, pc = "body", before.smee = None, OnGitHub \/ before.secret = None
               PROVE  Delivers
    BY DEF EventsReachController
  <2>1. smee = container /\ secret = container
    BY DEF IInv, OuterInv, SetupInv, RelayInv, SecretInv, Early, First, Later
  <2>2. container # None
    BY ConstantFacts DEF IInv, TypeOK, ControlOK, None
  <2> QED
    BY <2>1, <2>2 DEF IInv, OuterInv, SetupInv, ProjectInv, Delivers
<1> QED
  BY <1>1, IInvHolds, PTL

\* What a container commits to its project was generated for this project,
\* never by an earlier container into the shared temporary files.
THEOREM CommittedAreOurs == Spec => []CommittedIsOurs
<1>1. IInv => CommittedIsOurs
  BY DEF IInv, FilesInv, Ours, CommittedIsOurs
<1> QED
  BY <1>1, IInvHolds, PTL

-----------------------------------------------------------------------------
(* The run a spec validates.                                               *)

Shown == CHOOSE D \in SUBSET DOMAIN script : OneByOne(script, D)
AllPassed == 1..(step - 1) \subseteq passed
RunsDue == Cardinality(Due(script, step))

\* A spec passes when it runs.
PassedInv == \A i \in passed : i < step
\* A file that is absent has no annotation.
EmptyInv == \A e \in Events : files[e].url = None => files[e].on = "none"

\* The annotations are those the script has given, once it has written the file.
FileNoted(e, i) ==
  files[e].on = "none" \/ Noted(script, e, i, files[e].on) \/ Unwritten(script, e, i)
BranchNoted(e) == branch[e].on = "none" \/ Previewed(script, e, branch[e].on)
NoteInv ==
  /\ pc = "body" => \A e \in Events : FileNoted(e, step)
  /\ BranchNoted("pull_request") /\ (OnGitHub => BranchNoted("push"))
  /\ main.on = "none" \/ Pushed(script, main.on)

\* ev is the event of the last spec that was to start a run.
IsLast(ev) ==
  \E k \in Due(script, step) : RaisedBy(script[k]) = ev /\ NoneDue(script, k + 1, step - 1)

\* All runs due are there, the last one last, or all but this one, whose event
\* may be on its way.
RunsInv ==
  /\ Len(runs) <= RunsDue /\ RunsDue <= Len(runs) + 1
  /\ Len(runs) = RunsDue /\ RunsDue # 0 => IsLast(runs[RunsDue].ev)
WireInv ==
  \A i \in DOMAIN wire : Starting(script, wire[i]) =>
    /\ Len(runs) < RunsDue /\ IsLast(wire[i])
    /\ \A j \in DOMAIN wire : Starting(script, wire[j]) => j = i

\* After a spec that shows it, all are there.
ShownInv == AllStarted(script, Shown, step) => Len(runs) = RunsDue
LastInv ==
  OnGitHub => \A j \in Shown :
    j < step /\ script[j].op \in Checks /\ (\A k \in (j + 1)..(step - 1) : script[k].op \notin Checks)
      => last = Cardinality(Due(script, j))
\* The runs before the last one due have ended, and so has this one once a spec has
\* validated it; no two are of one second.
EndedInv ==
  /\ \A k \in DOMAIN runs : ~runs[k].tied
  /\ \A k \in DOMAIN runs : k < RunsDue \/ AllEnded(script, Shown, step) => Terminal(runs[k])
PickedInv == picked # 0 /\ (step \in Shown \/ AllStarted(script, Shown, step)) => picked = RunsDue

OrderInv == RunsInv /\ WireInv /\ ShownInv /\ LastInv /\ PickedInv /\ EndedInv
CheckInv ==
  /\ PassedInv /\ EmptyInv /\ (pc # "body" => step = 1)
  /\ AllPassed => NoteInv /\ OrderInv
  /\ CheckedRunIsMeant

LEMMA ScriptFacts ==
  ASSUME TypeOK
  PROVE  /\ Len(script) \in Nat /\ DOMAIN script = 1..Len(script) /\ step \in 1..(Len(script) + 1)
         /\ Shown \subseteq DOMAIN script /\ OneByOne(script, Shown)
         /\ runs \in Seq(RunType) /\ Len(runs) \in Nat /\ wire \in Seq(WireEvents)
<1>1. script \in Scripts /\ script \in Seq(Step)
  BY ScriptsAssumption DEF TypeOK, ControlOK
<1>2. \E D \in SUBSET DOMAIN script : OneByOne(script, D)
  BY <1>1, RaisedOneByOne
<1> QED
  BY <1>1, <1>2 DEF Shown, TypeOK, BodyOK

\* The runs due: none at first, and one more after each spec that starts one.
LEMMA DueFacts ==
  ASSUME NEW s, NEW i \in Nat \ {0}
  PROVE  /\ Cardinality(Due(s, i)) \in Nat
         /\ Cardinality(Due(s, i)) = 0 <=> Due(s, i) = {}
         /\ ~StartsRun(s, i) => Due(s, i + 1) = Due(s, i)
         /\ StartsRun(s, i) => /\ Due(s, i + 1) = Due(s, i) \cup {i}
                              /\ Cardinality(Due(s, i + 1)) = Cardinality(Due(s, i)) + 1
<1>1. IsFiniteSet(1..(i - 1)) /\ Due(s, i) \subseteq 1..(i - 1)
  BY FS_Interval DEF Due
<1>2. IsFiniteSet(Due(s, i))
  BY <1>1, FS_Subset
<1>3. i \notin Due(s, i)
  BY <1>1
<1>4. /\ ~StartsRun(s, i) => Due(s, i + 1) = Due(s, i)
      /\ StartsRun(s, i) => Due(s, i + 1) = Due(s, i) \cup {i}
  <2>1. 1..((i + 1) - 1) = (1..(i - 1)) \cup {i}
    OBVIOUS
  <2> QED
    BY <2>1 DEF Due
<1>5. Cardinality(Due(s, i)) \in Nat /\ (Cardinality(Due(s, i)) = 0 <=> Due(s, i) = {})
  BY <1>2, FS_CardinalityType, FS_EmptySet
<1>6. Cardinality(Due(s, i) \cup {i}) = Cardinality(Due(s, i)) + 1
  BY <1>2, <1>3, FS_AddElement
<1> QED
  BY <1>4, <1>5, <1>6

\* Specs that start no run leave things as they are.
LEMMA QuietStep ==
  ASSUME TypeOK, script' = script, step' = step + 1, ~StartsRun(script, step)
  PROVE  /\ RunsDue' = RunsDue /\ \A ev : IsLast(ev) => IsLast(ev)'
         /\ Shown' = Shown
         /\ AllStarted(script, Shown, step)' => step \in Shown \/ AllStarted(script, Shown, step)
         /\ AllEnded(script, Shown, step)' =>
              (step \in Shown /\ Cur.op \in Checks) \/ AllEnded(script, Shown, step)
<1>1. step \in Nat \ {0} /\ Shown' = Shown
  BY ScriptFacts DEF Shown
<1>2. Due(script, step)' = Due(script, step)
  <2>1. Due(script, step + 1) = Due(script, step)
    BY <1>1, DueFacts
  <2> QED
    BY <2>1 DEF Due
<1>3. ASSUME NEW k \in Nat, NoneDue(script, k, step - 1)
      PROVE  NoneDue(script, k, step' - 1)
  BY <1>1, <1>3 DEF NoneDue
<1>4. ASSUME NEW ev, IsLast(ev)
      PROVE  IsLast(ev)'
  <2>1. PICK k \in Due(script, step) : RaisedBy(script[k]) = ev /\ NoneDue(script, k + 1, step - 1)
    BY <1>4 DEF IsLast
  <2>2. k + 1 \in Nat
    BY <1>1, <2>1 DEF Due
  <2> QED
    BY <1>2, <1>3, <2>1, <2>2 DEF IsLast
<1>5. ASSUME AllStarted(script, Shown, step)', step \notin Shown
      PROVE  AllStarted(script, Shown, step)
  <2>1. PICK j \in Shown : j < step + 1 /\ NoneDue(script, j, (step + 1) - 1)
    BY <1>1, <1>5 DEF AllStarted
  <2>2. j \in Nat /\ j < step
    BY <1>1, <1>5, <2>1, ScriptFacts
  <2>3. NoneDue(script, j, step - 1)
    BY <1>1, <2>1, <2>2 DEF NoneDue
  <2> QED
    BY <2>2, <2>3 DEF AllStarted
<1>6. ASSUME AllEnded(script, Shown, step)', ~(step \in Shown /\ Cur.op \in Checks)
      PROVE  AllEnded(script, Shown, step)
  <2>1. PICK j \in Shown : j < step + 1 /\ script[j].op \in Checks /\ NoneDue(script, j, (step + 1) - 1)
    BY <1>1, <1>6 DEF AllEnded
  <2>2. j \in Nat /\ j < step
    BY <1>1, <1>6, <2>1, ScriptFacts DEF Cur
  <2>3. NoneDue(script, j, step - 1)
    BY <1>1, <2>1, <2>2 DEF NoneDue
  <2> QED
    BY <2>1, <2>2, <2>3 DEF AllEnded
<1> QED
  BY <1>1, <1>2, <1>4, <1>5, <1>6 DEF RunsDue

\* The next spec after one that started no run: what it may have added to the wire
\* starts none, and what it has shown is so.
LEMMA PassQuiet ==
  ASSUME TypeOK, OrderInv, UNCHANGED <<script, runs>>, step' = step + 1, picked' = 0,
         ~StartsRun(script, step), step \in Shown => Len(runs) = RunsDue,
         step \in Shown /\ Cur.op \in Checks => \A k \in DOMAIN runs : Terminal(runs[k]),
         \/ wire' = wire
         \/ \E ev \in WireEvents : wire' = Append(wire, ev) /\ ~Starting(script, ev),
         LastInv'
  PROVE  OrderInv'
<1>1. /\ RunsDue' = RunsDue /\ \A ev : IsLast(ev) => IsLast(ev)'
      /\ AllStarted(script, Shown, step)' => step \in Shown \/ AllStarted(script, Shown, step)
      /\ AllEnded(script, Shown, step)' =>
           (step \in Shown /\ Cur.op \in Checks) \/ AllEnded(script, Shown, step)
  BY QuietStep
<1>2. RunsInv'
  BY <1>1 DEF OrderInv, RunsInv
<1>3. ShownInv'
  BY <1>1 DEF OrderInv, ShownInv
<1>4. WireInv'
  <2>1. CASE wire' = wire
    BY <1>1, <2>1 DEF OrderInv, WireInv
  <2>2. ASSUME NEW ev \in WireEvents, wire' = Append(wire, ev), ~Starting(script, ev)
        PROVE  WireInv'
    <3>1. wire \in Seq(WireEvents)
      BY ScriptFacts
    <3>2. \A i \in DOMAIN wire' : Starting(script, wire'[i]) => i \in DOMAIN wire /\ wire'[i] = wire[i]
      BY <2>2, <3>1
    <3> QED
      BY <1>1, <3>2 DEF OrderInv, WireInv
  <2> QED
    BY <2>1, <2>2
<1>5. PickedInv'
  BY DEF PickedInv
<1>6. EndedInv'
  BY <1>1 DEF OrderInv, EndedInv, Terminal
<1> QED
  BY <1>2, <1>3, <1>4, <1>5, <1>6 DEF OrderInv

\* A spec that is no check leaves the run seen last alone.
LEMMA LastKept ==
  ASSUME TypeOK, LastInv, UNCHANGED <<script, last>>, step' = step + 1, Cur.op \notin Checks,
         step <= Len(script)
  PROVE  LastInv'
<1>1. Shown' = Shown /\ step \in Nat /\ Shown \subseteq Nat
  BY ScriptFacts DEF Shown
<1> SUFFICES ASSUME OnGitHub, NEW j \in Shown, j < step + 1, script[j].op \in Checks,
                    \A k \in (j + 1)..((step + 1) - 1) : script[k].op \notin Checks
             PROVE  last = Cardinality(Due(script, j))
  BY <1>1 DEF LastInv, OnGitHub
<1>2. j \in Nat /\ j < step
  BY <1>1 DEF Cur
<1>3. \A k \in (j + 1)..(step - 1) : script[k].op \notin Checks
  BY <1>1, <1>2
<1> QED
  BY <1>2, <1>3 DEF LastInv

\* A spec raises an event that starts a run: all runs due were there.
LEMMA PassRaise ==
  ASSUME TypeOK, OrderInv, UNCHANGED <<script, runs>>, step' = step + 1, picked' = 0,
         step <= Len(script), StartsRun(script, step), RaisedBy(script[step]) \in WireEvents,
         wire' = Append(wire, RaisedBy(script[step])), LastInv'
  PROVE  OrderInv'
<1>1. step \in Nat \ {0} /\ step \in DOMAIN script /\ Shown' = Shown /\ Shown \subseteq Nat
  BY ScriptFacts DEF Shown
<1>2. Len(runs) = RunsDue
  <2>1. Due(script, step) = {} \/ AllStarted(script, Shown, step)
    BY <1>1, ScriptFacts DEF OneByOne, AllEnded, AllStarted
  <2>2. CASE Due(script, step) = {}
    <3>1. RunsDue = 0
      BY <1>1, <2>2, DueFacts DEF RunsDue
    <3> QED
      BY <3>1, ScriptFacts DEF OrderInv, RunsInv
  <2> QED
    BY <2>1, <2>2 DEF OrderInv, ShownInv
<1>3. Due(script, step + 1) = Due(script, step) \cup {step}
      /\ Cardinality(Due(script, step + 1)) = Cardinality(Due(script, step)) + 1
  BY <1>1, DueFacts
<1>4. RunsDue' = RunsDue + 1 /\ Due(script, step)' = Due(script, step) \cup {step}
  BY <1>3 DEF RunsDue
<1>5. RunsDue \in Nat
  BY <1>1, DueFacts DEF RunsDue
<1>6. \E k \in Due(script, step)' :
        RaisedBy(script'[k]) = RaisedBy(script[step]) /\ NoneDue(script', k + 1, step' - 1)
  <2>1. (step + 1)..((step + 1) - 1) = {}
    BY <1>1
  <2>2. NoneDue(script', step + 1, step' - 1)
    BY <2>1 DEF NoneDue
  <2>3. step \in Due(script, step)'
    BY <1>4
  <2> QED
    BY <2>2, <2>3
<1>7. RunsInv'
  BY <1>2, <1>4, <1>5 DEF RunsInv
<1>8. WireInv'
  <2>1. wire \in Seq(WireEvents)
    BY ScriptFacts
  <2>2. \A i \in DOMAIN wire : ~Starting(script, wire[i])
    BY <1>2, <1>5 DEF OrderInv, WireInv
  <2>3. \A i \in DOMAIN wire' : /\ i \in DOMAIN wire \/ i = Len(wire) + 1
                                /\ i \in DOMAIN wire => wire'[i] = wire[i]
                                /\ i = Len(wire) + 1 => wire'[i] = RaisedBy(script[step])
    BY <2>1
  <2>4. \A i \in DOMAIN wire' : Starting(script, wire'[i]) =>
          i = Len(wire) + 1 /\ wire'[i] = RaisedBy(script[step])
    BY <2>2, <2>3
  <2>5. Len(runs') < RunsDue'
    BY <1>2, <1>4, <1>5
  <2> SUFFICES ASSUME NEW i \in DOMAIN wire', Starting(script', wire'[i])
               PROVE  /\ Len(runs') < RunsDue' /\ IsLast(wire[i])'
                      /\ \A j \in DOMAIN wire' : Starting(script', wire'[j]) => j = i
    BY DEF WireInv
  <2>6. i = Len(wire) + 1 /\ wire'[i] = RaisedBy(script[step])
    BY <2>4
  <2>7. IsLast(wire[i])'
    BY <1>6, <2>6 DEF IsLast
  <2> QED
    BY <2>4, <2>5, <2>6, <2>7
<1>9. ~AllStarted(script, Shown, step)'
  <2> SUFFICES ASSUME NEW j \in Shown, j < step + 1, NoneDue(script, j, (step + 1) - 1)
               PROVE  FALSE
    BY <1>1 DEF AllStarted
  <2>1. step \in j..((step + 1) - 1)
    BY <1>1
  <2> QED
    BY <2>1 DEF NoneDue
<1>10. EndedInv'
  <2>1. \A k \in DOMAIN runs : Terminal(runs[k])
    <3>1. Due(script, step) = {} \/ AllEnded(script, Shown, step)
      BY <1>1, ScriptFacts DEF OneByOne
    <3>2. CASE Due(script, step) = {}
      <4>1. Len(runs) = 0
        BY <1>1, <1>2, <3>2, DueFacts DEF RunsDue
      <4> QED
        BY <4>1, ScriptFacts
    <3>3. CASE AllEnded(script, Shown, step)
      BY <3>3 DEF OrderInv, EndedInv
    <3> QED
      BY <3>1, <3>2, <3>3
  <2> QED
    BY <2>1 DEF OrderInv, EndedInv, Terminal
<1> QED
  BY <1>7, <1>8, <1>9, <1>10 DEF OrderInv, ShownInv, PickedInv

\* The only natural number above 0 that is at most 1.
LEMMA OneIsLeft ==
  ASSUME NEW k \in Nat, k # 0, k <= 1
  PROVE  k = 1
OBVIOUS

\* A spec picks a run: if it is to show that all due are there, they are, and it
\* has picked the last one.
LEMMA PickLatest ==
  ASSUME TypeOK, OrderInv, UNCHANGED <<script, step, last, wire, runs>>, step <= Len(script),
         Cur.op \in Checks, NEW n \in Latest, Cur.op = "new" => NewRun(n), picked' = n
  PROVE  OrderInv'
<1>0. n = Len(runs) /\ runs # <<>>
  <2>1. runs \in Seq(RunType) /\ n \in 1..Len(runs)
    BY ScriptFacts DEF Latest
  <2>2. CASE n < Len(runs)
    <3>1. Len(runs) \in (n + 1)..Len(runs) /\ Len(runs) \in DOMAIN runs
      BY <2>1, <2>2
    <3>2. runs[Len(runs)].tied /\ ~runs[Len(runs)].tied
      BY <3>1 DEF Latest, OrderInv, EndedInv
    <3> QED
      BY <3>2
  <2> QED
    BY <2>1, <2>2
<1>1. step \in Nat \ {0} /\ Shown' = Shown /\ Len(runs) \in Nat /\ Len(runs) # 0
  BY <1>0, ScriptFacts DEF Shown
<1>2. RunsDue \in Nat /\ RunsDue' = RunsDue
  BY <1>1, DueFacts DEF RunsDue
<1>3. Len(runs) <= RunsDue /\ RunsDue <= Len(runs) + 1
  BY DEF OrderInv, RunsInv
<1>4. ASSUME step \in Shown
      PROVE  Len(runs) = RunsDue
  <2>1. Shows(script, Shown, step)
    BY <1>4, ScriptFacts DEF OneByOne
  <2>2. CASE Cardinality(Due(script, step)) = 1
    <3>1. RunsDue = 1
      BY <2>2 DEF RunsDue
    <3>2. Len(runs) <= 1 /\ Len(runs) \in Nat /\ Len(runs) # 0
      BY <3>1, <1>1, <1>3
    <3> QED
      BY <3>1, <3>2, OneIsLeft
  <2>3. ASSUME script \in GitHub, script[step].op = "new", NEW j \in Shown, j < step,
               script[j].op \in Checks, \A k \in (j + 1)..(step - 1) : script[k].op \notin Checks,
               Cardinality(Due(script, step)) = Cardinality(Due(script, j)) + 1
        PROVE  Len(runs) = RunsDue
    <3>1. last = Cardinality(Due(script, j))
      BY <2>3 DEF OrderInv, LastInv, OnGitHub
    <3>2. Len(runs) # last
      BY <1>0, <2>3 DEF Cur, NewRun
    <3>3. j \in Nat \ {0}
      BY ScriptFacts
    <3>4. Cardinality(Due(script, j)) \in Nat
      BY <3>3, DueFacts
    <3> QED
      BY <1>1, <1>3, <2>3, <3>1, <3>2, <3>4 DEF RunsDue
  <2>4. script[step].op # "count"
    BY DEF Cur, Checks
  <2> QED
    BY <2>1, <2>2, <2>3, <2>4 DEF Shows
<1>5. AllStarted(script, Shown, step) => Len(runs) = RunsDue
  BY DEF OrderInv, ShownInv
<1>6. PickedInv'
  BY <1>0, <1>1, <1>2, <1>4, <1>5 DEF PickedInv
<1>7. RunsInv' /\ WireInv'
  BY <1>2 DEF OrderInv, RunsInv, WireInv, IsLast
<1>8. ShownInv' /\ LastInv' /\ EndedInv'
  BY <1>1, <1>2 DEF OrderInv, ShownInv, LastInv, OnGitHub, EndedInv, Terminal
<1> QED
  BY <1>6, <1>7, <1>8 DEF OrderInv

\* The run it has validated is the one seen last.
LEMMA PassCheck ==
  ASSUME TypeOK, OrderInv, UNCHANGED <<script, runs, wire>>, step' = step + 1, picked' = 0,
         step <= Len(script), Cur.op \in Checks, picked # 0, OnGitHub => last' = picked,
         Terminal(runs[picked])
  PROVE  OrderInv'
<1>1. step \in Nat \ {0} /\ Shown' = Shown /\ Shown \subseteq Nat
  BY ScriptFacts DEF Shown
<1>2. ~StartsRun(script, step)
  BY DEF StartsRun, Raises, Cur, Checks
<1>3. step \in Shown => picked = RunsDue
  BY DEF OrderInv, PickedInv
<1>4. step \in Shown => Len(runs) = RunsDue
  <2>1. picked \in 1..Len(runs)
    BY ScriptFacts DEF TypeOK, BodyOK
  <2>2. RunsDue \in Nat
    BY <1>1, DueFacts DEF RunsDue
  <2> QED
    BY <1>3, <2>1, <2>2, ScriptFacts DEF OrderInv, RunsInv
<1>4a. step \in Shown => \A k \in DOMAIN runs : Terminal(runs[k])
  <2>1. RunsDue \in Nat
    BY <1>1, DueFacts DEF RunsDue
  <2>2. ASSUME step \in Shown, NEW k \in DOMAIN runs
        PROVE  k < RunsDue \/ k = picked
    BY <1>3, <1>4, <2>1, <2>2, ScriptFacts
  <2> QED
    BY <2>2 DEF OrderInv, EndedInv
<1>5. LastInv'
  <2> SUFFICES ASSUME OnGitHub, NEW j \in Shown, j < step + 1,
                      \A k \in (j + 1)..((step + 1) - 1) : script[k].op \notin Checks
               PROVE  picked = Cardinality(Due(script, j))
    BY <1>1 DEF LastInv, OnGitHub
  <2>1. j = step
    <3>1. CASE j < step
      <4>1. step \in (j + 1)..((step + 1) - 1)
        BY <1>1, <3>1
      <4> QED
        BY <4>1 DEF Cur
    <3> QED
      BY <1>1, <3>1
  <2> QED
    BY <1>3, <2>1 DEF RunsDue
<1> QED
  BY <1>2, <1>4, <1>4a, <1>5, PassQuiet

\* What is left of a sequence without one of its entries.
LEMMA RemovedFacts ==
  ASSUME NEW S, NEW w \in Seq(S), NEW i \in DOMAIN w
  PROVE  \A j \in DOMAIN RemoveAt(w, i) : LET k == IF j < i THEN j ELSE j + 1
                                          IN  j \in Nat /\ k \in DOMAIN w /\ RemoveAt(w, i)[j] = w[k]
<1>1. Len(w) \in Nat /\ DOMAIN w = 1..Len(w) /\ i \in 1..Len(w) /\ \A j \in 1..Len(w) : w[j] \in S
  OBVIOUS
<1> DEFINE n == Len(w)
           a == SubSeq(w, 1, i - 1)
           b == SubSeq(w, i + 1, n)
<1>2. a \in Seq(S) /\ Len(a) = i - 1 /\ \A j \in 1..(i - 1) : a[j] = w[j]
  <2>1. 1 \in Int /\ i - 1 \in Int /\ \A j \in 1..(i - 1) : w[j] \in S
    BY <1>1
  <2>2. /\ a \in Seq(S) /\ Len(a) = IF 1 <= i - 1 THEN (i - 1) - 1 + 1 ELSE 0
        /\ \A j \in 1..((i - 1) - 1 + 1) : a[j] = w[1 + j - 1]
    BY <2>1, SubSeqProperties
  <2> HIDE DEF a
  <2> QED
    BY <1>1, <2>2
<1>3. b \in Seq(S) /\ Len(b) = n - i /\ \A j \in 1..(n - i) : b[j] = w[j + i]
  <2>1. i + 1 \in Int /\ n \in Int /\ \A j \in (i + 1)..n : w[j] \in S
    BY <1>1
  <2>2. /\ b \in Seq(S) /\ Len(b) = IF i + 1 <= n THEN n - (i + 1) + 1 ELSE 0
        /\ \A j \in 1..(n - (i + 1) + 1) : b[j] = w[(i + 1) + j - 1]
    BY <2>1, SubSeqProperties
  <2> HIDE DEF b
  <2>3. \A j \in 1..(n - i) : b[j] = w[j + i]
    <3>1. 1..(n - (i + 1) + 1) = 1..(n - i) /\ \A j \in 1..(n - i) : (i + 1) + j - 1 = j + i
      BY <1>1
    <3> QED
      BY <2>2, <3>1
  <2> QED
    BY <1>1, <2>2, <2>3
<1>4. RemoveAt(w, i) = a \o b
  BY DEF RemoveAt
<1> HIDE DEF a, b
<1>5. /\ a \o b \in Seq(S) /\ Len(a \o b) = n - 1
      /\ \A j \in 1..(n - 1) : (a \o b)[j] = IF j <= i - 1 THEN a[j] ELSE b[j - (i - 1)]
  <2>1. Len(a) + Len(b) = n - 1
    BY <1>1, <1>2, <1>3
  <2>2. /\ a \o b \in Seq(S) /\ Len(a \o b) = Len(a) + Len(b)
        /\ \A j \in 1..(Len(a) + Len(b)) : (a \o b)[j] = IF j <= Len(a) THEN a[j] ELSE b[j - Len(a)]
    BY <1>2, <1>3, ConcatProperties
  <2> HIDE DEF n
  <2>3. \A j \in 1..(n - 1) : (a \o b)[j] = IF j <= i - 1 THEN a[j] ELSE b[j - (i - 1)]
    BY <1>2, <2>1, <2>2
  <2> QED
    BY <2>1, <2>2, <2>3
<1>6. ASSUME NEW j \in 1..(n - 1)
      PROVE  (a \o b)[j] = w[IF j < i THEN j ELSE j + 1]
  <2>1. CASE j < i
    BY <1>1, <1>2, <1>5, <2>1
  <2>2. CASE ~(j < i)
    <3>1. j - (i - 1) \in 1..(n - i) /\ (j - (i - 1)) + i = j + 1 /\ ~(j <= i - 1)
      BY <1>1, <2>2
    <3>2. b[j - (i - 1)] = w[j + 1]
      BY <1>3, <3>1
    <3> QED
      BY <1>5, <2>2, <3>1, <3>2
  <2> QED
    BY <2>1, <2>2
<1>7. DOMAIN RemoveAt(w, i) = 1..(n - 1)
  BY <1>4, <1>5
<1> SUFFICES ASSUME NEW j \in 1..(n - 1)
             PROVE  LET k == IF j < i THEN j ELSE j + 1
                    IN  j \in Nat /\ k \in DOMAIN w /\ RemoveAt(w, i)[j] = w[k]
  BY <1>7
<1>8. (IF j < i THEN j ELSE j + 1) \in DOMAIN w
  BY <1>1
<1>9. (a \o b)[j] = w[IF j < i THEN j ELSE j + 1]
  BY <1>6
<1>10. RemoveAt(w, i)[j] = w[IF j < i THEN j ELSE j + 1]
  BY <1>4, <1>9, Zenon
<1> QED
  BY <1>8, <1>10

\* Runs that end, and are as many as they were, are as good.
SameRun(r, q) == q.ev = r.ev /\ q.tied = r.tied /\ (Terminal(r) => Terminal(q))
LEMMA SameRuns ==
  ASSUME TypeOK, OrderInv, UNCHANGED <<script, step, last, picked>>,
         DOMAIN runs' = DOMAIN runs, Len(runs') = Len(runs),
         \A k \in DOMAIN runs : SameRun(runs[k], runs'[k])
  PROVE  /\ RunsDue' = RunsDue /\ \A ev : IsLast(ev) => IsLast(ev)'
         /\ RunsInv' /\ ShownInv' /\ LastInv' /\ PickedInv' /\ EndedInv'
<1>1. Shown' = Shown /\ step \in Nat \ {0}
  BY ScriptFacts DEF Shown
<1>2. RunsDue \in Nat /\ RunsDue' = RunsDue
  BY <1>1, DueFacts DEF RunsDue
<1>3. \A ev : IsLast(ev) => IsLast(ev)'
  BY DEF IsLast
<1>4. RunsInv'
  <2>1. Len(runs) \in Nat /\ DOMAIN runs = 1..Len(runs)
    BY ScriptFacts
  <2>2. Len(runs) = RunsDue /\ RunsDue # 0 => RunsDue \in DOMAIN runs
    BY <1>2, <2>1
  <2> QED
    BY <1>2, <1>3, <2>2 DEF OrderInv, RunsInv, IsLast, SameRun
<1>5. ShownInv' /\ LastInv' /\ PickedInv'
  BY <1>1, <1>2 DEF OrderInv, ShownInv, LastInv, PickedInv, OnGitHub
<1>6. EndedInv'
  BY <1>1, <1>2 DEF OrderInv, EndedInv, SameRun, Terminal
<1> QED
  BY <1>2, <1>3, <1>4, <1>5, <1>6

\* An event that leaves the wire, and may end runs, breaks nothing.
LEMMA WireLess ==
  ASSUME TypeOK, OrderInv, UNCHANGED <<script, step, last, picked>>,
         NEW i \in DOMAIN wire, wire' = RemoveAt(wire, i),
         DOMAIN runs' = DOMAIN runs, Len(runs') = Len(runs),
         \A k \in DOMAIN runs : SameRun(runs[k], runs'[k])
  PROVE  OrderInv'
<1>1. wire \in Seq(WireEvents) /\ i \in Nat
  BY ScriptFacts
<1>2. WireInv'
  <2> DEFINE Was(j) == IF j < i THEN j ELSE j + 1
  <2>1. \A j \in DOMAIN wire' : j \in Nat /\ Was(j) \in DOMAIN wire /\ wire'[j] = wire[Was(j)]
    BY <1>1, RemovedFacts
  <2> SUFFICES ASSUME NEW j \in DOMAIN wire', Starting(script', wire'[j])
               PROVE  /\ Len(runs') < RunsDue' /\ IsLast(wire[j])'
                      /\ \A l \in DOMAIN wire' : Starting(script', wire'[l]) => l = j
    BY DEF WireInv
  <2>2. Was(j) \in DOMAIN wire /\ wire'[j] = wire[Was(j)] /\ Starting(script, wire[Was(j)])
    BY <2>1
  <2>3. /\ Len(runs) < RunsDue /\ IsLast(wire[Was(j)])
        /\ \A l \in DOMAIN wire : Starting(script, wire[l]) => l = Was(j)
    BY <2>2 DEF OrderInv, WireInv
  <2>4. IsLast(wire[j])'
    BY <2>2, <2>3 DEF IsLast
  <2>5. ASSUME NEW l \in DOMAIN wire', Starting(script', wire'[l])
        PROVE  l = j
    <3>1. l \in Nat /\ j \in Nat /\ Was(l) = Was(j)
      BY <2>1, <2>3, <2>5
    <3> QED
      BY <1>1, <3>1
  <2> QED
    BY <2>3, <2>4, <2>5, SameRuns
<1> QED
  BY <1>2, SameRuns DEF OrderInv

\* An event that starts a run is that of the last spec that was to start one, and
\* the only one on the wire: now all runs due are there.
LEMMA RunStarts ==
  ASSUME TypeOK, OrderInv, UNCHANGED <<script, step, last, picked>>,
         NEW i \in DOMAIN wire, wire' = RemoveAt(wire, i), Starting(script, wire[i]),
         NEW r, r.ev = wire[i], r.tied \in Tied, runs' = Append(runs, r)
  PROVE  OrderInv'
<1>1. /\ Shown' = Shown /\ wire \in Seq(WireEvents) /\ step \in Nat \ {0} /\ i \in Nat
      /\ runs \in Seq(RunType) /\ Len(runs) \in Nat
  BY ScriptFacts DEF Shown
<1>2. RunsDue \in Nat /\ RunsDue' = RunsDue
  BY <1>1, DueFacts DEF RunsDue
<1>3. /\ Len(runs) < RunsDue /\ IsLast(wire[i])
      /\ \A l \in DOMAIN wire : Starting(script, wire[l]) => l = i
  BY DEF OrderInv, WireInv
<1>4. Len(runs) + 1 = RunsDue
  BY <1>1, <1>2, <1>3 DEF OrderInv, RunsInv
<1>5. Len(runs') = RunsDue /\ runs'[RunsDue] = r
  BY <1>1, <1>4
<1>6. RunsInv'
  BY <1>2, <1>3, <1>5 DEF RunsInv, IsLast
<1>7. WireInv'
  <2> DEFINE Was(j) == IF j < i THEN j ELSE j + 1
  <2>1. \A j \in DOMAIN wire' : j \in Nat /\ Was(j) \in DOMAIN wire /\ wire'[j] = wire[Was(j)]
    BY <1>1, RemovedFacts
  <2>2. \A j \in DOMAIN wire' : Was(j) # i
    BY <1>1, <2>1
  <2>3. \A j \in DOMAIN wire' : ~Starting(script', wire'[j])
    BY <1>3, <2>1, <2>2
  <2> QED
    BY <2>3 DEF WireInv
<1>8. ShownInv' /\ LastInv'
  BY <1>1, <1>2, <1>5 DEF OrderInv, ShownInv, LastInv, OnGitHub
<1>9. PickedInv'
  BY <1>1, <1>2 DEF OrderInv, PickedInv
<1>10. EndedInv'
  <2>1. ~AllEnded(script, Shown, step)
    BY <1>1, <1>2, <1>4 DEF OrderInv, ShownInv, AllEnded, AllStarted
  <2>2. \A k \in DOMAIN runs : k < RunsDue
    BY <1>1, <1>2, <1>4
  <2>3. ~r.tied
    <3>1. CASE runs = <<>>
      BY <3>1 DEF Tied
    <3>2. CASE runs # <<>>
      <4>1. Len(runs) \in DOMAIN runs
        BY <1>1, <3>2
      <4>2. Terminal(runs[Len(runs)])
        BY <2>2, <4>1 DEF OrderInv, EndedInv
      <4> QED
        BY <4>2 DEF Tied
    <3> QED
      BY <3>1, <3>2
  <2>4. \A k \in DOMAIN runs' : IF k = RunsDue THEN runs'[k] = r
                                              ELSE k \in DOMAIN runs /\ runs'[k] = runs[k]
    BY <1>1, <1>2, <1>4
  <2> QED
    BY <1>1, <1>2, <2>1, <2>2, <2>3, <2>4 DEF OrderInv, EndedInv, Terminal
<1> QED
  BY <1>6, <1>7, <1>8, <1>9, <1>10 DEF OrderInv

\* A spec that failed is not among those before a later one.
LEMMA FailKeeps ==
  ASSUME TypeOK, CheckInv, UNCHANGED <<script, pc, picks, runs>>, pc = "body", FailIt, EmptyInv'
  PROVE  CheckInv'
<1>1. step \in Nat \ {0}
  BY ScriptFacts
<1>2. PassedInv' /\ step \notin passed
  <2>1. \A i \in passed : i \in Nat
    BY ScriptFacts DEF TypeOK, BodyOK
  <2> QED
    BY <1>1, <2>1 DEF CheckInv, PassedInv, FailIt
<1>3. ~AllPassed'
  <2>1. step \in 1..((step + 1) - 1)
    BY <1>1
  <2> QED
    BY <1>2, <2>1 DEF AllPassed, FailIt
<1>4. CheckedRunIsMeant'
  BY DEF CheckInv, CheckedRunIsMeant, FailIt
<1> QED
  BY <1>2, <1>3, <1>4 DEF CheckInv

\* A spec that passed makes no difference to those before it.
LEMMA PassMarks ==
  ASSUME TypeOK, CheckInv, UNCHANGED <<script, runs>>, PassIt
  PROVE  /\ PassedInv' /\ (AllPassed' => AllPassed)
         /\ \A p \in picks : 1..(p[1] - 1) \subseteq passed' /\ Awaited(script, p[1])
              => runs[p[2]].ev = script[p[1]].ev
<1>1. step \in Nat \ {0} /\ \A i \in passed : i \in Nat /\ i < step
  BY ScriptFacts DEF TypeOK, BodyOK, CheckInv, PassedInv
<1>2. PassedInv'
  BY <1>1 DEF PassedInv, PassIt
<1>3. AllPassed' => AllPassed
  BY <1>1 DEF AllPassed, PassIt
<1>4. \A p \in picks : 1..(p[1] - 1) \subseteq passed' => 1..(p[1] - 1) \subseteq passed
  <2> SUFFICES ASSUME NEW p \in picks, 1..(p[1] - 1) \subseteq passed \cup {step}
               PROVE  1..(p[1] - 1) \subseteq passed
    BY DEF PassIt
  <2>1. p[1] \in Nat /\ p[1] < step
    BY <1>1 DEF TypeOK, BodyOK
  <2> QED
    BY <1>1, <2>1
<1> QED
  BY <1>2, <1>3, <1>4 DEF CheckInv, CheckedRunIsMeant

LEMMA PassKeeps ==
  ASSUME TypeOK, CheckInv, UNCHANGED <<script, pc, picks, runs>>, pc = "body", PassIt, EmptyInv',
         AllPassed => NoteInv' /\ OrderInv'
  PROVE  CheckInv'
BY PassMarks DEF CheckInv, CheckedRunIsMeant

\* The annotation of a file is the one the last spec that wrote it has given.
LEMMA NotedAfter ==
  ASSUME NEW s, NEW e, NEW a, NEW i \in Nat \ {0}
  PROVE  /\ Noted(s, e, i, a) /\ ~Writes(s[i], e) => Noted(s, e, i + 1, a)
         /\ Writes(s[i], e) /\ Note(s[i]) = a => Noted(s, e, i + 1, a)
         /\ Unwritten(s, e, i) /\ ~Writes(s[i], e) => Unwritten(s, e, i + 1)
<1>1. ASSUME Noted(s, e, i, a), ~Writes(s[i], e)
      PROVE  Noted(s, e, i + 1, a)
  <2>1. PICK k \in 1..(i - 1) : /\ Writes(s[k], e) /\ Note(s[k]) = a
                                /\ \A j \in (k + 1)..(i - 1) : ~Writes(s[j], e)
    BY <1>1 DEF Noted
  <2>2. k \in 1..((i + 1) - 1) /\ \A j \in (k + 1)..((i + 1) - 1) : ~Writes(s[j], e)
    BY <1>1, <2>1
  <2> QED
    BY <2>1, <2>2 DEF Noted
<1>2. ASSUME Writes(s[i], e), Note(s[i]) = a
      PROVE  Noted(s, e, i + 1, a)
  <2>1. i \in 1..((i + 1) - 1) /\ (i + 1)..((i + 1) - 1) = {}
    OBVIOUS
  <2> QED
    BY <1>2, <2>1 DEF Noted
<1>3. Unwritten(s, e, i) /\ ~Writes(s[i], e) => Unwritten(s, e, i + 1)
  <2>1. \A k \in 1..((i + 1) - 1) : k \in 1..(i - 1) \/ k = i
    OBVIOUS
  <2> QED
    BY <2>1 DEF Unwritten
<1> QED
  BY <1>1, <1>2, <1>3

LEMMA WriteNotes ==
  ASSUME TypeOK, NoteInv, UNCHANGED <<script, branch, main, pc>>, step' = step + 1,
         \A e \in Events : \/ files'[e].on = "none"
                           \/ Writes(Cur, e) /\ files'[e].on = Note(Cur)
                           \/ ~Writes(Cur, e) /\ files'[e].on = files[e].on
  PROVE  NoteInv'
<1>1. step \in Nat \ {0}
  BY ScriptFacts
<1>2. ASSUME pc = "body", NEW e \in Events
      PROVE  FileNoted(e, step)'
  <2>1. FileNoted(e, step)
    BY <1>2 DEF NoteInv
  <2> QED
    BY <1>1, <2>1, NotedAfter DEF Cur, FileNoted
<1> QED
  BY <1>2 DEF NoteInv, BranchNoted, OnGitHub, Events

\* A spec that writes no file.
LEMMA NothingNoted ==
  ASSUME TypeOK, NoteInv, UNCHANGED <<script, pc, files>>, step' = step + 1,
         Cur.op \notin {"generate", "annotate"},
         BranchNoted("pull_request")' /\ (OnGitHub => BranchNoted("push")'),
         main'.on = "none" \/ Pushed(script, main'.on)
  PROVE  NoteInv'
<1>1. step \in Nat \ {0}
  BY ScriptFacts
<1>2. \A e : ~Writes(Cur, e)
  BY DEF Writes
<1>3. ASSUME pc = "body", NEW e \in Events
      PROVE  FileNoted(e, step)'
  <2>1. FileNoted(e, step)
    BY <1>3 DEF NoteInv
  <2> QED
    BY <1>1, <1>2, <2>1, NotedAfter DEF Cur, FileNoted
<1> QED
  BY <1>3 DEF NoteInv, OnGitHub

\* A spec that raises an event, whether or not that may start a run.
LEMMA PassRaises ==
  ASSUME TypeOK, OrderInv, UNCHANGED <<script, last, runs>>, step' = step + 1, picked' = 0,
         step <= Len(script), Cur.op \in {"preview", "trigger", "raise"},
         RaisedBy(Cur) \in WireEvents, wire' = Append(wire, RaisedBy(Cur))
  PROVE  OrderInv'
<1>1. LastInv'
  BY LastKept DEF Checks, OrderInv
<1>2. CASE StartsRun(script, step)
  BY <1>1, <1>2, PassRaise DEF Cur
<1>3. CASE ~StartsRun(script, step)
  <2>1. ~Starting(script, RaisedBy(Cur))
    <3>1. CASE ~Raises(script, step)
      BY <3>1 DEF Raises, Cur, RaisedBy, Starting, Cancels
    <3> QED
      BY <1>3, <3>1 DEF StartsRun, Cur
  <2>2. step \notin Shown
    BY ScriptFacts DEF OneByOne, Shows, Checks, Cur
  <2> QED
    BY <1>1, <1>3, <2>1, <2>2, PassQuiet
<1> QED
  BY <1>2, <1>3

\* A spec that neither raises an event nor counts nor checks a run.
LEMMA PassWrites ==
  ASSUME TypeOK, OrderInv, UNCHANGED <<script, last, runs, wire>>, step' = step + 1, picked' = 0,
         step <= Len(script), Cur.op \in {"generate", "annotate"}
  PROVE  OrderInv'
<1>1. LastInv'
  BY LastKept DEF Checks, OrderInv
<1>2. ~StartsRun(script, step)
  BY DEF StartsRun, Raises, Cur
<1>3. step \notin Shown
  BY ScriptFacts DEF OneByOne, Shows, Checks, Cur
<1> QED
  BY <1>1, <1>2, <1>3, PassQuiet

LEMMA GenerateCheck ==
  ASSUME IInv, CheckInv, Generate
  PROVE  CheckInv'
<1>1. /\ TypeOK /\ pc = "body" /\ step <= Len(script) /\ picked = 0 /\ Cur.op = "generate"
      /\ UNCHANGED <<script, pc, picks, last, picked, branch, main, wire, runs>>
  BY NothingPicked DEF IInv, Generate, InBody, Frame, control
<1>2. files \in [Events -> FileType] /\ projectURL # None
  BY <1>1, FilesNow, ConstantFacts DEF IInv, OuterInv, SetupInv, ProjectInv, FilesInv, Ids, None
<1>3. CASE PassIt /\ files' = [files EXCEPT ![Cur.on] = Generated]
  <2>1. ASSUME NEW e \in Events
        PROVE  files'[e] = IF e = Cur.on THEN Generated ELSE files[e]
    BY <1>2, <1>3
  <2>2. EmptyInv'
    BY <1>2, <2>1 DEF CheckInv, EmptyInv, Generated
  <2>3. AllPassed => NoteInv'
    <3>1. \A e \in Events : \/ Writes(Cur, e) /\ files'[e].on = Note(Cur)
                            \/ ~Writes(Cur, e) /\ files'[e].on = files[e].on
      BY <1>1, <2>1 DEF Writes, Note, Generated
    <3> QED
      BY <1>1, <1>3, <3>1, WriteNotes DEF CheckInv, PassIt
  <2>4. AllPassed => OrderInv'
    BY <1>1, <1>3, PassWrites DEF CheckInv, PassIt
  <2> QED
    BY <1>1, <1>3, <2>2, <2>3, <2>4, PassKeeps
<1>4. CASE /\ FailIt
           /\ \E f \in {files[Cur.on], NoFile, Generated} : files' = [files EXCEPT ![Cur.on] = f]
  <2>1. \A e \in Events : files'[e] \in {files[e], NoFile, Generated}
    BY <1>2, <1>4
  <2>2. EmptyInv'
    BY <1>2, <2>1 DEF CheckInv, EmptyInv, NoFile, Generated
  <2> QED
    BY <1>1, <1>4, <2>2, FailKeeps
<1> QED
  BY <1>3, <1>4 DEF Generate

LEMMA AnnotateCheck ==
  ASSUME IInv, CheckInv, NEW e \in Events, Annotate(e),
         e = IF Cur.on = "tags" THEN "push" ELSE "pull_request"
  PROVE  CheckInv'
<1>1. /\ TypeOK /\ pc = "body" /\ step <= Len(script) /\ picked = 0 /\ Cur.op = "annotate"
      /\ UNCHANGED <<script, pc, picks, last, picked, branch, main, wire, runs>>
  BY NothingPicked DEF IInv, Annotate, InBody, Frame, control
<1>2. files \in [Events -> FileType]
  BY <1>1, FilesNow
<1>3. CASE Absent(e)
  <2>1. FailIt /\ EmptyInv'
    BY <1>3 DEF Annotate, CheckInv, EmptyInv
  <2> QED
    BY <1>1, <2>1, FailKeeps
<1>4. CASE ~Absent(e)
  <2>1. PassIt /\ files' = [files EXCEPT ![e].on = Cur.on]
    BY <1>4 DEF Annotate
  <2>2. ASSUME NEW d \in Events
        PROVE  files'[d].url = files[d].url /\ files'[d].on = IF d = e THEN Cur.on ELSE files[d].on
    BY <1>2, <2>1 DEF FileType
  <2>3. EmptyInv'
    BY <1>4, <2>2 DEF CheckInv, EmptyInv, Absent
  <2>4. AllPassed => NoteInv'
    <3>1. \A d \in Events : \/ Writes(Cur, d) /\ files'[d].on = Note(Cur)
                            \/ ~Writes(Cur, d) /\ files'[d].on = files[d].on
      BY <1>1, <2>2 DEF Writes, Note
    <3> QED
      BY <1>1, <2>1, <3>1, WriteNotes DEF CheckInv, PassIt
  <2>5. AllPassed => OrderInv'
    BY <1>1, <2>1, PassWrites DEF CheckInv, PassIt
  <2> QED
    BY <1>1, <2>1, <2>3, <2>4, <2>5, PassKeeps
<1> QED
  BY <1>3, <1>4

\* What is committed to the branch has the annotations given so far.
LEMMA OpenCheck ==
  ASSUME IInv, CheckInv, NEW possible, Open(possible)
  PROVE  CheckInv'
<1>1. /\ TypeOK /\ pc = "body" /\ step <= Len(script) /\ picked = 0 /\ Cur.op = "preview"
      /\ UNCHANGED <<script, pc, files, picks, last, picked, main, runs>>
  BY NothingPicked DEF IInv, Open, InBody, Frame, control
<1>2. EmptyInv'
  BY <1>1 DEF CheckInv, EmptyInv
<1>3. CASE PassIt /\ branch' = files /\ Raise("opened")
  <2>1. step \in DOMAIN script
    BY <1>1, CurrentStep
  <2>2. ASSUME NoteInv
        PROVE  BranchNoted("pull_request")' /\ (OnGitHub => BranchNoted("push")')
    <3>1. ASSUME NEW e \in Events, ~Unwritten(script, e, step)
          PROVE  BranchNoted(e)'
      BY <1>1, <1>3, <2>1, <2>2, <3>1 DEF NoteInv, FileNoted, BranchNoted, Previewed, Cur
    <3>2. ~Unwritten(script, "pull_request", step) /\ (OnGitHub => ~Unwritten(script, "push", step))
      BY <1>1, <2>1, ScriptFacts DEF OneByOne, Written, Cur, OnGitHub
    <3> QED
      BY <3>1, <3>2 DEF Events
  <2>3. AllPassed => NoteInv'
    BY <1>1, <1>3, <2>2, NothingNoted DEF CheckInv, PassIt, NoteInv
  <2>4. RaisedBy(Cur) = "opened" /\ "opened" \in WireEvents
    BY <1>1 DEF RaisedBy, WireEvents, Cancels
  <2>5. AllPassed => OrderInv'
    BY <1>1, <1>3, <2>4, PassRaises DEF CheckInv, PassIt, Raise
  <2> QED
    BY <1>1, <1>2, <1>3, <2>3, <2>5, PassKeeps
<1>4. CASE FailIt
  BY <1>1, <1>2, <1>4, FailKeeps
<1> QED
  BY <1>3, <1>4 DEF Open

\* What is pushed to main has the annotation given so far, or, on GitHub, that of
\* the branch.
LEMMA PushCheck ==
  ASSUME IInv, CheckInv, NEW possible, NEW content, PushToMain(possible, content),
         content = IF OnGitHub THEN branch["push"] ELSE files["push"]
  PROVE  CheckInv'
<1>1. /\ TypeOK /\ pc = "body" /\ step <= Len(script) /\ picked = 0 /\ Cur.op = "trigger"
      /\ UNCHANGED <<script, pc, files, picks, last, picked, branch, runs>>
  BY NothingPicked DEF IInv, PushToMain, InBody, Frame, control
<1>2. EmptyInv'
  BY <1>1 DEF CheckInv, EmptyInv
<1>3. CASE PassIt /\ main' = content /\ Raise("push")
  <2>1. step \in DOMAIN script /\ "push" \in Events
    BY <1>1, CurrentStep DEF Events
  <2>2. ASSUME NoteInv
        PROVE  main'.on = "none" \/ Pushed(script, main'.on)
    <3>1. ~OnGitHub => ~Unwritten(script, "push", step)
      BY <1>1, <2>1, ScriptFacts DEF OneByOne, Written, Cur, OnGitHub
    <3> QED
      BY <1>1, <1>3, <2>1, <2>2, <3>1 DEF NoteInv, FileNoted, BranchNoted, Pushed, Cur, OnGitHub
  <2>3. AllPassed => NoteInv'
    BY <1>1, <1>3, <2>2, NothingNoted DEF CheckInv, PassIt, NoteInv, BranchNoted
  <2>4. RaisedBy(Cur) = "push" /\ "push" \in WireEvents
    BY <1>1 DEF RaisedBy, WireEvents, Cancels
  <2>5. AllPassed => OrderInv'
    BY <1>1, <1>3, <2>4, PassRaises DEF CheckInv, PassIt, Raise
  <2> QED
    BY <1>1, <1>2, <1>3, <2>3, <2>5, PassKeeps
<1>4. CASE FailIt
  BY <1>1, <1>2, <1>4, FailKeeps
<1> QED
  BY <1>3, <1>4 DEF PushToMain

LEMMA RequestCheck ==
  ASSUME IInv, CheckInv, NEW possible, Request(possible), Cur.on \in WireEvents
  PROVE  CheckInv'
<1>1. /\ TypeOK /\ pc = "body" /\ step <= Len(script) /\ picked = 0 /\ Cur.op = "raise"
      /\ UNCHANGED <<script, pc, files, picks, last, picked, branch, main, runs>>
  BY NothingPicked DEF IInv, Request, InBody, Frame, control
<1>2. EmptyInv'
  BY <1>1 DEF CheckInv, EmptyInv
<1>3. CASE PassIt /\ Raise(Cur.on)
  <2>1. AllPassed => NoteInv'
    BY <1>1, <1>3, NothingNoted DEF CheckInv, PassIt, NoteInv, BranchNoted
  <2>2. RaisedBy(Cur) = Cur.on
    BY <1>1 DEF RaisedBy
  <2>3. AllPassed => OrderInv'
    BY <1>1, <1>3, <2>2, PassRaises DEF CheckInv, PassIt, Raise
  <2> QED
    BY <1>1, <1>2, <1>3, <2>1, <2>3, PassKeeps
<1>4. CASE FailIt
  BY <1>1, <1>2, <1>4, FailKeeps
<1> QED
  BY <1>3, <1>4 DEF Request

LEMMA CountCheck ==
  ASSUME IInv, CheckInv, CountRuns
  PROVE  CheckInv'
<1>1. /\ TypeOK /\ pc = "body" /\ step <= Len(script) /\ picked = 0 /\ Cur.op = "count"
      /\ UNCHANGED <<script, pc, files, picks, last, picked, branch, main, wire, runs>>
  BY NothingPicked DEF IInv, CountRuns, InBody, Frame, control
<1>2. EmptyInv'
  BY <1>1 DEF CheckInv, EmptyInv
<1>3. CASE Len(runs) = Cur.n /\ PassIt
  <2>1. AllPassed => NoteInv'
    BY <1>1, <1>3, NothingNoted DEF CheckInv, PassIt, NoteInv, BranchNoted
  <2>2. ~StartsRun(script, step)
    BY <1>1 DEF StartsRun, Raises, Cur
  <2>3. step \in Shown => Len(runs) = RunsDue
    BY <1>1, <1>3, ScriptFacts DEF OneByOne, Shows, Checks, Cur, RunsDue
  <2>4. ASSUME OrderInv
        PROVE  OrderInv'
    <3>1. LastInv'
      BY <1>1, <1>3, <2>4, LastKept DEF PassIt, Checks, OrderInv
    <3> QED
      BY <1>1, <1>3, <2>2, <2>3, <2>4, <3>1, PassQuiet DEF PassIt, Checks, Cur
  <2> QED
    BY <1>1, <1>2, <1>3, <2>1, <2>4, PassKeeps DEF CheckInv
<1>4. CASE FailIt
  BY <1>1, <1>2, <1>4, FailKeeps
<1> QED
  BY <1>3, <1>4 DEF CountRuns

LEMMA PickCheck ==
  ASSUME IInv, CheckInv, pc = "body", step <= Len(script), picked = 0, Cur.op \in Checks,
         Frame, Unpicked,
         NoPick \/ \E k \in Latest : Pick(k) /\ (Cur.op = "new" => NewRun(k))
  PROVE  CheckInv'
<1>1. TypeOK /\ UNCHANGED <<script, pc, files, picks, last, branch, main, wire, runs>>
  BY DEF IInv, Unpicked, Frame, control
<1>2. EmptyInv'
  BY <1>1 DEF CheckInv, EmptyInv
<1>3. CASE NoPick
  BY <1>1, <1>2, <1>3, FailKeeps DEF NoPick
<1>4. CASE \E k \in Latest : Pick(k) /\ (Cur.op = "new" => NewRun(k))
  <2>1. PICK k \in Latest :
          picked' = k /\ UNCHANGED <<passed, step>> /\ (Cur.op = "new" => NewRun(k))
    BY <1>4 DEF Pick
  <2>2. OrderInv => OrderInv'
    BY <1>1, <2>1, PickLatest
  <2>3. PassedInv' /\ CheckedRunIsMeant' /\ (AllPassed' => AllPassed)
    BY <1>1, <2>1 DEF CheckInv, PassedInv, CheckedRunIsMeant, AllPassed
  <2>4. NoteInv => NoteInv'
    BY <1>1, <2>1 DEF NoteInv, FileNoted, BranchNoted, OnGitHub
  <2> QED
    BY <1>1, <1>2, <2>1, <2>2, <2>3, <2>4 DEF CheckInv
<1> QED
  BY <1>3, <1>4

\* The run seen last when all before passed is the one the script meant.
LEMMA PickedIsMeant ==
  ASSUME TypeOK, OrderInv, picked # 0, step <= Len(script), Cur.op \in Checks,
         Awaited(script, step)
  PROVE  runs[picked].ev = Cur.ev
<1>1. step \in DOMAIN script /\ step \in Nat \ {0}
  BY CurrentStep, ScriptFacts
<1>2. /\ step \in Shown \/ AllStarted(script, Shown, step)
      /\ \E k \in Due(script, step) : RaisedBy(script[k]) = Cur.ev /\ NoneDue(script, k + 1, step - 1)
  BY <1>1, ScriptFacts DEF OneByOne, Cur
<1>3. picked = RunsDue
  BY <1>2 DEF OrderInv, PickedInv
<1>4. Len(runs) = RunsDue /\ RunsDue # 0
  <2>1. picked \in 1..Len(runs)
    BY ScriptFacts DEF TypeOK, BodyOK
  <2>2. RunsDue \in Nat
    BY <1>1, DueFacts DEF RunsDue
  <2> QED
    BY <1>3, <2>1, <2>2, ScriptFacts DEF OrderInv, RunsInv
<1>5. IsLast(runs[picked].ev)
  BY <1>3, <1>4 DEF OrderInv, RunsInv
<1>6. PICK k \in Due(script, step) : RaisedBy(script[k]) = Cur.ev /\ NoneDue(script, k + 1, step - 1)
  BY <1>2
<1>7. PICK l \in Due(script, step) :
        RaisedBy(script[l]) = runs[picked].ev /\ NoneDue(script, l + 1, step - 1)
  BY <1>5 DEF IsLast
<1>8. k \in 1..(step - 1) /\ l \in 1..(step - 1) /\ StartsRun(script, k) /\ StartsRun(script, l)
  BY DEF Due
<1>9. k = l
  <2>1. CASE k < l
    <3>1. l \in (k + 1)..(step - 1)
      BY <1>1, <1>8, <2>1
    <3> QED
      BY <1>6, <1>8, <3>1 DEF NoneDue
  <2>2. CASE l < k
    <3>1. k \in (l + 1)..(step - 1)
      BY <1>1, <1>8, <2>2
    <3> QED
      BY <1>7, <1>8, <3>1 DEF NoneDue
  <2> QED
    BY <1>1, <1>8, <2>1, <2>2
<1> QED
  BY <1>6, <1>7, <1>9

LEMMA ValidateCheck ==
  ASSUME IInv, CheckInv, ValidateRun
  PROVE  CheckInv'
<1>1. /\ TypeOK /\ pc = "body" /\ step <= Len(script) /\ picked # 0 /\ Cur.op \in Checks
      /\ UNCHANGED <<script, pc, files, branch, main, wire, runs>> /\ picked' = 0
  BY DEF IInv, PickInv, ValidateRun, Frame, control, Checks
<1>1a. Terminal(runs[picked])
  BY DEF ValidateRun
<1>2. EmptyInv'
  BY <1>1 DEF CheckInv, EmptyInv
<1>3. CASE /\ PassIt /\ picks' = picks \cup {<<step, picked>>}
           /\ last' = IF OnGitHub THEN picked ELSE last
  <2>1. AllPassed => NoteInv'
    BY <1>1, <1>3, NothingNoted DEF CheckInv, PassIt, NoteInv, BranchNoted, Checks
  <2>2. AllPassed => OrderInv'
    BY <1>1, <1>1a, <1>3, PassCheck DEF CheckInv, PassIt
  <2>3. CheckedRunIsMeant'
    <3>1. step \in Nat \ {0}
      BY <1>1, ScriptFacts
    <3> SUFFICES ASSUME NEW p \in picks \cup {<<step, picked>>},
                        1..(p[1] - 1) \subseteq passed', Awaited(script, p[1])
                 PROVE  runs[p[2]].ev = script[p[1]].ev
      BY <1>1, <1>3 DEF CheckedRunIsMeant
    <3>2. CASE p \in picks
      BY <1>1, <1>3, <3>2, PassMarks
    <3>3. CASE p = <<step, picked>>
      <4>1. AllPassed
        BY <1>3, <3>1, <3>3 DEF AllPassed, PassIt
      <4> QED
        BY <1>1, <3>3, <4>1, PickedIsMeant DEF CheckInv, Cur
    <3> QED
      BY <3>2, <3>3
  <2> QED
    BY <1>1, <1>2, <1>3, <2>1, <2>2, <2>3, PassMarks DEF CheckInv
<1>4. CASE FailIt /\ UNCHANGED <<picks, last>>
  BY <1>1, <1>2, <1>4, FailKeeps
<1> QED
  BY <1>3, <1>4 DEF ValidateRun

\* An event that starts a run is one that may, from what was committed.
LEMMA StartsOnlyStarting ==
  ASSUME NoteInv, NEW ev \in WireEvents \ Cancels, Starts(ev)
  PROVE  Starting(script, ev)
<1>1. CASE ev \in {"opened", "label", "comment"}
  <2>2. branch["pull_request"].on # "none"
        => Previewed(script, "pull_request", branch["pull_request"].on)
    BY DEF NoteInv, BranchNoted
  <2> QED
    BY <1>1, <2>2 DEF Starts, Starting
<1>2. CASE ev \in {"push", "tag", "test", "test_run"}
  BY <1>2 DEF Starts, Starting, NoteInv
<1> QED
  BY <1>1, <1>2 DEF WireEvents, Cancels

\* While the specs stand still, runs are added and end.
LEMMA StandStill ==
  ASSUME TypeOK, CheckInv, UNCHANGED <<script, pc, files, step, passed, picks, branch, main>>,
         DOMAIN runs \subseteq DOMAIN runs', \A k \in DOMAIN runs : runs'[k].ev = runs[k].ev,
         AllPassed => OrderInv'
  PROVE  CheckInv'
<1>1. PassedInv' /\ EmptyInv' /\ (AllPassed' => AllPassed)
  BY DEF CheckInv, PassedInv, EmptyInv, AllPassed
<1>2. NoteInv => NoteInv'
  BY DEF NoteInv, FileNoted, BranchNoted, OnGitHub
<1>3. CheckedRunIsMeant'
  BY DEF CheckInv, CheckedRunIsMeant, TypeOK, BodyOK
<1> QED
  BY <1>1, <1>2, <1>3 DEF CheckInv

LEMMA RunEndsCheck ==
  ASSUME IInv, CheckInv, RunEnds
  PROVE  CheckInv'
<1>1. PICK k \in DOMAIN runs, s \in {"succeeded", "failed"} : runs' = [runs EXCEPT ![k].state = s]
  BY DEF RunEnds
<1>2. runs \in Seq(RunType) /\ TypeOK
  BY DEF IInv, TypeOK, BodyOK
<1>3. DOMAIN runs' = DOMAIN runs /\ Len(runs') = Len(runs)
  BY <1>1, <1>2
<1>4. \A l \in DOMAIN runs : SameRun(runs[l], runs'[l])
  BY <1>1, <1>2 DEF RunType, SameRun, Terminal
<1>5. UNCHANGED <<script, pc, files, step, passed, picks, last, picked, branch, main, wire>>
  BY DEF RunEnds, Frame, control
<1>6. ASSUME OrderInv
      PROVE  OrderInv'
  <2>1. WireInv'
    BY <1>2, <1>3, <1>4, <1>5, <1>6, SameRuns DEF OrderInv, WireInv
  <2> QED
    BY <1>2, <1>3, <1>4, <1>5, <1>6, <2>1, SameRuns DEF OrderInv
<1> QED
  BY <1>2, <1>3, <1>4, <1>5, <1>6, StandStill DEF CheckInv, SameRun

LEMMA DeliverCheck ==
  ASSUME IInv, CheckInv, Deliver
  PROVE  CheckInv'
<1>1. TypeOK /\ runs \in Seq(RunType) /\ wire \in Seq(WireEvents)
  BY DEF IInv, TypeOK, BodyOK
<1>2. UNCHANGED <<script, pc, files, step, passed, picks, last, picked, branch, main>>
  BY DEF Deliver, Frame, control
<1>3. PICK i \in DOMAIN wire :
         /\ wire' = RemoveAt(wire, i)
         /\ \/ runs' = runs
            \/ runs' = Cancelled
            \/ wire[i] \notin Cancels /\ Starts(wire[i]) /\ runs' \in Started(wire[i])
  BY DEF Deliver
<1>4. CASE runs' = runs \/ runs' = Cancelled
  <2>1. DOMAIN runs' = DOMAIN runs /\ Len(runs') = Len(runs)
    BY <1>1, <1>4 DEF Cancelled
  <2>2. \A k \in DOMAIN runs : SameRun(runs[k], runs'[k])
    <3>1. \A r \in RunType : SameRun(r, r) /\ SameRun(r, [r EXCEPT !.state = "cancelled"])
      BY DEF RunType, SameRun, Terminal
    <3>2. \A k \in DOMAIN runs : runs[k] \in RunType
      BY <1>1
    <3> QED
      BY <1>4, <3>1, <3>2 DEF Cancelled
  <2>3. OrderInv => OrderInv'
    BY <1>1, <1>2, <1>3, <2>1, <2>2, WireLess
  <2> QED
    BY <1>1, <1>2, <2>1, <2>2, <2>3, StandStill DEF CheckInv, SameRun
<1>5. CASE wire[i] \notin Cancels /\ Starts(wire[i]) /\ runs' \in Started(wire[i])
  <2>0. PICK t \in Tied : runs' = Append(runs, [ev |-> wire[i], state |-> "running", tied |-> t])
    BY <1>5 DEF Started
  <2>1. DOMAIN runs \subseteq DOMAIN runs' /\ \A k \in DOMAIN runs : runs'[k].ev = runs[k].ev
    BY <1>1, <2>0
  <2>2. wire[i] \in WireEvents \ Cancels
    BY <1>1, <1>5
  <2>3. NoteInv => Starting(script, wire[i])
    BY <1>5, <2>2, StartsOnlyStarting
  <2>4. NoteInv /\ OrderInv => OrderInv'
    BY <1>1, <1>2, <1>3, <2>0, <2>3, RunStarts
  <2> QED
    BY <1>1, <1>2, <2>1, <2>4, StandStill DEF CheckInv
<1> QED
  BY <1>3, <1>4, <1>5

\* Before the first spec no run is due.
LEMMA NothingDue ==
  ASSUME NEW s
  PROVE  /\ Due(s, 1) = {} /\ Cardinality(Due(s, 1)) = 0
         /\ \A D \in SUBSET DOMAIN s : s \in Seq(Step) => ~AllStarted(s, D, 1)
<1>1. 1..(1 - 1) = {}
  OBVIOUS
<1>2. Due(s, 1) = {}
  BY <1>1 DEF Due
<1>3. Cardinality({}) = 0
  BY FS_EmptySet
<1>4. \A D \in SUBSET DOMAIN s : s \in Seq(Step) => ~AllStarted(s, D, 1)
  BY DEF AllStarted
<1> QED
  BY <1>2, <1>3, <1>4

\* A container that has not begun its script, or has forgotten it.
Begun ==
  /\ script \in Scripts /\ pc # "body" /\ step = 1 /\ passed = {} /\ picks = {}
  /\ last = 0 /\ picked = 0 /\ branch = NoFiles /\ main = NoFile /\ wire = <<>> /\ runs = <<>>

LEMMA BegunChecks == Begun /\ EmptyInv => CheckInv
<1> SUFFICES ASSUME Begun, EmptyInv PROVE CheckInv
  OBVIOUS
<1>1. PassedInv /\ CheckedRunIsMeant
  BY DEF Begun, PassedInv, CheckedRunIsMeant
<1>2. NoteInv
  BY DEF Begun, NoteInv, BranchNoted, Events, NoFiles, NoFile
<1>3. OrderInv
  <2>1. Len(runs) = 0 /\ RunsDue = 0 /\ wire = <<>> /\ picked = 0
    BY NothingDue DEF Begun, RunsDue
  <2>2. script \in Seq(Step) /\ Shown \in SUBSET DOMAIN script
    <3>1. \E D \in SUBSET DOMAIN script : OneByOne(script, D)
      BY RaisedOneByOne DEF Begun
    <3> QED
      BY <3>1, ScriptsAssumption DEF Begun, Shown
  <2>3. RunsInv /\ WireInv /\ PickedInv /\ ShownInv /\ EndedInv
    BY <2>1 DEF RunsInv, WireInv, PickedInv, ShownInv, EndedInv, Begun
  <2>4. LastInv
    <3>1. \A j \in Shown : ~(j < 1)
      BY <2>2
    <3> QED
      BY <3>1 DEF LastInv, Begun
  <2> QED
    BY <2>3, <2>4 DEF OrderInv
<1> QED
  BY <1>1, <1>2, <1>3 DEF CheckInv, Begun

LEMMA BegunChecksNext == (Begun /\ EmptyInv => CheckInv)'
BY BegunChecks, PTL

\* What sets up and cleans up leaves the doings of the script alone.
LEMMA AsideKeeps ==
  ASSUME TypeOK, CheckInv, UNCHANGED <<script, body>>, EmptyInv', pc # "body"
  PROVE  CheckInv'
<1>1. PassedInv' /\ (AllPassed' => AllPassed) /\ CheckedRunIsMeant'
  BY DEF CheckInv, PassedInv, AllPassed, CheckedRunIsMeant, body
<1>2. step = 1 /\ step' = 1
  BY DEF CheckInv, body
<1>3. NoteInv => NoteInv'
  BY <1>2 DEF NoteInv, FileNoted, BranchNoted, Unwritten, OnGitHub, body
<1>4. OrderInv => OrderInv'
  BY DEF OrderInv, RunsInv, WireInv, ShownInv, LastInv, PickedInv, EndedInv, RunsDue, Shown, IsLast,
         OnGitHub, Terminal, body
<1> QED
  BY <1>1, <1>2, <1>3, <1>4 DEF CheckInv

LEMMA SetupCheck ==
  ASSUME IInv, CheckInv, Setup
  PROVE  CheckInv'
<1> USE DEF Setup, InitClient, NewSmeeURL, CreateSmeeDeployment, ValidateSmee, ForkProject,
     AddWebhook, CreateNewRepository, CreateRepository, FindOwner, RepositoryReady,
     EnsureWebhookSecret, CreateGitHubRepositoryCR, AddGitHubWebhook, UndoCR, UndoSecret,
     UndoRepository
<1>1. UNCHANGED <<script, body, files>>
  BY DEF control, process
<1>2. pc \notin {"body", "done", "defer"}
  OBVIOUS
<1>3. EmptyInv'
  BY <1>1 DEF CheckInv, EmptyInv
<1> QED
  BY <1>1, <1>2, <1>3, AsideKeeps DEF IInv

LEMMA CleanupCheck ==
  ASSUME IInv, CheckInv, Cleanup \/ SuiteEnds
  PROVE  CheckInv'
<1> USE DEF Cleanup, StartCleanup, CleanCR, CleanSecret, CleanRepo, CleanSmee, SuiteEnds
<1>1. UNCHANGED <<script, body>> /\ pc # "body"
  BY DEF control
<1>2. files' = files \/ RemoveFiles
  BY DEF process
<1>3. EmptyInv'
  <2>1. files \in [Events -> FileType]
    BY DEF IInv, TypeOK, FilesOK
  <2> QED
    BY <1>2, <2>1, NoFilesLeft DEF CheckInv, EmptyInv
<1> QED
  BY <1>1, <1>3, AsideKeeps DEF IInv

LEMMA EndBodyCheck ==
  ASSUME IInv, CheckInv, EndBody
  PROVE  CheckInv'
<1>1. Begun'
  BY DEF EndBody, Afresh, Begun, Goto, control, IInv, TypeOK, ControlOK
<1>2. EmptyInv'
  BY DEF CheckInv, EmptyInv, EndBody, process
<1> QED
  BY <1>1, <1>2, BegunChecksNext

LEMMA BodyCheck ==
  ASSUME IInv, CheckInv, Body
  PROVE  CheckInv'
<1>1. CASE Generate
  BY <1>1, GenerateCheck
<1>2. CASE UpdateAnnotation \/ UpdatePushOnTargetBranch
  BY <1>2, AnnotateCheck DEF UpdateAnnotation, UpdatePushOnTargetBranch, Events
<1>3. CASE ConfigurePreviewChanges \/ ConfigurePreviewChangesGitHub
  BY <1>3, OpenCheck DEF ConfigurePreviewChanges, ConfigurePreviewChangesGitHub
<1>4. CASE TriggerPushOnForkMain \/ TriggerPushOnGitHubMain
  BY <1>4, PushCheck DEF TriggerPushOnForkMain, TriggerPushOnGitHubMain
<1>5. CASE \/ AddComment \/ AddLabel \/ CreateTagOnBranch
           \/ AddCommitCommentOnTag \/ AddCommentNamingRunOnTag
  <2>1. Cur.on \in WireEvents
    BY <1>5 DEF AddComment, AddLabel, CreateTagOnBranch, AddCommitCommentOnTag, AddCommentNamingRunOnTag,
              WireEvents, Cancels
  <2> QED
    BY <1>5, <2>1, RequestCheck
       DEF AddComment, AddLabel, CreateTagOnBranch, AddCommitCommentOnTag, AddCommentNamingRunOnTag
<1>6. CASE GetPipelineNameFromMR \/ GetPushPipelineNameFromMain \/ WaitForNewPipelineRunName
  <2> USE DEF GetPipelineNameFromMR, GetPushPipelineNameFromMain, WaitForNewPipelineRunName,
              AtPick, AtFault, At
  <2>1. /\ pc = "body" /\ step <= Len(script) /\ picked = 0 /\ Cur.op \in Checks
        /\ Frame /\ Unpicked
    BY <1>6 DEF Checks
  <2>2. NoPick \/ \E k \in Latest : Pick(k) /\ (Cur.op = "new" => NewRun(k))
    BY <1>6 DEF GetLatestPipelinerun
  <2> QED
    BY <2>1, <2>2, PickCheck
<1>7. CASE ValidateRun
  BY <1>7, ValidateCheck
<1>8. CASE CountRuns
  BY <1>8, CountCheck
<1>9. CASE EndBody
  BY <1>9, EndBodyCheck
<1> QED
  BY <1>1, <1>2, <1>3, <1>4, <1>5, <1>6, <1>7, <1>8, <1>9 DEF Body

LEMMA NextContainerCheck ==
  ASSUME CheckInv, NextContainer
  PROVE  CheckInv'
<1>1. Begun'
  BY DEF NextContainer, Afresh, Begun
<1>2. EmptyInv'
  BY DEF CheckInv, EmptyInv, NextContainer, process
<1> QED
  BY <1>1, <1>2, BegunChecksNext

LEMMA NextKeepsCheckInv == IInv /\ CheckInv /\ [Next]_vars => CheckInv'
<1> SUFFICES ASSUME IInv, CheckInv, [Next]_vars PROVE CheckInv'
  OBVIOUS
<1>1. CASE Setup
  BY <1>1, SetupCheck
<1>2. CASE Body
  BY <1>2, BodyCheck
<1>3. CASE Deliver \/ RunEnds
  BY <1>3, DeliverCheck, RunEndsCheck
<1>4. CASE Cleanup \/ SuiteEnds
  BY <1>4, CleanupCheck
<1>5. CASE NextContainer
  BY <1>5, NextContainerCheck
<1>6. CASE UNCHANGED vars
  <2>1. UNCHANGED <<script, pc, files, step, passed, picks, branch, main, runs>> /\ UNCHANGED body
    BY <1>6 DEF vars, control, process, body
  <2>2. OrderInv => OrderInv'
    BY <2>1 DEF OrderInv, RunsInv, WireInv, ShownInv, LastInv, PickedInv, EndedInv, RunsDue, Shown,
                IsLast, OnGitHub, Terminal, body
  <2> QED
    BY <2>1, <2>2, StandStill DEF IInv, CheckInv
<1> QED
  BY <1>1, <1>2, <1>3, <1>4, <1>5, <1>6 DEF Next, Done

\* The PipelineRun a spec validates by name or after a count is the one its event
\* started, if the specs before it passed: for any scripts that raise the events
\* that start runs one by one, each after the run before it was validated, in
\* whatever order the relay delivers them and whichever it loses
\* (pac.go:744-765 and 951, pac-github.go:490).
THEOREM CheckedRunsAreMeant == Spec => []CheckedRunIsMeant
<1>1. Init => CheckInv
  <2>1. Init => Begun /\ EmptyInv
    BY DEF Init, Begun, EmptyInv, NoFiles, NoFile
  <2> QED
    BY <2>1, BegunChecks
<1>2. CheckInv => CheckedRunIsMeant
  BY DEF CheckInv
<1> QED
  BY <1>1, <1>2, NextKeepsCheckInv, IInvHolds, PTL DEF Spec

=============================================================================
