----------------------------- MODULE PacProject -----------------------------
(***************************************************************************)
(* The Pipelines-as-Code test containers (src/pkg/pac/pac.go for GitLab,   *)
(* src/pkg/pac/pac-github.go for GitHub): a container sets up a project on *)
(* the forge and what relays its events into a test namespace, runs a      *)
(* script of steps that raise events and check the PipelineRuns they       *)
(* start, and cleans up.  Containers follow each other in one process and  *)
(* share its temporary files and package variables; each has a namespace   *)
(* of its own.  Every call to the forge or the cluster may fail, and one   *)
(* that creates something may fail after it has created it.                *)
(*                                                                         *)
(* External: the forge, the smee relay and the Pipelines-as-Code           *)
(* controller, modelled from how the code uses them.                       *)
(***************************************************************************)
EXTENDS Naturals, Sequences, FiniteSets
LOCAL INSTANCE SequencesExt

CONSTANTS Scripts,        \* the containers' scripts: sequences of steps
          GitHub,         \* those that use pac-github.go
          MaxContainers,  \* containers in the run
          MaxForks,       \* maxRetriesForkProject (pac.go:43)
          MaxFaults       \* calls that fail, in the whole run

\* A step: what it does, on which file or event, how many runs it counts, and
\* the state and the event of the run it validates.
Operations == {"generate", "annotate", "preview", "trigger", "raise", "count",
               "mr", "main", "new"}
Step == [op : Operations, on : STRING, n : Nat, want : STRING, ev : STRING]

\* The files that are generated, one for each kind of event.
Events == {"pull_request", "push"}
\* The annotations of a generated file make a run wait for these.
Annotations == {"label", "comment", "tags"}

ASSUME ScriptsAssumption ==
  /\ GitHub \subseteq Scripts
  /\ \A s \in Scripts :
       /\ s \in Seq(Step)
       /\ \A i \in 1..Len(s) :
            /\ s[i].op = "generate" => s[i].on \in Events
            /\ s[i].op = "annotate" => s[i].on \in Annotations
ASSUME BoundsAssumption ==
  MaxContainers \in Nat \ {0} /\ MaxForks \in Nat \ {0} /\ MaxFaults \in Nat

Ids     == 1..(MaxContainers * MaxForks)
None    == 0
Stale   == MaxContainers * MaxForks + 1    \* marks a file a cleanup could not remove
Foreign == MaxContainers + 1     \* somebody else's Secret or smee channel
Values  == 0..Foreign            \* else: the container that made it

VARIABLES
  script, container, pc, faults,        \* the process
  smeeURL, proj, owner, undo, defers,   \* variables of the container
  projectURL, files,                    \* shared by the process
  smee, up, secret, crs, before,        \* the namespace; up: the relay runs
  projects, made, hooks,                \* the forge
  step, passed, picks, last, picked,    \* the body of the container
  mr, branch, main,                     \* what it put on the forge
  wire, runs,                           \* the relay and the controller
  lost, kept, ready                     \* history: a reply was lost, what could
                                        \* not be deleted, the setup succeeded

control   == <<script, container>>
local     == <<smeeURL, proj, owner, undo, defers>>
process   == <<projectURL, files>>
namespace == <<smee, up, secret, crs, before>>
forge     == <<projects, made, hooks>>
body      == <<step, passed, picks, last, picked, mr, branch, main, wire, runs>>
history   == <<lost, kept, ready>>
vars == <<control, pc, faults, local, process, namespace, forge, body, history>>

OnGitHub == script \in GitHub

(***************************************************************************)
(* A call works (Fine) or fails (Fault); one that creates something may    *)
(* fail after having worked.                                               *)
(***************************************************************************)
Goto(l)   == pc' = l
Fault     == faults > 0 /\ faults' = faults - 1
Fine      == UNCHANGED faults
\* A failed assertion in BeforeAll: the deferred cleanups run and no spec does.
FailSetup == Goto("defer")

(***************************************************************************)
(* BeforeAll, common part.                                                 *)
(***************************************************************************)

\* InitGitLabClient makes the webhook Secret unless there is one; oc get
\* failing for another reason is taken for its absence, and the create then
\* fails.  On GitHub the client is made from the environment alone, after
\* AssertPACInfoInstall.
InitClient ==
  /\ pc = "init"
  /\ \/ /\ Fine /\ Goto("smee_url")
        /\ secret' = IF OnGitHub \/ secret # None THEN secret ELSE container
     \/ /\ Fault /\ FailSetup
        /\ secret' \in IF OnGitHub \/ secret # None THEN {secret} ELSE {None, container}
  /\ UNCHANGED <<control, local, process, smee, crs, before, up, forge, body, history>>

\* getNewSmeeURL: a new channel of the relay.
NewSmeeURL ==
  /\ pc = "smee_url"
  /\ \/ Fine /\ smeeURL' = container /\ Goto("smee_dep")
     \/ Fault /\ FailSetup /\ UNCHANGED smeeURL
  /\ UNCHANGED <<control, proj, owner, undo, defers, process, namespace, forge, body,
                 history>>

\* createSmeeDeployment leaves a deployment that is already there as it is,
\* unless its Get fails: then the Create finds it there and the setup fails.
\* The GitHub container then registers its deletion.  A failed Create may
\* have made it, which nobody will delete.
CreateSmeeDeployment ==
  /\ pc = "smee_dep"
  /\ \/ /\ Fine /\ Goto("validate")
        /\ smee' = IF smee = None THEN smeeURL ELSE smee
        /\ defers' = IF OnGitHub THEN <<"smee">> ELSE <<>>
        /\ UNCHANGED lost
     \/ /\ Fault /\ FailSetup /\ UNCHANGED defers
        /\ smee' \in IF smee = None THEN {None, smeeURL} ELSE {smee}
        /\ lost' = (lost \/ smee' # smee)
  /\ UNCHANGED <<control, smeeURL, proj, owner, undo, process, secret, crs, before, up,
                 forge, body, kept, ready>>

\* k8s.ValidateDeployments waits for the relay's pod; a timeout is only logged
\* and the pod may come later or never.
ValidateSmee ==
  /\ pc = "validate" /\ Goto("create")
  /\ \/ Fine /\ up' = TRUE
     \/ Fault /\ up' \in BOOLEAN
  /\ UNCHANGED <<control, local, process, smee, secret, crs, before, forge, body, history>>

(***************************************************************************)
(* SetupGitLabProject: no step undoes the ones before it.                  *)
(***************************************************************************)
\* Mutant: one attempt too many.
OneForkMore == made <= container * MaxForks
ForksLeft == made < container * MaxForks

\* forkProject retries under a new name, and sets projectURL.
ForkProject ==
  /\ pc = "create" /\ ~OnGitHub
  /\ IF ForksLeft
       THEN \/ /\ Fine /\ Goto("hook")
               /\ proj' = made + 1 /\ projectURL' = made + 1
               /\ made' = made + 1
               /\ projects' = projects \cup {made + 1}
               /\ UNCHANGED lost
            \/ /\ Fault /\ UNCHANGED <<pc, proj, projectURL>>
               /\ made' = made + 1
               /\ projects' \in {projects, projects \cup {made + 1}}
               /\ lost' = (lost \/ projects' # projects)
       ELSE Fine /\ FailSetup /\ UNCHANGED <<proj, projectURL, made, projects, lost>>
  /\ UNCHANGED <<control, smeeURL, owner, undo, defers, files, namespace, hooks, body, kept, ready>>

\* addWebhook: the hook carries the new channel and the token of the
\* environment, which is in the Secret when this container made it.
AddWebhook ==
  /\ pc = "hook" /\ ~OnGitHub
  /\ \/ /\ Fine /\ Goto("cr")
        /\ hooks' = [hooks EXCEPT ![proj] = [url |-> smeeURL, key |-> container]]
     \/ Fault /\ FailSetup /\ UNCHANGED hooks
  /\ UNCHANGED <<control, local, process, namespace, projects, made, body, history>>

\* createNewRepository, and the registration of CleanupPAC after the whole of
\* SetupGitLabProject has succeeded (pac_gitlab_test.go:45-54).
CreateNewRepository ==
  /\ pc = "cr" /\ ~OnGitHub
  /\ \/ /\ Fine /\ Goto("body") /\ ready' = TRUE
        /\ crs' = crs \cup {proj} /\ defers' = <<"project">>
     \/ /\ Fault /\ FailSetup /\ UNCHANGED <<defers, ready>>
        /\ crs' \in {crs, crs \cup {proj}}
  /\ UNCHANGED <<control, smeeURL, proj, owner, undo, process, smee, secret, before, up,
                 forge, body, lost, kept>>

(***************************************************************************)
(* SetupGitHubProject: a deferred function undoes the steps done so far    *)
(* unless all of them succeed.                                             *)
(***************************************************************************)
NoUndo   == [cr |-> FALSE, secret |-> "none"]
\* Mutant: only the repository is rolled back.
RollbackRepositoryOnly == Goto("undo_repo")
Rollback == Goto("undo_cr")

\* Repositories.Create; the rollback is installed after it.  The owner is the
\* organisation, or in the reply, or still unknown.
CreateRepository ==
  /\ pc = "create" /\ OnGitHub
  /\ made' = made + 1
  /\ LET id == made + 1
     IN \/ /\ Fine /\ Goto("owner") /\ UNCHANGED lost
           /\ projects' = projects \cup {id} /\ proj' = id
           /\ owner' \in BOOLEAN
           /\ undo' = NoUndo
        \/ /\ Fault /\ FailSetup /\ UNCHANGED <<proj, owner, undo>>
           /\ projects' \in {projects, projects \cup {id}}
           /\ lost' = (lost \/ projects' # projects)
  /\ UNCHANGED <<control, smeeURL, defers, process, namespace, hooks, body, kept, ready>>

\* Users.Get when neither the organisation nor the reply names the owner.
FindOwner ==
  /\ pc = "owner"
  /\ \/ Fine /\ owner' = TRUE /\ Goto("ready")
     \/ ~owner /\ Fault /\ Rollback /\ UNCHANGED owner
  /\ UNCHANGED <<control, smeeURL, proj, undo, defers, process, namespace, forge, body,
                 history>>

\* waitForGitHubRepoReady and ensureDefaultBranchMain.
RepositoryReady ==
  /\ pc = "ready"
  /\ \/ Fine /\ Goto("secret")
     \/ Fault /\ Rollback
  /\ UNCHANGED <<control, local, process, namespace, forge, body, history>>

\* The content written, also over a Secret that is there.
\* Mutant: a Secret that is there is kept, as for GitLab.
KeepSecretThere == IF secret = None THEN container ELSE secret
WantedSecret    == container

\* ensureWebhookSecret: update the Secret that is there and return a function
\* that writes the original back, or create one and return its deletion.
EnsureWebhookSecret ==
  /\ pc = "secret"
  /\ \/ /\ Fine /\ Goto("cr") /\ secret' = WantedSecret /\ UNCHANGED lost
        /\ undo' = [undo EXCEPT !.secret = IF secret = None THEN "delete" ELSE "restore"]
     \/ /\ Fault /\ Rollback /\ UNCHANGED undo
        /\ secret' \in {secret, WantedSecret}
        /\ lost' = (lost \/ secret' # secret)
  /\ UNCHANGED <<control, smeeURL, proj, owner, defers, process, smee, crs, before, up,
                 forge, body, kept, ready>>

CreateGitHubRepositoryCR ==
  /\ pc = "cr" /\ OnGitHub
  /\ \/ /\ Fine /\ Goto("hook") /\ UNCHANGED lost
        /\ crs' = crs \cup {proj} /\ undo' = [undo EXCEPT !.cr = TRUE]
     \/ /\ Fault /\ Rollback /\ UNCHANGED undo
        /\ crs' \in {crs, crs \cup {proj}}
        /\ lost' = (lost \/ crs' # crs)
  /\ UNCHANGED <<control, smeeURL, proj, owner, defers, process, smee, secret, before, up,
                 forge, body, kept, ready>>

\* addGitHubWebhook; success completes the setup: projectURL is set and the
\* container registers CleanupPACGitHub.
AddGitHubWebhook ==
  /\ pc = "hook" /\ OnGitHub
  /\ \/ /\ Fine /\ Goto("body") /\ ready' = TRUE
        /\ hooks' = [hooks EXCEPT ![proj] = [url |-> smeeURL, key |-> container]]
        /\ projectURL' = proj /\ defers' = Append(defers, "project")
     \/ Fault /\ Rollback /\ UNCHANGED <<hooks, projectURL, defers, ready>>
  /\ UNCHANGED <<control, smeeURL, proj, owner, undo, files, namespace, projects, made,
                 body, lost, kept>>

\* The deferred function, one call after the other; its errors are logged.
UndoCR ==
  /\ pc = "undo_cr" /\ Goto("undo_secret")
  /\ \/ Fine /\ crs' = (IF undo.cr THEN crs \ {proj} ELSE crs) /\ UNCHANGED kept
     \/ undo.cr /\ Fault /\ kept' = kept \cup {"cr"} /\ UNCHANGED crs
  /\ UNCHANGED <<control, local, process, smee, secret, before, up, forge, body, lost, ready>>

UndoSecret ==
  /\ pc = "undo_secret" /\ Goto("undo_repo")
  /\ \/ /\ Fine /\ UNCHANGED kept
        /\ secret' = CASE undo.secret = "delete"  -> None
                       [] undo.secret = "restore" -> before.secret
                       [] OTHER                   -> secret
     \/ undo.secret # "none" /\ Fault /\ kept' = kept \cup {"secret"} /\ UNCHANGED secret
  /\ UNCHANGED <<control, local, process, smee, crs, before, up, forge, body, lost, ready>>

UndoRepository ==
  /\ pc = "undo_repo" /\ Goto("defer")
  /\ \/ Fine /\ projects' = (IF owner THEN projects \ {proj} ELSE projects) /\ UNCHANGED kept
     \/ owner /\ Fault /\ kept' = kept \cup {"repo"} /\ UNCHANGED projects
  /\ UNCHANGED <<control, local, process, namespace, made, hooks, body, lost, ready>>

(***************************************************************************)
(* The body: one spec per step of the script.  The containers carry        *)
(* ContinueOnFailure, so a failed spec does not stop the ones after it.    *)
(***************************************************************************)
NoFile   == [url |-> None, on |-> "none"]
NoFiles  == [e \in Events |-> NoFile]
Absent(e) == files[e].url = None
Cur      == script[step]
InBody(op) == pc = "body" /\ step <= Len(script) /\ Cur.op = op
PassIt   == passed' = passed \cup {step} /\ step' = step + 1
FailIt   == passed' = passed /\ step' = step + 1
Raise(e) == wire' = Append(wire, e)
Frame    == UNCHANGED <<control, pc, local, projectURL, namespace, forge, history>>

\* GeneratePipelineRunYaml: the old file goes first, the new one is for the
\* project in projectURL.  A failure may leave the old file, none, or the new
\* one, when it is only the reading back or the check of its YAML that fails.
Generated == [url |-> projectURL, on |-> "any"]
Generate ==
  /\ InBody("generate") /\ Frame
  /\ \/ Fine /\ PassIt /\ files' = [files EXCEPT ![Cur.on] = Generated]
     \/ /\ Fault /\ FailIt
        /\ \E f \in {files[Cur.on], NoFile, Generated} : files' = [files EXCEPT ![Cur.on] = f]
  /\ UNCHANGED <<picks, last, picked, mr, branch, main, wire, runs>>

\* The two editors of a generated file fail when it is not there.
Annotate(e) ==
  /\ InBody("annotate") /\ Frame /\ Fine
  /\ IF Absent(e) THEN FailIt /\ UNCHANGED files
                  ELSE PassIt /\ files' = [files EXCEPT ![e].on = Cur.on]
  /\ UNCHANGED <<picks, last, picked, mr, branch, main, wire, runs>>
UpdateAnnotation         == Annotate("pull_request") /\ Cur.on # "tags"
UpdatePushOnTargetBranch == Annotate("push") /\ Cur.on = "tags"

\* The files are committed to a new branch and the merge or pull request is
\* opened.  A failure may come after it was opened.
Open(possible) ==
  /\ InBody("preview") /\ Frame /\ UNCHANGED files
  /\ \/ possible /\ Fine /\ PassIt /\ mr' = TRUE /\ branch' = files /\ Raise("opened")
     \/ possible /\ Fault /\ FailIt /\ UNCHANGED <<mr, branch, wire>>
     \/ possible /\ Fault /\ FailIt /\ UNCHANGED mr /\ branch' = files /\ Raise("opened")
     \/ ~possible /\ Fine /\ FailIt /\ UNCHANGED <<mr, branch, wire>>
  /\ UNCHANGED <<picks, last, picked, main, runs>>
\* Whatever files there are, or the pull_request file and perhaps the other.
ConfigurePreviewChanges ==
  ~OnGitHub /\ Open(\E e \in Events : ~Absent(e))
ConfigurePreviewChangesGitHub ==
  OnGitHub /\ Open(~Absent("pull_request"))

\* A push to main, whose push.yaml becomes the given one.
PushToMain(possible, content) ==
  /\ InBody("trigger") /\ Frame /\ UNCHANGED files
  /\ \/ possible /\ Fine /\ PassIt /\ main' = content /\ Raise("push")
     \/ possible /\ Fault /\ FailIt /\ UNCHANGED <<main, wire>>
     \/ possible /\ Fault /\ FailIt /\ main' = content /\ Raise("push")
     \/ ~possible /\ Fine /\ FailIt /\ UNCHANGED <<main, wire>>
  /\ UNCHANGED <<picks, last, picked, mr, branch, runs>>
\* A commit of the file, or the merge of the pull request with what it holds.
TriggerPushOnForkMain   == ~OnGitHub /\ PushToMain(~Absent("push"), files["push"])
TriggerPushOnGitHubMain == OnGitHub /\ PushToMain(mr, branch["push"])

\* One request to the forge that raises an event; a failure may come after it
\* was carried out.
Request(possible) ==
  /\ InBody("raise") /\ Frame /\ UNCHANGED files
  /\ \/ possible /\ Fine /\ PassIt /\ Raise(Cur.on)
     \/ possible /\ Fault /\ FailIt /\ (UNCHANGED wire \/ Raise(Cur.on))
     \/ ~possible /\ Fine /\ FailIt /\ UNCHANGED wire
  /\ UNCHANGED <<picks, last, picked, mr, branch, main, runs>>
Tagged == \E i \in passed : script[i].op = "raise" /\ script[i].on = "tag"
AddComment        == Request(mr) /\ Cur.on = "comment"
AddLabel          == Request(mr) /\ Cur.on = "label"
CreateTagOnBranch == Request(TRUE) /\ Cur.on = "tag"
\* A comment on the commit of the tag: "/test" or "/cancel" of its runs.
AddCommitCommentOnTag == Request(Tagged) /\ Cur.on \in {"test", "cancel"}
\* AddTestComment... and AddCancelCommentForLatestPipelineRunOnTag: the comment
\* names the PipelineRun that push.yaml has.
AddCommentNamingRunOnTag ==
  Request(Tagged /\ ~Absent("push")) /\ Cur.on \in {"test_run", "cancel_run"}

(***************************************************************************)
(* Which run is validated: GetLatestPipelinerun, the latest one in the     *)
(* namespace, an error when there is none.  Creation times are in seconds: *)
(* of the runs of the last second the first listed is taken.               *)
(***************************************************************************)
At(op)      == pc = "body" /\ step <= Len(script) /\ picked = 0 /\ Cur.op = op /\ Frame
AtPick(op)  == At(op) /\ Fine
AtFault(op) == At(op) /\ Fault
Latest  == {k \in DOMAIN runs : \A j \in (k + 1)..Len(runs) : runs[j].tied}
Pick(k) == picked' = k /\ UNCHANGED <<passed, step>>
NoPick  == FailIt /\ UNCHANGED picked
GetLatestPipelinerun ==
  \/ \E k \in Latest : Pick(k)
  \/ runs = <<>> /\ NoPick
Unpicked == UNCHANGED <<files, picks, last, mr, branch, main, wire, runs>>

\* checkPipelineStatus: the merge request's latest pipeline has ended, or none
\* has been seen ten times.
Terminal(r) == r.state # "running"
MROf    == {k \in DOMAIN runs : runs[k].ev \in {"opened", "label", "comment"}}
Settled == MROf = {} \/ \E k \in MROf : (\A j \in MROf : j <= k) /\ Terminal(runs[k])
\* The merge request may be unknown, and its pipelines may not be listed.
GetPipelineNameFromMR ==
  \/ AtPick("mr") /\ mr /\ Settled /\ GetLatestPipelinerun /\ Unpicked
  \/ AtPick("mr") /\ ~mr /\ NoPick /\ Unpicked
  \/ AtFault("mr") /\ mr /\ NoPick /\ Unpicked

\* After a pause, whatever there is; the List may fail.
GetPushPipelineNameFromMain ==
  \/ AtPick("main") /\ GetLatestPipelinerun /\ Unpicked
  \/ AtFault("main") /\ NoPick /\ Unpicked

\* Mutant: the run seen last counts as a new one.
AnyRun(k) == TRUE
\* A run that is not the one seen last.
NewRun(k) == k # last
\* Mutant: polling has no end.
WaitForEver ==
  /\ AtPick("new") /\ Unpicked /\ UNCHANGED <<passed, step>>
  /\ picked' \in {k \in Latest : NewRun(k)} \cup {0}
WaitForNewPipelineRunName ==
  /\ AtPick("new") /\ Unpicked
  /\ \/ \E k \in Latest : IF NewRun(k) THEN Pick(k) ELSE NoPick
     \/ runs = <<>> /\ NoPick

\* ValidatePipelineRun(success) and WaitForPipelineRunCancelled wait for the
\* picked run; the GitHub container remembers the one it validated.
ValidateRun ==
  /\ pc = "body" /\ picked # 0 /\ Terminal(runs[picked]) /\ Frame /\ Fine
  /\ IF runs[picked].state = Cur.want
       THEN /\ PassIt /\ picks' = picks \cup {<<step, picked>>}
            /\ last' = IF OnGitHub THEN picked ELSE last
       ELSE FailIt /\ UNCHANGED <<picks, last>>
  /\ picked' = 0
  /\ UNCHANGED <<files, mr, branch, main, wire, runs>>

\* AssertNumberOfPipelineruns, and the inline forms of it in the containers:
\* the number is n at some poll before the timeout.
CountRuns ==
  /\ InBody("count") /\ Frame /\ Fine
  /\ IF Len(runs) = Cur.n THEN PassIt ELSE FailIt
  /\ UNCHANGED <<files, picks, last, picked, mr, branch, main, wire, runs>>

\* What the body did is forgotten: no cleanup looks at it.
Afresh ==
  /\ step' = 1 /\ passed' = {} /\ picks' = {} /\ last' = 0 /\ picked' = 0
  /\ mr' = FALSE /\ branch' = NoFiles /\ main' = NoFile /\ wire' = <<>> /\ runs' = <<>>
EndBody ==
  /\ pc = "body" /\ step > Len(script) /\ Goto("defer") /\ Fine /\ Afresh
  /\ UNCHANGED <<control, local, process, namespace, forge, history>>

(***************************************************************************)
(* External: the relay delivers an event in any order or loses it; the     *)
(* controller starts the run the event asks for.                           *)
(***************************************************************************)
Delivers ==
  /\ proj \in crs /\ hooks[proj].url = smee /\ smee # None
  /\ hooks[proj].key = secret
Reached == Delivers /\ up

Starts(e) ==
  CASE e = "opened"  -> branch["pull_request"].on \in {"any", "comment"}
    [] e = "label"   -> branch["pull_request"].on = "label"
    [] e = "comment" -> branch["pull_request"].on = "comment"
    [] e = "push"    -> main.on = "any"
    [] OTHER         -> main.on = "tags"

Cancels   == {"cancel", "cancel_run"}
Cancelled == [k \in DOMAIN runs |-> IF Terminal(runs[k]) THEN runs[k]
                                    ELSE [runs[k] EXCEPT !.state = "cancelled"]]
\* A new run may be tied with the one before: created in the same second.  One
\* that has ended was created in an earlier second.
Tied == IF runs = <<>> \/ Terminal(runs[Len(runs)]) THEN {FALSE} ELSE BOOLEAN
Started(e) == {Append(runs, [ev |-> e, state |-> "running", tied |-> t]) : t \in Tied}

Deliver ==
  /\ pc = "body"
  /\ \E i \in DOMAIN wire :
       /\ wire' = RemoveAt(wire, i)
       /\ \/ /\ Fine /\ Reached
             /\ runs' \in IF wire[i] \in Cancels THEN {Cancelled}
                         ELSE IF Starts(wire[i]) THEN Started(wire[i]) ELSE {runs}
          \/ ~Reached /\ Fine /\ UNCHANGED runs
          \/ Reached /\ Fault /\ UNCHANGED runs
  /\ Frame /\ UNCHANGED <<files, step, passed, picks, last, picked, mr, branch, main>>

RunEnds ==
  /\ pc = "body"
  /\ \E k \in DOMAIN runs :
       /\ ~Terminal(runs[k])
       /\ \/ Fine /\ runs' = [runs EXCEPT ![k].state = "succeeded"]
          \/ Fault /\ runs' = [runs EXCEPT ![k].state = "failed"]
  /\ Frame /\ UNCHANGED <<files, step, passed, picks, last, picked, mr, branch, main, wire>>

(***************************************************************************)
(* The deferred cleanups, last registered first; their errors are logged.  *)
(***************************************************************************)
\* k8s.DeleteDeployment of the relay and the wait for its end; "not found" is
\* success.
DeleteSmee(next) ==
  /\ Goto(next)
  /\ \/ Fine /\ smee' = None /\ UNCHANGED kept
     \/ Fault /\ kept' = kept \cup {"smee"} /\ smee' \in {smee, None}

\* The temporary files are removed, but for those whose os.Remove fails: its
\* error is ignored and the next container finds them.
LeftAs(e) == [files[e] EXCEPT !.url = Stale]
\* Mutant: push.yaml is forgotten.
RemovedPullRequestOnly(left) == [NoFiles EXCEPT !["push"] = files["push"]]
RemovedFiles(left) == [e \in Events |-> IF e \in left THEN LeftAs(e) ELSE NoFile]
RemoveFiles ==
  \E left \in SUBSET {e \in Events : ~Absent(e)} :
    /\ IF left = {} THEN Fine ELSE Fault
    /\ files' = RemovedFiles(left)
StartCleanup ==
  /\ pc = "defer"
  /\ IF defers = <<>> THEN Goto("end") /\ Fine /\ UNCHANGED <<defers, files>>
     ELSE /\ defers' = SubSeq(defers, 1, Len(defers) - 1)
          /\ IF defers[Len(defers)] = "smee"
               THEN Goto("clean_own_smee") /\ Fine /\ UNCHANGED files
               ELSE RemoveFiles /\ Goto(IF OnGitHub THEN "clean_cr" ELSE "clean_repo")
  /\ UNCHANGED <<control, smeeURL, proj, owner, undo, projectURL, namespace, forge, body,
                 history>>

\* deleteGitHubK8sResources: both deletions are made, their errors joined.
\* Mutant: the first error skips the Secret.
CleanCRFirst ==
  /\ pc = "clean_cr"
  /\ \/ Fine /\ crs' = crs \ {proj} /\ Goto("clean_secret") /\ UNCHANGED kept
     \/ Fault /\ kept' = kept \cup {"cr"} /\ Goto("clean_repo") /\ UNCHANGED crs
  /\ UNCHANGED <<control, local, process, smee, secret, before, up, forge, body, lost, ready>>
CleanCR ==
  /\ pc = "clean_cr" /\ Goto("clean_secret")
  /\ \/ Fine /\ crs' = crs \ {proj} /\ UNCHANGED kept
     \/ Fault /\ kept' = kept \cup {"cr"} /\ UNCHANGED crs
  /\ UNCHANGED <<control, local, process, smee, secret, before, up, forge, body, lost, ready>>

CleanSecret ==
  /\ pc = "clean_secret" /\ Goto("clean_repo")
  /\ \/ Fine /\ secret' = None /\ UNCHANGED kept
     \/ Fault /\ kept' = kept \cup {"secret"} /\ UNCHANGED secret
  /\ UNCHANGED <<control, local, process, smee, crs, before, up, forge, body, lost, ready>>

\* deleteGitlabProject returns from CleanupPAC on an error; CleanupPACGitHub
\* collects it and goes on.
CleanRepo ==
  /\ pc = "clean_repo"
  /\ \/ Fine /\ projects' = projects \ {proj} /\ Goto("clean_smee") /\ UNCHANGED kept
     \/ /\ Fault /\ kept' = kept \cup {"repo"} /\ UNCHANGED projects
        /\ Goto(IF OnGitHub THEN "clean_smee" ELSE "defer")
  /\ UNCHANGED <<control, local, process, namespace, made, hooks, body, lost, ready>>

CleanSmee ==
  /\ pc \in {"clean_smee", "clean_own_smee"} /\ DeleteSmee("defer")
  /\ UNCHANGED <<control, local, process, secret, crs, before, up, forge, body, lost, ready>>

(***************************************************************************)
(* A container starts in a namespace that may already hold a Secret or a   *)
(* relay (both are provided for, pac.go:77 and 110, pac-github.go:72).     *)
(***************************************************************************)
NoHooks == [p \in Ids |-> [url |-> None, key |-> None]]
Init ==
  /\ script \in Scripts /\ container = 1 /\ pc = "init" /\ faults = MaxFaults
  /\ smeeURL = None /\ proj = None /\ owner = FALSE /\ undo = NoUndo /\ defers = <<>>
  /\ projectURL = None /\ files = NoFiles
  /\ smee \in {None, Foreign} /\ up = FALSE /\ secret \in {None, Foreign} /\ crs = {}
  /\ before = [smee |-> smee, secret |-> secret]
  /\ projects = {} /\ made = 0 /\ hooks = NoHooks
  /\ step = 1 /\ passed = {} /\ picks = {} /\ last = 0 /\ picked = 0
  /\ mr = FALSE /\ branch = NoFiles /\ main = NoFile /\ wire = <<>> /\ runs = <<>>
  /\ lost = FALSE /\ kept = {} /\ ready = FALSE

\* The next container has a namespace and variables of its own; projectURL and
\* the temporary files are as the last one left them.  What that left on the
\* forge is forgotten: no container looks at the projects of another.
NextContainer ==
  /\ pc = "end" /\ container < MaxContainers
  /\ script' \in Scripts /\ container' = container + 1 /\ pc' = "init"
  /\ smeeURL' = None /\ proj' = None /\ owner' = FALSE /\ undo' = NoUndo /\ defers' = <<>>
  /\ smee' \in {None, Foreign} /\ up' = FALSE /\ secret' \in {None, Foreign} /\ crs' = {}
  /\ before' = [smee |-> smee', secret |-> secret']
  /\ projects' = {} /\ made' = container * MaxForks /\ hooks' = NoHooks
  /\ Afresh
  /\ lost' = FALSE /\ kept' = {} /\ ready' = FALSE
  /\ UNCHANGED <<faults, process>>

SuiteEnds ==
  /\ pc = "end" /\ container = MaxContainers /\ Goto("done")
  /\ UNCHANGED <<control, faults, local, process, namespace, forge, body, history>>

Done == pc = "done" /\ UNCHANGED vars

Setup ==
  \/ InitClient \/ NewSmeeURL \/ CreateSmeeDeployment \/ ValidateSmee
  \/ ForkProject \/ AddWebhook \/ CreateNewRepository
  \/ CreateRepository \/ FindOwner \/ RepositoryReady \/ EnsureWebhookSecret
  \/ CreateGitHubRepositoryCR \/ AddGitHubWebhook
  \/ UndoCR \/ UndoSecret \/ UndoRepository
Body ==
  \/ Generate \/ UpdateAnnotation \/ UpdatePushOnTargetBranch
  \/ ConfigurePreviewChanges \/ ConfigurePreviewChangesGitHub
  \/ TriggerPushOnForkMain \/ TriggerPushOnGitHubMain
  \/ AddComment \/ AddLabel \/ CreateTagOnBranch
  \/ AddCommitCommentOnTag \/ AddCommentNamingRunOnTag
  \/ GetPipelineNameFromMR \/ GetPushPipelineNameFromMain \/ WaitForNewPipelineRunName
  \/ ValidateRun \/ CountRuns \/ EndBody
Cleanup == StartCleanup \/ CleanCR \/ CleanSecret \/ CleanRepo \/ CleanSmee

Next == Setup \/ Body \/ Deliver \/ RunEnds \/ Cleanup \/ NextContainer \/ SuiteEnds \/ Done

\* The test thread takes its next step when it can, the controller ends its
\* runs; nothing is asked of the relay.
Fairness ==
  /\ WF_vars(Setup \/ Body \/ Cleanup \/ NextContainer \/ SuiteEnds)
  /\ WF_vars(RunEnds)
Spec == Init /\ [][Next]_vars /\ Fairness

-----------------------------------------------------------------------------
(***************************************************************************)
(* Properties.                                                             *)
(***************************************************************************)
Labels ==
  {"init", "smee_url", "smee_dep", "validate", "create", "hook", "cr", "owner", "ready",
   "secret", "undo_cr", "undo_secret", "undo_repo", "body", "defer", "clean_cr",
   "clean_secret", "clean_repo", "clean_smee", "clean_own_smee", "end", "done"}
FileType == [url : {None, Stale} \cup Ids, on : {"none", "any"} \cup Annotations]
WireEvents == {"opened", "push", "comment", "label", "tag", "test", "test_run"} \cup Cancels
RunType == [ev : WireEvents, state : {"running", "succeeded", "failed", "cancelled"},
            tied : BOOLEAN]

ControlOK ==
  /\ script \in Scripts /\ container \in 1..MaxContainers /\ pc \in Labels
  /\ faults \in 0..MaxFaults
ValuesOK ==
  /\ smeeURL \in Values /\ smee \in Values /\ secret \in Values
  /\ before \in [smee : {None, Foreign}, secret : {None, Foreign}]
SetupOK ==
  /\ proj \in {None} \cup Ids /\ owner \in BOOLEAN
  /\ undo \in [cr : BOOLEAN, secret : {"none", "delete", "restore"}]
CleanupOK ==
  /\ defers \in {<<>>, <<"smee">>, <<"project">>, <<"smee", "project">>}
  /\ up \in BOOLEAN /\ lost \in BOOLEAN /\ ready \in BOOLEAN
  /\ kept \subseteq {"repo", "cr", "secret", "smee"}
ForgeOK ==
  /\ made \in 0..(MaxContainers * MaxForks) /\ (projects \cup crs) \subseteq Ids
  /\ hooks \in [Ids -> [url : Values, key : Values]]
FilesOK ==
  /\ projectURL \in {None} \cup Ids
  /\ files \in [Events -> FileType] /\ branch \in [Events -> FileType] /\ main \in FileType
BodyOK ==
  /\ step \in 1..(Len(script) + 1) /\ passed \subseteq DOMAIN script /\ mr \in BOOLEAN
  /\ wire \in Seq(WireEvents) /\ runs \in Seq(RunType)
  /\ last \in {0} \cup DOMAIN runs /\ picked \in {0} \cup DOMAIN runs
  /\ \A p \in picks : p[1] \in passed /\ p[2] \in DOMAIN runs

\* Types of the variables; no container makes more projects than it may, and
\* the run a spec waits for exists.
TypeOK == ControlOK /\ ValuesOK /\ SetupOK /\ CleanupOK /\ ForgeOK /\ FilesOK /\ BodyOK

\* A setup of a GitHub project that fails half-way leaves nothing behind
\* (pac-github.go:350-369): not the repository, not the Repository CR, and the
\* Secret as it was, except what an undo call was refused for, what a lost
\* reply hid, or a repository whose owner was never learnt.
FailedSetupUndone ==
  pc = "end" /\ OnGitHub /\ ~ready /\ ~lost =>
    /\ proj \in projects  => "repo" \in kept \/ ~owner
    /\ proj \in crs       => "cr" \in kept
    /\ secret # before.secret => "secret" \in kept

\* After a setup that succeeded, whatever the body did, each object is gone or
\* its own deletion was refused; only CleanupPAC stops at a project it cannot
\* delete and leaves the relay as well (pac.go:799-815, pac-github.go:548-565).
CleanupComplete ==
  pc = "end" /\ ready =>
    /\ proj \in projects => "repo" \in kept
    /\ smee # None => "smee" \in kept \/ (~OnGitHub /\ "repo" \in kept)
    /\ OnGitHub /\ proj \in crs    => "cr" \in kept
    /\ OnGitHub /\ secret # None    => "secret" \in kept

\* Once the relay runs, an event of the project reaches the controller and is
\* accepted: the hook, the relay, the Secret and the Repository CR agree,
\* although four calls wrote them.  The relay must not have been there before
\* (pac.go:110), nor, on GitLab, the Secret (pac.go:77).
EventsReachController ==
  pc = "body" /\ before.smee = None /\ (OnGitHub \/ before.secret = None) => Delivers

\* What a container commits to its project was generated for this project,
\* never by an earlier container into the shared temporary files, even when
\* its own generation failed and the specs after it ran: except a file that no
\* os.Remove could remove (pac.go:801 and pac-github.go:549 ignore its error).
CommittedIsOurs ==
  pc = "body" =>
    \A f \in {branch[e] : e \in Events} \cup {main} : f.url \in {None, proj, Stale}

\* A spec that validates a PipelineRun validates the one its event started, if
\* the specs before it passed and it waits for that run: by name ("new") or by
\* the count checked after the event was raised.
Raises(s, i) == s[i].op \in {"preview", "trigger"} \/ (s[i].op = "raise" /\ s[i].on \notin Cancels)
Awaited(s, i) ==
  \/ s[i].op = "new"
  \/ \E j \in 1..(i - 1) : s[j].op = "count" /\ \A k \in j..i : ~Raises(s, k)
CheckedRunIsMeant ==
  \A p \in picks :
    1..(p[1] - 1) \subseteq passed /\ Awaited(script, p[1]) => runs[p[2]].ev = script[p[1]].ev

(***************************************************************************)
(* What a script must be like for that: it writes what it commits, raises  *)
(* the events that start runs one by one, each after the run before has    *)
(* been validated, and counts the runs it is due.                          *)
(***************************************************************************)
\* The annotation of the file e when spec i begins is a.
Writes(t, e) ==
  \/ t.op = "generate" /\ t.on = e
  \/ t.op = "annotate" /\ e = IF t.on = "tags" THEN "push" ELSE "pull_request"
Note(t) == IF t.op = "generate" THEN "any" ELSE t.on
Noted(s, e, i, a) ==
  \E k \in 1..(i - 1) :
    Writes(s[k], e) /\ Note(s[k]) = a /\ \A j \in (k + 1)..(i - 1) : ~Writes(s[j], e)
\* It is on the branch, or on main, with this annotation.
Previewed(s, e, a) == \E i \in DOMAIN s : s[i].op = "preview" /\ Noted(s, e, i, a)
Pushed(s, a) ==
  \E i \in DOMAIN s : /\ s[i].op = "trigger"
                      /\ IF s \in GitHub THEN Previewed(s, "push", a) ELSE Noted(s, "push", i, a)
\* An event of this kind may start a run.
Starting(s, ev) ==
  CASE ev = "opened"             -> Previewed(s, "pull_request", "any")
                                    \/ Previewed(s, "pull_request", "comment")
    [] ev \in {"label", "comment"} -> Previewed(s, "pull_request", ev)
    [] ev = "push"               -> Pushed(s, "any")
    [] ev \in {"tag", "test", "test_run"} -> Pushed(s, "tags")
    [] OTHER                     -> FALSE
RaisedBy(t) ==
  CASE t.op = "preview" -> "opened" [] t.op = "trigger" -> "push" [] OTHER -> t.on
StartsRun(s, i) == Raises(s, i) /\ Starting(s, RaisedBy(s[i]))
\* The specs before i whose events start runs; none does from i to j.
Due(s, i)        == {k \in 1..(i - 1) : StartsRun(s, k)}
NoneDue(s, i, j) == \A k \in i..j : ~StartsRun(s, k)

\* A spec of D that passes shows that every run due has started, by the count, by
\* there being a run, or by there being a new one.
Checks == {"mr", "main", "new"}
Shows(s, D, i) ==
  \/ s[i].op = "count" /\ s[i].n = Cardinality(Due(s, i))
  \/ s[i].op \in Checks /\ Cardinality(Due(s, i)) = 1
  \/ /\ s[i].op = "new" /\ s \in GitHub
     /\ \E j \in D : /\ j < i /\ s[j].op \in Checks /\ \A k \in (j + 1)..(i - 1) : s[k].op \notin Checks
                    /\ Cardinality(Due(s, i)) = Cardinality(Due(s, j)) + 1
AllStarted(s, D, i) == \E j \in D : j < i /\ NoneDue(s, j, i - 1)
\* One that validates the last of them shows that they have all ended.
AllEnded(s, D, i) == \E j \in D : j < i /\ s[j].op \in Checks /\ NoneDue(s, j, i - 1)
\* A file is written before it is committed.
Unwritten(s, e, i) == \A k \in 1..(i - 1) : ~Writes(s[k], e)
Written(s) ==
  \A i \in DOMAIN s :
    /\ s[i].op = "preview" => ~Unwritten(s, "pull_request", i)
    /\ s[i].op = (IF s \in GitHub THEN "preview" ELSE "trigger") => ~Unwritten(s, "push", i)
OneByOne(s, D) ==
  /\ Written(s)
  /\ \A i \in D : Shows(s, D, i)
  /\ \A k \in DOMAIN s : StartsRun(s, k) => Due(s, k) = {} \/ AllEnded(s, D, k)
  /\ \A i \in DOMAIN s : s[i].op \in Checks /\ Awaited(s, i) =>
       /\ i \in D \/ AllStarted(s, D, i)
       /\ \E k \in Due(s, i) : RaisedBy(s[k]) = s[i].ev /\ NoneDue(s, k + 1, i - 1)
ASSUME RaisedOneByOne == \A s \in Scripts : \E D \in SUBSET DOMAIN s : OneByOne(s, D)

\* No spec waits for ever: every container ends, as long as PipelineRuns do.
ContainersEnd == <>(pc = "done")
=============================================================================
