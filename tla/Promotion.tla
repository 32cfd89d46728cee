------------------------------- MODULE Promotion -------------------------------
(***************************************************************************)
(* The promotion of one commit on main to the GitOps repository            *)
(* (.github/workflows/promote-gitops.yml).  Every completion of a workflow *)
(* of the commit starts a run of the promotion.  The runs of one commit    *)
(* share a concurrency group: a new one cancels the one in progress,       *)
(* wherever it is.  A run reads the results of all workflows, resolves the *)
(* digests of the images, pushes a branch and opens a pull request.        *)
(*                                                                         *)
(* Meanwhile workflows are run again, people merge and close, and other    *)
(* commits are promoted.  Those meet this commit only in the main branch   *)
(* of the GitOps repository.                                               *)
(***************************************************************************)
EXTENDS Integers

CONSTANTS
    Checks,      \* the workflows every promotion requires
    Releases,    \* the releases; each is required where its domain changed
    MaxOutside   \* bound on what people and other commits do

Workflows == Checks \cup Releases

Images == {"operator", "api"}

ASSUME PromotionConstants ==
    /\ "Release Images" \in Releases \ Checks
    /\ MaxOutside \in Nat

VARIABLES
    changed,   \* the domains the commit changed, as their release workflows
    status,    \* the latest run of each workflow for the commit
    events,    \* completions that have not started a promotion yet
    built,     \* the images whose job of Release Images has pushed
    tag,       \* the image behind each tag sha-<commit>; 0 if there is none
    run,       \* the latest run of the promotion
    branch,    \* automation/image-<commit> in the GitOps repository
    pr,        \* the latest pull request of that branch, and its text while open
    main,      \* the digests on main of the GitOps repository
    gated,     \* history: all required workflows were successful at once
    budget     \* outside steps left

outside == <<branch, pr, main>>
vars == <<changed, status, events, built, tag, run, branch, pr, main, gated,
          budget>>

\* The images of this commit are numbered as they are pushed, others are not
\* positive.
Digests == [Images -> Int]

NoDigests == [i \in Images |-> 0]

Foreign == {[i \in Images |-> 0 - n] : n \in {0, 1}}

\* "success"; a conclusion the gate names as a failure; any other conclusion;
\* or missing, queued, in progress.
Statuses == {"success", "failure", "other", "pending"}

\* A run waits for the gate, for the two lookups, to update the clone, to
\* push, to open the pull request; or it ended: with success, with an error,
\* or without a job because its event was not a push to main.
Steps == {"gate", "operator", "api", "update", "push", "open"}

RunType == [stage : Steps \cup {"none", "done", "failed", "skipped"},
            digests : Digests, base : Digests]

NoRun == [stage |-> "none", digests |-> NoDigests, base |-> NoDigests]

BranchType == [exists : BOOLEAN, digests : Digests, base : Digests]

NoBranch == [exists |-> FALSE, digests |-> NoDigests, base |-> NoDigests]

Required == Checks \cup changed

Ready == \A w \in Required : status[w] = "success"

Init ==
    /\ changed \in SUBSET Releases
    /\ status = [w \in Workflows |-> "pending"]
    /\ events = 0
    /\ built = {}
    /\ tag = [i \in Images |-> 0]
    /\ run = NoRun
    /\ branch = NoBranch
    /\ pr = [state |-> "none", body |-> NoDigests]
    /\ main = NoDigests
    /\ gated = FALSE
    /\ budget = MaxOutside

(***************************************************************************)
(* The workflows of the commit                                             *)
(***************************************************************************)

\* A job of Release Images moves its tag to the image it has built.
BuildAndPush(i) ==
    /\ status["Release Images"] = "pending"
    /\ i \notin built
    /\ built' = built \cup {i}
    /\ tag' = [tag EXCEPT ![i] = @ + 1]
    /\ UNCHANGED <<changed, status, events, run, outside, gated, budget>>

\* Mutant: the list of workflow_run lacks the releases.
CompleteUntriggered(w, s) ==
    /\ status[w] = "pending"
    /\ w = "Release Images" /\ s = "success" => built = Images
    /\ status' = [status EXCEPT ![w] = s]
    /\ events' = IF w \in Releases THEN events ELSE events + 1
    /\ UNCHANGED <<changed, built, tag, run, outside, budget>>
    /\ gated' = (gated \/ Ready')

\* A workflow completes, which is an event for the promotion.
Complete(w, s) ==
    /\ status[w] = "pending"
    /\ w = "Release Images" /\ s = "success" => built = Images
    /\ status' = [status EXCEPT ![w] = s]
    /\ events' = events + 1
    /\ UNCHANGED <<changed, built, tag, run, outside, budget>>
    /\ gated' = (gated \/ Ready')

Outside ==
    /\ budget > 0
    /\ budget' = budget - 1

\* Somebody runs a workflow again, or some of its jobs; it is still the
\* latest run of its name.
Rerun(w) ==
    /\ Outside
    /\ status[w] # "pending"
    /\ status' = [status EXCEPT ![w] = "pending"]
    /\ \E kept \in SUBSET built :
         built' = IF w = "Release Images" THEN kept ELSE built
    /\ UNCHANGED <<changed, events, tag, run, outside, gated>>

(***************************************************************************)
(* A run of the promotion                                                  *)
(***************************************************************************)

\* An event starts a run and cancels the one in progress.
WorkflowRun ==
    /\ events > 0
    /\ events' = events - 1
    /\ run' = [NoRun EXCEPT !.stage = "gate"]
    /\ UNCHANGED <<changed, status, built, tag, outside, gated, budget>>

\* So does the completion of a run of the commit for a pull request, another
\* branch or workflow_dispatch; the jobs of the new run are skipped.
OtherWorkflowRun ==
    /\ Outside
    /\ run' = [NoRun EXCEPT !.stage = "skipped"]
    /\ UNCHANGED <<changed, status, events, built, tag, outside, gated>>

\* The run goes on with its next step, or ends.
Continue(r) ==
    /\ run' = IF r.stage \in Steps THEN r ELSE [NoRun EXCEPT !.stage = r.stage]
    /\ UNCHANGED <<changed, status, events, built, tag, gated, budget>>

\* Mutant: only a failure holds the promotion up.
DecisionLenient ==
    CASE changed = {} -> "no-op"
      [] \E w \in Required : status[w] = "failure" -> "blocked"
      [] \E w \in Required : status[w] = "pending" -> "waiting"
      [] OTHER -> "ready"

\* All results are taken from one answer.
Decision ==
    CASE changed = {} -> "no-op"
      [] \E w \in Required : status[w] = "failure" -> "blocked"
      [] \E w \in Required : status[w] # "success" -> "waiting"
      [] OTHER -> "ready"

\* Only the platform images are promoted.
AfterGate(decision) ==
    CASE decision = "blocked" -> "failed"
      [] decision \in {"no-op", "waiting"} -> "done"
      [] decision = "ready" ->
           IF "Release Images" \in changed THEN "operator" ELSE "done"

VerifyPromotionGates ==
    /\ run.stage = "gate"
    /\ Continue([run EXCEPT !.stage = AfterGate(Decision)])
    /\ UNCHANGED outside

\* Mutant: the job passes the operator's digest on for both images.
ResolveDigestOperator(i, next) ==
    /\ run.stage = i
    /\ tag[i] # 0
    /\ Continue([run EXCEPT !.stage = next,
                            !.digests = [@ EXCEPT !["operator"] = tag[i]]])
    /\ UNCHANGED outside

\* The image behind a tag, at the moment it is looked up; without an image
\* the step fails.
ResolveDigest(i, next) ==
    /\ run.stage = i
    /\ tag[i] # 0
    /\ Continue([run EXCEPT !.stage = next,
                            !.digests = [@ EXCEPT ![i] = tag[i]]])
    /\ UNCHANGED outside

\* Clone main, write the digests, render, and look for a difference.
UpdateImageDigests ==
    /\ run.stage = "update"
    /\ Continue([run EXCEPT !.stage = IF main = run.digests THEN "done"
                                      ELSE "push",
                            !.base = main])
    /\ UNCHANGED outside

\* Mutant: git push --force.
PushForced ==
    /\ run.stage = "push"
    /\ Continue([run EXCEPT !.stage = "open"])
    /\ branch' = [exists |-> TRUE, digests |-> run.digests, base |-> run.base]
    /\ UNCHANGED <<pr, main>>

\* Mutant: a push that is refused is tried again until it succeeds.
PushRetried ==
    /\ run.stage = "push"
    /\ ~branch.exists
    /\ Continue([run EXCEPT !.stage = "open"])
    /\ branch' = [exists |-> TRUE, digests |-> run.digests, base |-> run.base]
    /\ UNCHANGED <<pr, main>>

\* The commit of another run is not an ancestor of this one: a branch that
\* exists is left alone.
PushGitOpsBranch ==
    /\ run.stage = "push"
    /\ IF branch.exists
       THEN /\ Continue([run EXCEPT !.stage = "failed"])
            /\ UNCHANGED branch
       ELSE /\ Continue([run EXCEPT !.stage = "open"])
            /\ branch' = [exists |-> TRUE, digests |-> run.digests,
                          base |-> run.base]
    /\ UNCHANGED <<pr, main>>

\* gh refuses a head that is gone or has an open pull request.
CreatePullRequest ==
    /\ run.stage = "open"
    /\ IF branch.exists /\ pr.state # "open"
       THEN /\ Continue([run EXCEPT !.stage = "done"])
            /\ pr' = [state |-> "open", body |-> run.digests]
       ELSE /\ Continue([run EXCEPT !.stage = "failed"])
            /\ UNCHANGED pr
    /\ UNCHANGED <<branch, main>>

\* A step fails: a call is refused or lost, the runner dies.
StepFails ==
    /\ run.stage \in Steps
    /\ Continue([run EXCEPT !.stage = "failed"])
    /\ UNCHANGED outside

(***************************************************************************)
(* People and other commits                                                *)
(***************************************************************************)

\* The pull request is merged, unless main has moved below it.
Merge ==
    /\ Outside
    /\ pr.state = "open"
    /\ main = branch.base
    /\ main' = branch.digests
    /\ pr' = [state |-> "merged", body |-> NoDigests]
    /\ branch' \in {branch, NoBranch}
    /\ UNCHANGED <<changed, status, events, built, tag, run, gated>>

\* The branch is deleted, which closes its pull request, or the pull request
\* is closed.
Close ==
    /\ Outside
    /\ branch.exists
    /\ branch' \in {branch, NoBranch}
    /\ pr' = IF pr.state = "open" THEN [state |-> "closed", body |-> NoDigests]
             ELSE pr
    /\ UNCHANGED <<changed, status, events, built, tag, run, main, gated>>

\* The promotion of another commit is merged.
MainMoves ==
    /\ Outside
    /\ main' \in Foreign \ {main}
    /\ UNCHANGED <<changed, status, events, built, tag, run, branch, pr,
                   gated>>

Promote ==
    \/ VerifyPromotionGates
    \/ ResolveDigest("operator", "api")
    \/ ResolveDigest("api", "update")
    \/ UpdateImageDigests
    \/ PushGitOpsBranch
    \/ CreatePullRequest

Next ==
    \/ \E i \in Images : BuildAndPush(i)
    \/ \E w \in Workflows, s \in Statuses \ {"pending"} : Complete(w, s)
    \/ \E w \in Workflows : Rerun(w)
    \/ WorkflowRun
    \/ OtherWorkflowRun
    \/ Promote
    \/ StepFails
    \/ Merge
    \/ Close
    \/ MainMoves

Spec == Init /\ [][Next]_vars

(***************************************************************************)
(* GitHub starts a run for every event and carries its steps out; people,  *)
(* other commits and the workflows themselves owe nothing.                 *)
(***************************************************************************)
FairSpec ==
    /\ Spec
    /\ WF_vars(WorkflowRun)
    /\ WF_vars(Promote)

(***************************************************************************)
(* Properties                                                              *)
(***************************************************************************)

\* The types of the variables; a run past the lookups holds digests of images
\* that were pushed under the tags of the commit.
TypeOK ==
    /\ changed \subseteq Releases
    /\ status \in [Workflows -> Statuses]
    /\ events \in Nat
    /\ built \subseteq Images
    /\ tag \in [Images -> Nat]
    /\ run \in RunType
    /\ run.stage \in {"update", "push", "open"} =>
         \A i \in Images : run.digests[i] \in 1 .. tag[i]
    /\ branch \in BranchType
    /\ pr \in [state : {"none", "open", "merged", "closed"}, body : Digests]
    /\ main \in Digests
    /\ gated \in BOOLEAN
    /\ budget \in Nat

\* Nothing of the commit reaches the GitOps repository unless all workflows
\* it requires, the release of its images among them, were successful at one
\* moment, however runs are repeated and cancelled in between.  ("Promotion
\* is created only after the centralized promotion gate reaches READY.")
PromotesOnlyGated ==
    branch.exists \/ pr.state # "none" \/ main \notin Foreign => gated

\* What an open pull request tells its reviewers is what merging it does: no
\* other run has put other images on its branch.
BodyNamesBranch ==
    pr.state = "open" => branch.exists /\ branch.digests = pr.body

\* No completion is missed: when no event is on its way and no run in
\* progress, a commit with images to promote whose gate stands open has had
\* its pull request, or its last run is marked as failed or as skipped.  A
\* run that found the gate closed ends as successful, and the one it would
\* have to wait for may complete at any moment before or after the gate looks.
NoCompletionMissed ==
    "Release Images" \in changed /\ Ready /\ events = 0 /\ run.stage \notin Steps =>
        pr.state # "none" \/ run.stage \in {"failed", "skipped"}

\* A commit whose gate stands open is not forgotten: a pull request is opened,
\* or the last run of the promotion is marked as failed or as skipped.  The
\* event of the last completion may cancel a run between its push and its
\* pull request.
ReadyIsNotForgotten ==
    ("Release Images" \in changed /\ Ready) ~>
        \/ pr.state # "none"
        \/ run.stage \in {"failed", "skipped"}
        \/ ~Ready

================================================================================
