---------------------------- MODULE PromotionProofs ----------------------------
(***************************************************************************)
(* Proofs about Promotion, for any set of checks and releases and any      *)
(* number of repetitions.  Two facts carry the argument: a run past the    *)
(* gate belongs to a commit that was ready, because the history variable   *)
(* is set with the completion that makes the commit ready; and a run that  *)
(* is about to open its pull request finds its own commit on the branch or *)
(* none at all, because nobody pushes to a branch that exists.             *)
(***************************************************************************)
EXTENDS Promotion, TLAPS

PastGate == {"operator", "api", "update", "push", "open"}

\* The images the run has looked up.
Resolved ==
    /\ run.stage \in {"api", "update", "push", "open"} =>
         run.digests["operator"] \in 1 .. tag["operator"]
    /\ run.stage \in {"update", "push", "open"} =>
         run.digests["api"] \in 1 .. tag["api"]

Types ==
    /\ changed \subseteq Releases
    /\ status \in [Workflows -> Statuses]
    /\ events \in Nat
    /\ built \subseteq Images
    /\ tag \in [Images -> Nat]
    /\ run \in RunType
    /\ branch \in BranchType
    /\ pr \in [state : {"none", "open", "merged", "closed"}, body : Digests]
    /\ main \in Digests
    /\ gated \in BOOLEAN
    /\ budget \in Nat

\* The inductive invariant of the safety properties.
GateInv ==
    /\ changed # {} /\ Ready => gated
    /\ run.stage \in PastGate => gated
    /\ run.stage = "open" /\ branch.exists => branch.digests = run.digests
    /\ PromotesOnlyGated
    /\ BodyNamesBranch

Inv == Types /\ Resolved /\ GateInv

LEMMA DigestTypes ==
    /\ NoDigests \in Digests
    /\ Foreign \subseteq Digests
    /\ NoDigests \in Foreign
<1>1. NoDigests \in Digests
  BY DEF NoDigests, Digests
<1>2. Foreign \subseteq Digests
  BY DEF Foreign, Digests
<1>3. NoDigests = [i \in Images |-> 0 - 0]
  BY DEF NoDigests
<1> QED
  BY <1>1, <1>2, <1>3, Zenon DEF Foreign

LEMMA NoTypes ==
    /\ NoRun \in RunType /\ NoRun.stage = "none"
    /\ NoBranch \in BranchType /\ ~NoBranch.exists
    /\ \A s \in {"gate", "none", "done", "failed", "skipped"} :
         /\ [NoRun EXCEPT !.stage = s] \in RunType
         /\ [NoRun EXCEPT !.stage = s].stage = s
  BY DigestTypes DEF NoRun, RunType, NoBranch, BranchType, Steps

\* The commit has just been pushed: no workflow has completed.
LEMMA InitInv == Init => Inv
<1> SUFFICES ASSUME Init PROVE Inv
  OBVIOUS
<1>1. Types
  <2>1. status \in [Workflows -> Statuses]
    BY DEF Init, Statuses
  <2>2. pr \in [state : {"none", "open", "merged", "closed"}, body : Digests]
    BY DigestTypes DEF Init
  <2> QED
    BY <2>1, <2>2, DigestTypes, NoTypes, PromotionConstants DEF Init, Types
<1>2. Resolved
  BY NoTypes DEF Init, Resolved
<1>3. changed # {} => ~Ready
  <2> SUFFICES ASSUME changed # {} PROVE ~Ready
    OBVIOUS
  <2>1. PICK w \in changed : TRUE
    OBVIOUS
  <2>2. w \in Workflows /\ w \in Required
    BY DEF Init, Workflows, Required
  <2> QED
    BY <2>2 DEF Init, Ready
<1>4. GateInv
  BY <1>3, NoTypes, DigestTypes
  DEF Init, GateInv, PastGate, PromotesOnlyGated, BodyNamesBranch
<1> QED
  BY <1>1, <1>2, <1>4 DEF Inv

\* The workflows of the commit: the history follows the results.
LEMMA WorkflowStep ==
    ASSUME Inv,
           \/ \E i \in Images : BuildAndPush(i)
           \/ \E w \in Workflows, s \in Statuses \ {"pending"} : Complete(w, s)
           \/ \E w \in Workflows : Rerun(w)
    PROVE  Inv'
<1>1. UNCHANGED <<changed, run, branch, pr, main>>
  BY DEF BuildAndPush, Complete, Rerun, outside
<1>2. CASE \E i \in Images : BuildAndPush(i)
  <2>1. PICK i \in Images : BuildAndPush(i)
    BY <1>2
  <2>2. UNCHANGED <<status, events, gated, budget>>
    BY <2>1 DEF BuildAndPush
  <2>3. /\ tag' \in [Images -> Nat]
        /\ \A j \in Images : tag'[j] >= tag[j]
    <3>1. tag \in [Images -> Nat] /\ tag' = [tag EXCEPT ![i] = @ + 1]
      BY <2>1 DEF BuildAndPush, Inv, Types
    <3> QED
      BY <3>1
  <2>4. built' \subseteq Images
    BY <2>1 DEF BuildAndPush, Inv, Types
  <2>5. Types'
    BY <1>1, <2>2, <2>3, <2>4 DEF Inv, Types
  <2>6. Resolved'
    BY <1>1, <2>3 DEF Inv, Types, Resolved, Images
  <2>7. GateInv'
    BY <1>1, <2>2
    DEF Inv, GateInv, Ready, Required, PromotesOnlyGated, BodyNamesBranch
  <2> QED
    BY <2>5, <2>6, <2>7 DEF Inv
<1>3. CASE \E w \in Workflows, s \in Statuses \ {"pending"} : Complete(w, s)
  <2>1. PICK w \in Workflows, s \in Statuses \ {"pending"} : Complete(w, s)
    BY <1>3
  <2>2. UNCHANGED <<built, tag, budget>>
    BY <2>1 DEF Complete
  <2>3. status' \in [Workflows -> Statuses] /\ events' \in Nat
    <3>1. status' \in [Workflows -> Statuses]
      BY <2>1 DEF Complete, Inv, Types
    <3>2. events \in Nat /\ events' = events + 1
      BY <2>1 DEF Complete, Inv, Types
    <3> QED
      BY <3>1, <3>2
  <2>4. gated' = (gated \/ Ready')
    BY <2>1 DEF Complete
  <2>5. gated' \in BOOLEAN /\ (gated => gated') /\ (Ready' => gated')
    BY <2>4, Zenon DEF Inv, Types
  <2>6. Types'
    BY <1>1, <2>2, <2>3, <2>5 DEF Inv, Types
  <2>7. Resolved'
    BY <1>1, <2>2 DEF Inv, Resolved
  <2>8. GateInv'
    BY <1>1, <2>5 DEF Inv, GateInv, PromotesOnlyGated, BodyNamesBranch
  <2> QED
    BY <2>6, <2>7, <2>8 DEF Inv
<1>4. CASE \E w \in Workflows : Rerun(w)
  <2>1. PICK w \in Workflows : Rerun(w)
    BY <1>4
  <2>2. UNCHANGED <<events, tag, gated>>
    BY <2>1 DEF Rerun
  <2>3. status' \in [Workflows -> Statuses]
    BY <2>1 DEF Rerun, Inv, Types, Statuses
  <2>4. built' \subseteq Images /\ budget' \in Nat
    <3>1. built' \subseteq Images
      BY <2>1 DEF Rerun, Inv, Types
    <3>2. budget \in Nat /\ budget > 0 /\ budget' = budget - 1
      BY <2>1 DEF Rerun, Outside, Inv, Types
    <3> QED
      BY <3>1, <3>2
  <2>5. Ready' => Ready
    <3> SUFFICES ASSUME Ready', NEW v \in Required PROVE status[v] = "success"
      BY DEF Ready
    <3>1. Required' = Required /\ Required \subseteq Workflows
      BY <1>1 DEF Required, Workflows, Inv, Types
    <3>2. status'[v] = "success"
      BY <3>1 DEF Ready
    <3> QED
      BY <2>1, <3>1, <3>2 DEF Rerun, Inv, Types
  <2>6. Types'
    BY <1>1, <2>2, <2>3, <2>4 DEF Inv, Types
  <2>7. Resolved'
    BY <1>1, <2>2 DEF Inv, Resolved
  <2>8. GateInv'
    BY <1>1, <2>2, <2>5 DEF Inv, GateInv, PromotesOnlyGated, BodyNamesBranch
  <2> QED
    BY <2>6, <2>7, <2>8 DEF Inv
<1> QED
  BY <1>2, <1>3, <1>4

\* The run is replaced by one that has not passed the gate, or has ended.
LEMMA RunEnds ==
    ASSUME Inv,
           NEW s \in {"gate", "none", "done", "failed", "skipped"},
           run' = [NoRun EXCEPT !.stage = s],
           events' \in Nat, budget' \in Nat,
           UNCHANGED <<changed, status, built, tag, branch, pr, main, gated>>
    PROVE  Inv'
<1>1. run' \in RunType /\ run'.stage = s
  BY NoTypes
<1>2. s \notin PastGate
  BY DEF PastGate
<1>3. Types'
  BY <1>1 DEF Inv, Types
<1>4. Resolved'
  BY <1>1, <1>2 DEF Resolved, PastGate
<1>5. GateInv'
  BY <1>1, <1>2
  DEF Inv, GateInv, Ready, Required, PromotesOnlyGated, BodyNamesBranch, PastGate
<1> QED
  BY <1>3, <1>4, <1>5 DEF Inv

\* Events, and runs that end.
LEMMA EventStep == Inv /\ (WorkflowRun \/ OtherWorkflowRun \/ StepFails) => Inv'
<1> SUFFICES ASSUME Inv, WorkflowRun \/ OtherWorkflowRun \/ StepFails
             PROVE  Inv'
  OBVIOUS
<1>1. CASE WorkflowRun
  <2>1. events' \in Nat /\ budget' \in Nat
    BY <1>1 DEF WorkflowRun, Inv, Types
  <2> QED
    BY <1>1, <2>1, RunEnds DEF WorkflowRun, outside
<1>2. CASE OtherWorkflowRun
  <2>1. events' \in Nat /\ budget' \in Nat
    BY <1>2 DEF OtherWorkflowRun, Outside, Inv, Types
  <2> QED
    BY <1>2, <2>1, RunEnds DEF OtherWorkflowRun, outside
<1>3. CASE StepFails
  <2>1. events' \in Nat /\ budget' \in Nat
    BY <1>3 DEF StepFails, Continue, Inv, Types
  <2>2. [run EXCEPT !.stage = "failed"].stage = "failed"
    BY DEF Inv, Types, RunType
  <2>3. run' = [NoRun EXCEPT !.stage = "failed"]
    BY <1>3, <2>2 DEF StepFails, Continue, Steps
  <2> QED
    BY <1>3, <2>1, <2>3, RunEnds DEF StepFails, Continue, outside
<1> QED
  BY <1>1, <1>2, <1>3

\* People and other commits: what is merged was gated.
LEMMA OutsideStep == Inv /\ (Merge \/ Close \/ MainMoves) => Inv'
<1> SUFFICES ASSUME Inv, Merge \/ Close \/ MainMoves PROVE Inv'
  OBVIOUS
<1>1. UNCHANGED <<changed, status, events, built, tag, run, gated>>
  BY DEF Merge, Close, MainMoves
<1>2. budget' \in Nat
  BY DEF Merge, Close, MainMoves, Outside, Inv, Types
<1>3. branch' \in {branch, NoBranch}
  BY DEF Merge, Close, MainMoves
<1>4. main' \in Digests
  <2>1. branch.digests \in Digests
    BY DEF Inv, Types, BranchType
  <2> QED
    BY <2>1, DigestTypes DEF Merge, Close, MainMoves, Inv, Types
<1>5. /\ pr' \in [state : {"none", "open", "merged", "closed"}, body : Digests]
      /\ pr' = pr \/ pr'.state \notin {"none", "open"}
      /\ pr' # pr => pr.state # "none"
  BY DigestTypes DEF Merge, Close, MainMoves, Inv, Types
<1>6. Types'
  BY <1>1, <1>2, <1>3, <1>4, <1>5, NoTypes DEF Inv, Types
<1>7. Resolved'
  BY <1>1 DEF Inv, Resolved
<1>8. main' \in Foreign \/ main' = main \/ gated
  BY DEF Merge, Close, MainMoves, Inv, GateInv, PromotesOnlyGated
<1>9. PromotesOnlyGated'
  BY <1>1, <1>3, <1>5, <1>8, NoTypes DEF Inv, GateInv, PromotesOnlyGated
<1>10. BodyNamesBranch'
  <2>1. CASE Merge
    BY <2>1 DEF Merge, BodyNamesBranch
  <2>2. CASE Close
    BY <2>2 DEF Close, BodyNamesBranch
  <2>3. CASE MainMoves
    BY <2>3 DEF MainMoves, BodyNamesBranch, Inv, GateInv
  <2> QED
    BY <2>1, <2>2, <2>3
<1>11. run'.stage = "open" /\ branch'.exists => branch'.digests = run'.digests
  BY <1>1, <1>3, NoTypes DEF Inv, GateInv
<1>12. GateInv'
  BY <1>1, <1>9, <1>10, <1>11 DEF Inv, GateInv, Ready, Required
<1> QED
  BY <1>6, <1>7, <1>12 DEF Inv

\* The gate: only a commit that is ready gets past it.
LEMMA GateStep == Inv /\ VerifyPromotionGates => Inv'
<1> SUFFICES ASSUME Inv, VerifyPromotionGates PROVE Inv'
  OBVIOUS
<1> DEFINE next == AfterGate(Decision)
<1>1. Decision = "ready" => changed # {} /\ Ready
  BY DEF Decision, Ready
<1>2. next \in {"failed", "done", "operator"}
  BY DEF AfterGate, Decision
<1>3. next = "operator" => gated
  <2>1. Decision \in {"no-op", "blocked", "waiting", "ready"}
    BY DEF Decision
  <2>2. next = "operator" => Decision = "ready"
    BY <2>1 DEF AfterGate
  <2> HIDE DEF next
  <2> QED
    BY <1>1, <2>2 DEF Inv, GateInv
<1>4. UNCHANGED <<changed, status, events, built, tag, gated, budget, branch, pr,
                  main>>
  BY DEF VerifyPromotionGates, Continue, outside
<1>5. events' \in Nat /\ budget' \in Nat
  BY <1>4 DEF Inv, Types
<1>6. run' = IF [run EXCEPT !.stage = next].stage \in Steps
             THEN [run EXCEPT !.stage = next]
             ELSE [NoRun EXCEPT !.stage = [run EXCEPT !.stage = next].stage]
  BY DEF VerifyPromotionGates, Continue
<1> HIDE DEF next
<1>7. [run EXCEPT !.stage = next].stage = next
  BY DEF Inv, Types, RunType
<1>8. CASE next = "operator"
  <2>1. run' = [run EXCEPT !.stage = "operator"]
    BY <1>6, <1>7, <1>8 DEF Steps
  <2>2. run' \in RunType /\ run'.stage = "operator"
    BY <2>1 DEF Inv, Types, RunType, Steps
  <2>3. Types'
    BY <1>4, <2>2 DEF Inv, Types
  <2>4. Resolved'
    BY <2>2 DEF Resolved
  <2>5. GateInv'
    BY <1>3, <1>4, <1>8, <2>2
    DEF Inv, GateInv, Ready, Required, PromotesOnlyGated, BodyNamesBranch
  <2> QED
    BY <2>3, <2>4, <2>5 DEF Inv
<1>9. CASE next \in {"failed", "done"}
  <2>1. run' = [NoRun EXCEPT !.stage = next]
    BY <1>6, <1>7, <1>9 DEF Steps
  <2> QED
    BY <1>4, <1>5, <1>9, <2>1, RunEnds
<1> QED
  BY <1>2, <1>8, <1>9

\* The run goes from one step past the gate to the next one.
LEMMA RunGoesOn ==
    ASSUME Inv, NEW r \in RunType,
           run.stage \in PastGate, r.stage \in PastGate \ {"open"},
           Continue(r), UNCHANGED outside
    PROVE  /\ run' = r
           /\ Types' /\ GateInv'
           /\ UNCHANGED tag
<1>1. run' = r
  BY DEF Continue, Steps, PastGate
<1>2. UNCHANGED <<changed, status, events, built, tag, gated, budget, branch, pr,
                  main>>
  BY DEF Continue, outside
<1>3. Types'
  BY <1>1, <1>2 DEF Inv, Types
<1>4. GateInv'
  BY <1>1, <1>2
  DEF Inv, GateInv, Ready, Required, PromotesOnlyGated, BodyNamesBranch, PastGate
<1> QED
  BY <1>1, <1>2, <1>3, <1>4

\* The lookups: a digest is one of an image that was pushed under the tag.
LEMMA ResolveStep ==
    /\ Inv /\ ResolveDigest("operator", "api") => Inv'
    /\ Inv /\ ResolveDigest("api", "update") => Inv'
<1>0. /\ \A i \in Images : tag[i] \in Nat /\ tag[i] # 0 => tag[i] \in 1 .. tag[i]
      /\ "operator" \in Images /\ "api" \in Images
      /\ "operator" \in Images \ {"api"}
  BY DEF Images
<1>1. ASSUME Inv, NEW i \in Images, NEW next \in {"api", "update"},
             tag[i] # 0
      PROVE  LET r == [run EXCEPT !.stage = next,
                                  !.digests = [@ EXCEPT ![i] = tag[i]]]
             IN  /\ r \in RunType
                 /\ r.stage = next
                 /\ r.digests[i] = tag[i]
                 /\ \A j \in Images \ {i} : r.digests[j] = run.digests[j]
  <2> DEFINE d == [run.digests EXCEPT ![i] = tag[i]]
  <2>1. run \in RunType /\ run.digests \in Digests /\ tag[i] \in Nat
    BY <1>1 DEF Inv, Types, RunType
  <2>2. /\ d \in Digests /\ d[i] = tag[i]
        /\ \A j \in Images \ {i} : d[j] = run.digests[j]
    BY <2>1 DEF Digests
  <2> HIDE DEF d
  <2>3. /\ [run EXCEPT !.stage = next, !.digests = d] \in RunType
        /\ [run EXCEPT !.stage = next, !.digests = d].stage = next
        /\ [run EXCEPT !.stage = next, !.digests = d].digests = d
    BY <2>1, <2>2, Zenon DEF RunType, Steps
  <2> QED
    BY <2>2, <2>3 DEF d
<1>2. ASSUME Inv, ResolveDigest("operator", "api") PROVE Inv'
  <2> DEFINE r == [run EXCEPT !.stage = "api",
                              !.digests = [@ EXCEPT !["operator"] =
                                                      tag["operator"]]]
  <2>1. tag["operator"] # 0 /\ Continue(r) /\ UNCHANGED outside
        /\ run.stage = "operator"
    BY <1>2 DEF ResolveDigest
  <2>2. /\ r \in RunType /\ r.stage = "api"
        /\ r.digests["operator"] = tag["operator"]
    BY <1>0, <1>1, <1>2, <2>1, Zenon
  <2> HIDE DEF r
  <2>3. run' = r /\ Types' /\ GateInv' /\ tag' = tag
    BY <1>2, <2>1, <2>2, RunGoesOn DEF PastGate
  <2>4. tag["operator"] \in Nat
    BY <1>0, <1>2 DEF Inv, Types
  <2>5. Resolved'
    BY <1>0, <2>1, <2>2, <2>3, <2>4 DEF Resolved
  <2> QED
    BY <2>3, <2>5 DEF Inv
<1>3. ASSUME Inv, ResolveDigest("api", "update") PROVE Inv'
  <2> DEFINE r == [run EXCEPT !.stage = "update",
                              !.digests = [@ EXCEPT !["api"] = tag["api"]]]
  <2>1. tag["api"] # 0 /\ Continue(r) /\ UNCHANGED outside
        /\ run.stage = "api"
    BY <1>3, SMTT(30) DEF ResolveDigest
  <2>2. /\ r \in RunType /\ r.stage = "update"
        /\ r.digests["api"] = tag["api"]
        /\ r.digests["operator"] = run.digests["operator"]
    BY <1>0, <1>1, <1>3, <2>1, Zenon
  <2> HIDE DEF r
  <2>3. run' = r /\ Types' /\ GateInv' /\ tag' = tag
    BY <1>3, <2>1, <2>2, RunGoesOn DEF PastGate
  <2>4. tag["api"] \in Nat
    BY <1>0, <1>3 DEF Inv, Types
  <2>5. Resolved'
    BY <1>0, <1>3, <2>1, <2>2, <2>3, <2>4 DEF Inv, Resolved
  <2> QED
    BY <2>3, <2>5 DEF Inv
<1> QED
  BY <1>2, <1>3

\* The clone: the digests are compared with main and kept with it.
LEMMA UpdateStep == Inv /\ UpdateImageDigests => Inv'
<1> SUFFICES ASSUME Inv, UpdateImageDigests PROVE Inv'
  OBVIOUS
<1> DEFINE r(s) == [run EXCEPT !.stage = s, !.base = main]
<1>1. run.stage = "update" /\ UNCHANGED outside
  BY DEF UpdateImageDigests
<1>2. \/ main = run.digests /\ Continue(r("done"))
      \/ main # run.digests /\ Continue(r("push"))
  BY Zenon DEF UpdateImageDigests
<1>3. \A s \in {"done", "push"} :
        r(s) \in RunType /\ r(s).stage = s /\ r(s).digests = run.digests
  BY Zenon DEF Inv, Types, RunType, Steps
<1> HIDE DEF r
<1>4. CASE Continue(r("push"))
  <2>1. run' = r("push") /\ Types' /\ GateInv' /\ tag' = tag
    BY <1>1, <1>3, <1>4, RunGoesOn DEF PastGate
  <2>2. Resolved'
    BY <1>1, <1>3, <2>1 DEF Inv, Resolved
  <2> QED
    BY <2>1, <2>2 DEF Inv
<1>5. CASE Continue(r("done"))
  <2>1. run' = [NoRun EXCEPT !.stage = "done"]
    BY <1>3, <1>5 DEF Continue, Steps
  <2>2. events' \in Nat /\ budget' \in Nat
    BY <1>5 DEF Continue, Inv, Types
  <2> QED
    BY <1>1, <1>5, <2>1, <2>2, RunEnds DEF Continue, outside
<1> QED
  BY <1>2, <1>4, <1>5

\* The stage of a run that is replaced in one place.
LEMMA StageOnly ==
    ASSUME Inv, NEW s \in Steps \cup {"done", "failed"}
    PROVE  /\ [run EXCEPT !.stage = s] \in RunType
           /\ [run EXCEPT !.stage = s].stage = s
           /\ [run EXCEPT !.stage = s].digests = run.digests
  BY DEF Inv, Types, RunType

\* The push: a branch that exists is left alone.
LEMMA PushStep == Inv /\ PushGitOpsBranch => Inv'
<1> SUFFICES ASSUME Inv, PushGitOpsBranch PROVE Inv'
  OBVIOUS
<1>1. run.stage = "push" /\ UNCHANGED <<pr, main>>
  BY DEF PushGitOpsBranch
<1>2. gated
  BY <1>1 DEF Inv, GateInv, PastGate
<1>3. CASE branch.exists
  <2>1. Continue([run EXCEPT !.stage = "failed"]) /\ UNCHANGED branch
    BY <1>3 DEF PushGitOpsBranch
  <2>2. run' = [NoRun EXCEPT !.stage = "failed"]
    BY <2>1, StageOnly DEF Continue, Steps
  <2>3. events' \in Nat /\ budget' \in Nat
    BY <2>1 DEF Continue, Inv, Types
  <2> QED
    BY <1>1, <2>1, <2>2, <2>3, RunEnds DEF Continue
<1>4. CASE ~branch.exists
  <2>1. /\ Continue([run EXCEPT !.stage = "open"])
        /\ branch' = [exists |-> TRUE, digests |-> run.digests,
                      base |-> run.base]
    BY <1>4 DEF PushGitOpsBranch
  <2>2. UNCHANGED <<changed, status, events, built, tag, gated, budget>>
    BY <2>1 DEF Continue
  <2>3. run' = [run EXCEPT !.stage = "open"]
    BY <2>1, StageOnly DEF Continue, Steps
  <2>4. run' \in RunType /\ run'.stage = "open" /\ run'.digests = run.digests
    BY <2>3, StageOnly DEF Steps
  <2>5. branch' \in BranchType /\ branch'.digests = run.digests
    BY <2>1 DEF Inv, Types, RunType, BranchType
  <2>6. pr.state # "open"
    BY <1>4 DEF Inv, GateInv, BodyNamesBranch
  <2>7. Types'
    BY <1>1, <2>2, <2>4, <2>5 DEF Inv, Types
  <2>8. Resolved'
    BY <1>1, <2>2, <2>4 DEF Inv, Resolved
  <2>9. GateInv'
    BY <1>1, <1>2, <2>2, <2>4, <2>5, <2>6
    DEF GateInv, Ready, Required, PromotesOnlyGated, BodyNamesBranch
  <2> QED
    BY <2>7, <2>8, <2>9 DEF Inv
<1> QED
  BY <1>3, <1>4

\* The pull request: its text names what this run has pushed.
LEMMA PullRequestStep == Inv /\ CreatePullRequest => Inv'
<1> SUFFICES ASSUME Inv, CreatePullRequest PROVE Inv'
  OBVIOUS
<1>1. run.stage = "open" /\ UNCHANGED <<branch, main>>
  BY DEF CreatePullRequest
<1>2. gated
  BY <1>1 DEF Inv, GateInv, PastGate
<1>3. PICK s \in {"done", "failed"} : Continue([run EXCEPT !.stage = s])
  BY DEF CreatePullRequest
<1>4. UNCHANGED <<changed, status, events, built, tag, gated, budget>>
  BY <1>3 DEF Continue
<1>5. run' = [NoRun EXCEPT !.stage = s]
  BY <1>3, StageOnly DEF Continue, Steps
<1>6. run' \in RunType /\ run'.stage = s
  BY <1>5, NoTypes
<1>7. \/ UNCHANGED pr
      \/ branch.exists /\ pr' = [state |-> "open", body |-> run.digests]
  BY DEF CreatePullRequest
<1>8. pr' \in [state : {"none", "open", "merged", "closed"}, body : Digests]
  BY <1>7 DEF Inv, Types, RunType
<1>9. BodyNamesBranch'
  BY <1>1, <1>7 DEF Inv, GateInv, BodyNamesBranch
<1>10. Types'
  BY <1>1, <1>4, <1>6, <1>8 DEF Inv, Types
<1>11. Resolved'
  BY <1>6 DEF Resolved
<1>12. GateInv'
  BY <1>1, <1>2, <1>4, <1>6, <1>9
  DEF GateInv, Ready, Required, PromotesOnlyGated, PastGate
<1> QED
  BY <1>10, <1>11, <1>12 DEF Inv

LEMMA NextInv == Inv /\ [Next]_vars => Inv'
<1> SUFFICES ASSUME Inv, [Next]_vars PROVE Inv'
  OBVIOUS
<1>1. CASE UNCHANGED vars
  BY <1>1
  DEF vars, Inv, Types, Resolved, GateInv, Ready, Required, PromotesOnlyGated,
      BodyNamesBranch
<1>2. CASE Promote
  BY <1>2, GateStep, ResolveStep, UpdateStep, PushStep, PullRequestStep
  DEF Promote
<1>3. CASE Next /\ ~Promote
  BY <1>3, WorkflowStep, EventStep, OutsideStep DEF Next
<1> QED
  BY <1>1, <1>2, <1>3

LEMMA Invariance == Spec => []Inv
  BY InitInv, NextInv, PTL DEF Spec

\* Every variable has its type; a run past the lookups has digests of images
\* that were pushed under the tags of the commit.
THEOREM TypeCorrect == Spec => []TypeOK
<1>1. Inv => TypeOK
  BY DEF Inv, Types, Resolved, TypeOK, Images
<1> QED
  BY <1>1, Invariance, PTL

\* Nothing is promoted unless all required workflows were successful at one
\* moment, whatever is repeated, cancelled or fails.
THEOREM GateComesFirst == Spec => []PromotesOnlyGated
<1>1. Inv => PromotesOnlyGated
  BY DEF Inv, GateInv
<1> QED
  BY <1>1, Invariance, PTL

\* A pull request tells its reviewers what merging it does.
THEOREM PullRequestIsTruthful == Spec => []BodyNamesBranch
<1>1. Inv => BodyNamesBranch
  BY DEF Inv, GateInv
<1> QED
  BY <1>1, Invariance, PTL

(***************************************************************************)
(* No completion is missed.  NoCompletionMissed is inductive but for one   *)
(* step: the run that finds its digests on main already ends as successful *)
(* without a pull request of its own.  Digests of this commit are on main  *)
(* only because an earlier pull request brought them there.                *)
(***************************************************************************)

MergedByPullRequest == main \notin Foreign => pr.state # "none"

Caught == NoCompletionMissed /\ MergedByPullRequest

\* The digests of this commit are not those of another one.
LEMMA OwnDigests ==
    ASSUME Inv, run.stage = "update"
    PROVE  run.digests \notin Foreign
<1>1. run.digests["api"] \in 1 .. tag["api"] /\ tag["api"] \in Nat
  BY DEF Inv, Types, Resolved, Images
<1>2. run.digests["api"] > 0
  BY <1>1
<1>3. \A d \in Foreign : ~(d["api"] > 0)
  BY DEF Foreign, Images
<1> QED
  BY <1>2, <1>3

\* Whoever completes a workflow leaves an event behind; whoever repeats one
\* closes the gate if the workflow is required.
LEMMA WorkflowCaught ==
    ASSUME Inv, Caught,
           \/ \E i \in Images : BuildAndPush(i)
           \/ \E w \in Workflows, s \in Statuses \ {"pending"} : Complete(w, s)
           \/ \E w \in Workflows : Rerun(w)
    PROVE  Caught'
<1>1. UNCHANGED <<changed, run, pr, main>>
  BY DEF BuildAndPush, Complete, Rerun, outside
<1>2. MergedByPullRequest'
  BY <1>1 DEF Caught, MergedByPullRequest
<1>3. events' = 0 => events = 0 /\ (Ready' => Ready)
  <2>1. CASE \E i \in Images : BuildAndPush(i)
    BY <2>1 DEF BuildAndPush, Ready, Required
  <2>2. CASE \E w \in Workflows, s \in Statuses \ {"pending"} : Complete(w, s)
    <3>1. events \in Nat /\ events' = events + 1
      BY <2>2 DEF Complete, Inv, Types
    <3> QED
      BY <3>1
  <2>3. ASSUME NEW w \in Workflows, Rerun(w)
        PROVE  events' = events /\ (Ready' => Ready)
    <3>1. /\ events' = events /\ changed' = changed
          /\ status' = [status EXCEPT ![w] = "pending"]
      BY <2>3 DEF Rerun
    <3>2. /\ status \in [Workflows -> Statuses]
          /\ Required \subseteq Workflows /\ Required' = Required
      BY <3>1 DEF Inv, Types, Required, Workflows
    <3>3. ASSUME NEW v \in Required, status'[v] = "success"
          PROVE  status[v] = "success"
      BY <3>1, <3>2, <3>3
    <3> QED
      BY <3>1, <3>2, <3>3 DEF Ready
  <2> QED
    BY <2>1, <2>2, <2>3
<1>4. NoCompletionMissed'
  BY <1>1, <1>3 DEF Caught, NoCompletionMissed
<1> QED
  BY <1>2, <1>4 DEF Caught

\* A new run is in progress or skipped, a failing one failed; people leave a
\* pull request behind wherever they change anything.
LEMMA OtherCaught ==
    ASSUME Inv, Caught,
           WorkflowRun \/ OtherWorkflowRun \/ StepFails \/ Merge \/ Close
             \/ MainMoves
    PROVE  Caught'
<1>1. CASE WorkflowRun \/ OtherWorkflowRun \/ StepFails
  <2>1. UNCHANGED <<pr, main>>
    BY <1>1 DEF WorkflowRun, OtherWorkflowRun, StepFails, outside
  <2>2. run'.stage \in {"gate", "failed", "skipped"}
    <3>1. CASE WorkflowRun \/ OtherWorkflowRun
      BY <3>1, NoTypes, Zenon DEF WorkflowRun, OtherWorkflowRun
    <3>2. CASE StepFails
      <4>1. [run EXCEPT !.stage = "failed"].stage = "failed"
        BY StageOnly
      <4> QED
        BY <3>2, <4>1, NoTypes DEF StepFails, Continue, Steps
    <3> QED
      BY <1>1, <3>1, <3>2
  <2> QED
    BY <2>1, <2>2
    DEF Caught, NoCompletionMissed, MergedByPullRequest, Steps
<1>2. CASE Merge \/ Close \/ MainMoves
  <2>1. UNCHANGED <<changed, status, events, run>>
    BY <1>2 DEF Merge, Close, MainMoves
  <2>2. pr.state # "none" => pr'.state # "none"
    BY <1>2 DEF Merge, Close, MainMoves
  <2>3. main' \in Foreign \/ main' = main \/ pr'.state # "none"
    BY <1>2 DEF Merge, Close, MainMoves
  <2> QED
    BY <2>1, <2>2, <2>3
    DEF Caught, NoCompletionMissed, MergedByPullRequest, Ready, Required
<1> QED
  BY <1>1, <1>2

\* A run ends as successful when the gate is closed, when its digests are on
\* main, or with its pull request.
LEMMA PromoteCaught ==
    ASSUME Inv, Caught, Promote
    PROVE  Caught'
<1>1. /\ UNCHANGED <<changed, status, events, main>>
      /\ pr.state # "none" => pr'.state # "none"
  BY DEF Promote, VerifyPromotionGates, ResolveDigest, UpdateImageDigests,
         PushGitOpsBranch, CreatePullRequest, Continue, outside
<1>2. MergedByPullRequest'
  BY <1>1 DEF Caught, MergedByPullRequest
<1>3. Ready' <=> Ready
  BY <1>1 DEF Ready, Required
<1>4. ASSUME NEW r, Continue(r)
      PROVE  run'.stage = r.stage
  <2>1. run' = r \/ run' = [NoRun EXCEPT !.stage = r.stage]
    BY <1>4 DEF Continue
  <2>2. ASSUME NEW s
        PROVE  [NoRun EXCEPT !.stage = s].stage = s
    BY DEF NoRun
  <2> QED
    BY <2>1, <2>2, Zenon
<1>5. "Release Images" \in changed /\ Ready =>
        \/ run'.stage \in Steps \cup {"failed"}
        \/ pr'.state # "none"
  <2> SUFFICES ASSUME "Release Images" \in changed, Ready
               PROVE  run'.stage \in Steps \cup {"failed"} \/ pr'.state # "none"
    OBVIOUS
  <2>1. CASE VerifyPromotionGates
    <3>1. AfterGate(Decision) = "operator"
      BY DEF AfterGate, Decision, Ready
    <3>2. [run EXCEPT !.stage = "operator"].stage = "operator"
      BY StageOnly DEF Steps
    <3> QED
      BY <1>4, <2>1, <3>1, <3>2 DEF VerifyPromotionGates, Steps
  <2>2. CASE ResolveDigest("operator", "api") \/ ResolveDigest("api", "update")
    <3>1. ASSUME NEW i, NEW next \in {"api", "update"}, ResolveDigest(i, next)
          PROVE  run'.stage \in Steps
      <4> DEFINE r == [run EXCEPT !.stage = next,
                                  !.digests = [@ EXCEPT ![i] = tag[i]]]
      <4>1. r.stage = next
        BY DEF Inv, Types, RunType
      <4>2. Continue(r)
        BY <3>1 DEF ResolveDigest
      <4> QED
        BY <1>4, <4>1, <4>2 DEF Steps
    <3> QED
      BY <2>2, <3>1
  <2>3. CASE UpdateImageDigests
    <3>1. main = run.digests => pr.state # "none"
      BY <2>3, OwnDigests DEF UpdateImageDigests, Caught, MergedByPullRequest
    <3>2. CASE main # run.digests
      <4> DEFINE r == [run EXCEPT !.stage = "push", !.base = main]
      <4>1. r.stage = "push"
        BY DEF Inv, Types, RunType
      <4>2. Continue(r)
        BY <2>3, <3>2 DEF UpdateImageDigests
      <4> QED
        BY <1>4, <4>1, <4>2 DEF Steps
    <3> QED
      BY <1>1, <3>1, <3>2
  <2>4. CASE PushGitOpsBranch
    <3>1. /\ [run EXCEPT !.stage = "failed"].stage = "failed"
          /\ [run EXCEPT !.stage = "open"].stage = "open"
      BY StageOnly DEF Steps
    <3> QED
      BY <1>4, <2>4, <3>1 DEF PushGitOpsBranch, Steps
  <2>5. CASE CreatePullRequest
    <3>1. [run EXCEPT !.stage = "failed"].stage = "failed"
      BY StageOnly
    <3>2. pr' = [state |-> "open", body |-> run.digests]
          \/ Continue([run EXCEPT !.stage = "failed"])
      BY <2>5 DEF CreatePullRequest
    <3>3. [state |-> "open", body |-> run.digests].state = "open"
      OBVIOUS
    <3> QED
      BY <1>4, <3>1, <3>2, <3>3
  <2> QED
    BY <2>1, <2>2, <2>3, <2>4, <2>5 DEF Promote
<1>6. NoCompletionMissed'
  BY <1>1, <1>3, <1>5 DEF NoCompletionMissed
<1> QED
  BY <1>2, <1>6 DEF Caught

\* The safety part of ReadyIsNotForgotten: the promotion does not come to a
\* stop over a commit that is ready, without a pull request or a run that
\* shows why there is none.
THEOREM EveryCompletionCounts == Spec => []NoCompletionMissed
<1>1. Init => Caught
  <2> SUFFICES ASSUME Init PROVE Caught
    OBVIOUS
  <2>1. "Release Images" \in changed => ~Ready
    BY DEF Init, Ready, Required, Workflows
  <2>2. main \in Foreign
    BY DigestTypes DEF Init
  <2> QED
    BY <2>1, <2>2 DEF Caught, NoCompletionMissed, MergedByPullRequest
<1>2. Inv /\ Caught /\ [Next]_vars => Caught'
  <2> SUFFICES ASSUME Inv, Caught, [Next]_vars PROVE Caught'
    OBVIOUS
  <2>1. CASE UNCHANGED vars
    BY <2>1 DEF vars, Caught, NoCompletionMissed, MergedByPullRequest, Ready,
                Required
  <2>2. CASE Next
    BY <2>2, WorkflowCaught, OtherCaught, PromoteCaught DEF Next
  <2> QED
    BY <2>1, <2>2
<1> QED
  BY <1>1, <1>2, Invariance, PTL DEF Spec, Caught

================================================================================
