# Verification of the AI platform operator

TLA+ models of the two programs of this repository and of the workflow that
promotes their images, checked with TLC on small instances and, where it says
so, proved with TLAPS for every instance.

## 1. The system

| Part | Source | State | Operations |
|---|---|---|---|
| `ModelService` resource (CRD) | `api/v1alpha1`, `config/crd` | spec, status, metadata | defaulting, schema and CEL validation, immutability of `backend` |
| Platform REST API, mutations | `internal/api/handlers`, `validation`, `request`, `kubernetes` | none of its own: read, decide, write per request | POST, PUT, PATCH, DELETE |
| Platform REST API, reads | `internal/api/handlers` | none | list, get, status, health, readiness |
| HTTP pipeline | `internal/api/middleware`, `auth`, `routes.go` | request identity, audit log, metrics | authenticate, authorize, audit, log, measure |
| API server process | `cmd/platform-api`, `internal/api/config`, `auth` | configuration; discovering, listening, draining | load the environment, discover the issuer, serve, graceful shutdown |
| Operator, Deployment backend | `internal/controller/modelservice_controller.go` | informer caches, work queue | reconcile ServiceAccount, Deployment, Service, PVC, PDB, NetworkPolicy, HTTPRoute, status |
| Operator, KServe backend | `internal/controller/modelservice_kserve_controller.go` | as above | apply InferenceService, map its status |
| Operator process | `cmd/main.go` | leader lease | start, leader election |
| Promotion pipeline | `.github/workflows/promote-gitops.yml` | image tags; branch and pull request in the GitOps repository | gate, look up digests, push, open pull request |

The API writes ModelServices; the operator reads them through a lagging cache,
maintains the children they own and writes their status; Argo CD and kubectl
write ModelServices and children behind the back of both.

What is hard about it:

* a handler reads, decides and writes in separate steps while others write;
* the two-second client timeout may expire after a write was applied;
* the Go client's `omitempty` encoding and the CRD defaults change values;
* the reconciler acts on cached, possibly stale objects, and is interrupted by
  errors and crashes between any two of its steps;
* children may be deleted, recreated or taken over by others;
* the issuer of the tokens may never answer, at the start or later;
* a new completion cancels the promotion of the same commit wherever it is, and
  workflows, tags, branches and pull requests change between its steps.

## 2. The modules

```
ModelServiceSpec     a spec, its encoding, defaulting and validation
  ApiRequests        request bodies, their validation and conversion
    AtomicModelService   what the API promises (abstract)
    RestApi              the handlers                   RestApiProofs   MCRestApi
                                                          RestApiRefinement, RestApiReads
  Rendering          the children a spec asks for
    Reconciler           the operator                   ReconcilerProofs MCReconciler
                                                          ReconcilerRest
  SharedModelService what API and operator rely on in each other (abstract)
HandlerAnswers       the status codes of a mutation
  MutatingHandler    a mutating handler seen from outside (abstract)
ApiConfig            the environment and config.Load
  ApiServer          process and wrappers of the API    ApiServerProofs MCApiServer
Promotion            the promotion of one commit        PromotionProofs MCPromotion
```

| Module | Models | State | Actions |
|---|---|---|---|
| `ModelServiceSpec` | Go struct to stored object: `omitempty`, CRD defaults, schema, CEL rules | - | operators `Store`, `CRDValid`, `CRDTransition` |
| `ApiRequests` | `validation/modelservice.go`, `request/*.go`, the conversions in the handlers: bodies to specs, specs to the answers of get, list and status | - | operators named after the functions |
| `AtomicModelService` | the promise of the API: one instant per effective request | the object, the requests that took effect | one per operation |
| `RestApi` | POST, PUT, PATCH and DELETE from body to status code, `ModelServiceStore` and the API server behind it | the stored object with its life (free, held by a finalizer, being deleted); per request its step, snapshot, wanted spec, the fate of its call and its answer | one per handler step (`Receive*`, `Load*`, `Reply`, `LoadFailed`, `WriteTimeout`), per API server operation (`Execute*`), per outside writer, and the crash of the process |
| `Rendering` | the `...ForModelService` functions and the desired content of every child | - | operators named after the functions |
| `Reconciler` | `Reconcile` for both backends, informer caches, work queue, garbage collection | versions of the ModelService and of each child (first: cached, last: stored), the step of the pass and its copy of the object, the queue | one per child of a pass, the two status updates, cache delivery, collection, edits, meddling and faults |
| `SharedModelService` | the stored ModelService and who may change what of it | UID, generation, acknowledged generation, spec; the last UID given | users create, change and remove the desired state, the operator acknowledges its generation |
| `HandlerAnswers` | the codes the mutating handlers may answer with, by what has become of their call | - | operators `SuccessCode`, `RejectCodes`, `AnswerCodes` |
| `MutatingHandler` | what the HTTP pipeline may rely on in a mutating handler, whatever it reads and decides | per request its stage, method, call and code | begin, send the call, the API server handles it, answer, exit of the process |
| `ApiConfig` | `config.Load`: fallbacks, trimming, parsing, validation | - | operators named after the functions |
| `ApiServer` | `cmd/platform-api/main.go`, `routes.go`, `middleware`, `auth`, the readers | the stage of the process and its configuration, per request its stage, identity, call, code and audit record, the gauge | start, discovery of the issuer, liveness probe, signal, draining, forced close, crash; one per wrapper and handler |
| `Promotion` | `promote-gitops.yml` and the workflows it waits for, as far as it sees them | results of the workflows, pending events, tags, the run with what it looked up, branch, pull request and main of the GitOps repository | one per step of the workflow, per event, per release, and per act of the people who repeat, merge and close |

The composition goes along interfaces, each stated in a module of its own that
both sides are proved to implement.

* `RestApi` and `Reconciler` meet in the stored ModelService. For `RestApi` the
  operator is the writer `OperatorStatus`, for `Reconciler` the API is one of
  those who create, edit and delete. `SharedModelService` says what each may do,
  and `KeepsItsPart`, in both modules, that the detailed side does no more, nor
  the few steps that stand for the other side.
* `ApiServer` and `RestApi` meet in the mutating handler, which `ApiServer` knows
  only by its call and its status code. `RestApi` implements `MutatingHandler`
  from inside (`KeepsToOutline`), so what `ApiServer` assumes of the handlers is
  what they do; and the whole server, wrappers, shutdowns and restarts included,
  implements it as well towards the client (`ClientsSeeOutline`). In turn
  `RestApi` assumes of its constants (a replica limit, a listener) what
  `ServesConfigured` says of a process that handles requests.
* `Promotion` meets the others only through images, and stands alone.

Abstractions that matter:

* A request body, image, hostname, size or path is a member of a small set.
  Resources, health and labels are left out: no rule tells their values apart.
  What the API accepts and what the CRD accepts are separate sets
  (`ValidHostnames` and `CRDHostnames`, for instance), as the code of the one and
  the schema of the other say.
* `Reconciler`: a cached read and the write that follows it are one step. The
  write succeeds exactly when the cached version is the stored one, and `Abort`
  gives every step the chance to fail, so an interleaving between read and
  write leads to the same states. A live read is a step of its own.
* `Reconciler`: a write whose answer is lost is the write followed by `Abort`;
  the pvc-protection finalizer is ignored (a claim goes at
  once). An unrelated child of the same name has the content `Foreign`, which an
  update may replace, or, for a Deployment or a claim, `Unrelated`: its selector
  or size is not the one asked for and cannot be changed, so every update of it
  is refused until it is deleted.
* `Reconciler`: of the status of an InferenceService there is what
  `updateModelServiceStatusFromInferenceService` tells apart: the Ready
  condition, whether its reason contains one of the words of
  `kserveConditionFailed`, whether the target model failed to load or blocks the
  transition, and whether there is a URL.
* `RestApi`: finalizers of the ModelService are one field, `life`. A DELETE of a
  held object sets the deletion timestamp and is answered 204; the object stays,
  readable and listed as Deleting, until the finalizer is removed, and nothing
  revokes the deletion. Foreground deletion holds the object in the same way.
* `ApiRequests`: an image may be blank without being empty (`Blanks`), which
  `TrimSpace` makes the same to the validation.
* `ApiServer`: a panic that `net/http` recovers is left out (no handler panics
  on purpose); the audit record and the final bookkeeping are two steps, so that
  the process may die between them.
* `ApiConfig`: a value of the environment is a member of `Strings`, and
  `TrimSpace`, `ToLower` and `Atoi` are functions on it given as constants; the
  proof holds for all of them. The texts of the fallbacks are one value.
* `Promotion` is about one commit. Other commits appear as moves of the GitOps
  main branch. The required checks are alike. The gate reads all results in one
  step, an image built again has a new digest, and no event is lost. A run that
  is cancelled with a call in flight is one cancelled before or after the call.

## 3. The runs

Passing runs:

| Run | Instance | Checks | Shows |
|---|---|---|---|
| `rest_api` | 2 requests, 3 resource versions, 5 POST, 2 PUT, 5 PATCH bodies | `TypeOK`, `AnswerTellsEffect`, `LateRefusalsExplained`, `MutationsRespectGitOps`, `WritesWhatItInspected`, `PatchKeepsOtherFields`, `ReadsShowWrites`, `RetriesAreHarmless`, `ImplementsAtomic` | each request behaves as one atomic operation on an object that nobody manages through GitOps, takes effect at most once, its status code tells what is known of it, the CRD refuses only what the validation does not look at, readers are shown what was sent, and a PUT or PATCH sent again after it was applied changes nothing |
| `rest_api_live` | 2 requests, 2 resource versions | `EveryRequestAnswered`, `KeepsToOutline`, `KeepsItsPart` | a handler never hangs on a silent API server, keeps to the outline that `ApiServer` has in its place, and leaves the status to the operator |
| `reconciler` | Deployment and claim, 2 incarnations, 4 outside steps | `TypeOK`, `StatusDescribesSpec`, `NothingForgotten`, `OverwritesNoStranger`, `ClaimOutlivesMount`, `RestIsKept`, `KeepsItsPart`, `Converges` | status, ownership and the order of claim and mount are right in every interleaving; no wake-up is lost, a settled cluster is left alone, and the cluster settles; the operator's writes of the whole object change the status only |
| `reconciler_blocked` | Deployment, claim, route; specs that cannot be completed; 3 outside steps | `StatusDescribesSpec`, `RestIsKept`, `Converges` | a pass that is blocked still does what precedes the obstacle, acknowledges nothing and is tried again |
| `reconciler_policies` | service account, Deployment, budget, network policy, 2 outside steps | `Converges` | optional children follow the spec in both directions |
| `reconciler_backends` | Deployment, Service, InferenceService; both backends, 2 incarnations, foreground deletion, 3 outside steps | `StatusDescribesSpec`, `Converges` | a name reused for the other backend settles, the children of the old one are collected |
| `api_server` | 2 requests out of 16 inputs, 2 starts, 4 environments | `TypeOK`, `GaugeIsExact`, `CallsAreAuthorized`, `AuditTellsEffect`, `ServesConfigured`, `ClientsSeeOutline`, `StartEnds`, `ShutdownEnds`, `IdentifiedRequestsEnd` | wrappers and process agree on every request across shutdowns and crashes; nothing is served under an unusable configuration; the client of a mutation sees one call at most and an answer that fits it; starts and shutdowns end although the issuer is silent |
| `promotion` | one check, two releases, 2 outside steps | `TypeOK`, `PromotesOnlyGated`, `BodyNamesBranch`, `NoCompletionMissed`, `ReadyIsNotForgotten` | nothing is proposed before the gate stood open, a pull request does what it says, and a commit that is ready is proposed or its last run shows why not |

The systems may stop for good (all requests answered, no outside step left), so
deadlock is not checked; that they do not stop too early is what the liveness
properties say.

The safety properties of the operator are checked once, in `reconciler`, and in
the other instances where the instance adds a case; the proofs cover the rest of
the kinds and specs.

Bounds and why they suffice:

* two requests: every property of `RestApi` relates a request to the object or
  to one other writer, and kubectl, Argo CD and the operator write as well;
* three resource versions: read, overtaken by another writer, overtaken again;
* `MaxOutside` counts the steps of users, workloads and faults. Every hazard of
  the reconciler needs at most three after the creation of the ModelService
  (edit, meddle, restart); the operator's own steps are not counted;
* `MaxLag` bounds only the garbage collector, so that the sequences of versions
  stay finite while collector and operator alternate;
* `MaxUid` = 2: an object and its successor of the same name;
* `MaxStarts` = 2: a process and its successor;
* the environments of `api_server`: one that is accepted after trimming and
  lower-casing, and one for each reason to refuse;
* `Promotion`: `MaxOutside` counts repeated workflows, other completions of the
  same commit, merges, closings, and moves of main. Two of them put any such
  event before and after any other; the steps of the workflow, their failures
  and the first completions are not counted.

Runs that show a disagreement between code and documentation:

| Run | Property | What happens |
|---|---|---|
| `patch_defaults` | `PatchTouchesOnlyRequestedFields` | kubectl stores `runAsNonRoot: false`; a PATCH of `replicas` reads it into a Go struct whose `omitempty` drops the false, and the CRD default true is stored (`patch_modelservice.go:331`) |
| `deletes_foreign` | `DeletesOnlyOwn` | the ownership check is made on the cached claim, the delete has no precondition (`modelservice_controller.go:637`) |
| `adopts_route` | `SparesUnownedRoute` | an HTTPRoute without controller is taken over (`modelservice_controller.go:1073`) |
| `stale_ready` | `ReadyIsAboutLatestSpec` | the status says Ready for the new generation from replica counts of the old template (`modelservice_controller.go:1219`) |

Read in the source, without a run:

* `docs/rest-api/06` expects 404 for a missing target, and a PUT or PATCH whose
  object disappears between Get and Update is answered 409: the Update carries
  the UID that was read, which makes its refusal a Conflict
  (`update_modelservice.go:276`, `ExecuteUpdate` in `RestApi`);
* a PUT with exposure disabled leaves the gateway fields to the CRD defaults, and
  a PATCH that enables exposure keeps them instead of the configured listener
  (`update_modelservice.go:374`, `applyExposurePatch` in `ApiRequests`);
* a completion that is no push to main (a manual run, a branch at the same
  commit) cancels the promotion in progress and is itself skipped
  (`promote-gitops.yml:37`): the commit stays unpromoted until another
  completion. `ReadyIsNotForgotten` admits it, as the last run says "skipped";
* a repeated release may move a tag between the gate and the lookup of the
  digests: what is promoted then is the later build of the same commit, and
  `BodyNamesBranch` still holds;
* nothing compares commits: an older one may be proposed after a newer one.

## 4. Fairness

* `RestApi`: weak fairness of each handler. The goroutine is scheduled, and its
  client gives up on the API server after two seconds (`client.go:32`). Nothing
  is assumed of the API server, of other writers or of clients.
* `Reconciler`: weak fairness of the operator's steps, of cache delivery and of
  the garbage collector. A failed pass is requeued by controller-runtime,
  informers relist after a broken watch. Outside steps have none. After the
  last of them the cluster settles and the operator rests (`Converges`).
* `ApiServer`: weak fairness of the wrappers and handlers, and of the end of
  `Shutdown`, which has a timer. Discovery of the issuer has no timeout of its
  own; the kubelet's liveness probe ends a process that does not listen
  (`config/platform-api/deployment.yaml:107`). None of `Verify`: the HTTP client that fetches
  the issuer's keys has no timeout (`verifier.go:123`), so a request may wait in
  it; therefore `IdentifiedRequestsEnd` starts behind it, and `ShutdownEnds`
  rests on the timeout of `Shutdown`.
* `Promotion`: GitHub starts a run for every completion and carries out its
  steps, each of which may fail. Workflows need not complete and people need not
  act.

## 5. The proofs

For every value of the constants that satisfies the assumptions in the modules
(types of the inputs; CRD-valid specs; finitely many requests in `ApiServer`;
for `Promotion`, that Release Images is a release and no check), TLAPS proves:

| Theorem | Module | States |
|---|---|---|
| `TypeCorrectness`, `TypeCorrect` | `RestApiProofs`, `ReconcilerProofs`, `ApiServerProofs`; `PromotionProofs` | the type invariant |
| `AnswersAreTruthful` | `RestApiProofs` | `AnswerTellsEffect` |
| `ValidationCoversAdmission` | `RestApiProofs` | `LateRefusalsExplained` |
| `GitOpsRespected` | `RestApiProofs` | `MutationsRespectGitOps` |
| `NoLostUpdate` | `RestApiProofs` | `WritesWhatItInspected` |
| `Refinement` | `RestApiRefinement` | `ImplementsAtomic` |
| `HandlersKeepToOutline` | `RestApiRefinement` | `KeepsToOutline` |
| `PartsKept` | `RestApiRefinement`, `ReconcilerProofs` | `KeepsItsPart` of each |
| `ReadYourWrites` | `RestApiReads` | `ReadsShowWrites` |
| `PatchLeavesTheRest` | `RestApiReads` | `PatchKeepsOtherFields` |
| `RetriesHarmless` | `RestApiReads` | `RetriesAreHarmless` |
| `StatusIsTruthful` | `ReconcilerProofs` | `StatusDescribesSpec` |
| `StrangersAreSafe` | `ReconcilerProofs` | `OverwritesNoStranger` |
| `MountedClaimsAreSafe` | `ReconcilerProofs` | `ClaimOutlivesMount` |
| `NoLostWakeUp` | `ReconcilerRest` | `NothingForgotten` |
| `ReconcileIsIdempotent` | `ReconcilerRest` | `RestIsKept` |
| `QuietIsRest` | `ReconcilerRest` | an operator with nothing to do is at rest once orphans are collected |
| `GaugeIsRight` | `ApiServerProofs` | `GaugeIsExact` |
| `OnlyAuthorizedCalls` | `ApiServerProofs` | `CallsAreAuthorized` |
| `AuditIsTruthful` | `ApiServerProofs` | `AuditTellsEffect` |
| `ConfigurationIsUsable` | `ApiServerProofs` | `ServesConfigured` |
| `ClientsSeeHandlers` | `ApiServerProofs` | `ClientsSeeOutline` |
| `GateComesFirst` | `PromotionProofs` | `PromotesOnlyGated` |
| `PullRequestIsTruthful` | `PromotionProofs` | `BodyNamesBranch` |
| `EveryCompletionCounts` | `PromotionProofs` | `NoCompletionMissed` |

Each rests on an inductive invariant `Inv`, with one lemma per group of actions:

* `RestApi`. A sent write carries what its body asks for, computed on the
  snapshot; a snapshot that bears the current resourceVersion *is* the current
  object; the target of an effective DELETE is being deleted or gone for good,
  because nothing revokes a deletion and UIDs are not reused. The second is what turns the precondition of the API server into "the
  object was not GitOps-managed when the write was applied": the handler checked
  the snapshot, and the snapshot is the object. The stored spec is always
  admitted by the CRD, and so is what a handler sends, except for the fields
  `Unvalidated` names: each rule of the schema is derived from the handler's
  validation of the body and, for PUT and PATCH, from the spec the body is laid
  over, through encoding and defaulting. A refusal after validation is
  therefore one of those fields.
* `RestApiRefinement` needs no further invariant for `ImplementsAtomic`. The two modules share
  `ApiRequests`, so the abstract operators are first shown equal to the concrete
  ones; then every action maps to a stutter, except the API server's execution
  of a call, which is the abstract operation, and the outside writers. For
  `MutatingHandler` a step of a handler maps to `Begin`, `SendCall` or `Answer`,
  an outcome to `ServerHandles`, a crash to `Exit`, a lost call and the outside
  writers to a stutter. What is to be shown is that each status code is among those that fit the
  call, and that an idle request has no method yet. For `SharedModelService` the
  invariant is strengthened by `AbsentClean`: an object that is gone leaves
  neither generation nor status behind for the next one of its name.
* `RestApiReads` follows a body through conversion, encoding, defaulting and the
  conversion back, field by field: a value a validated body may hold is either
  kept by `omitempty` and the defaults or is the default itself. A retry meets
  the stored spec: the body is completed from it, passes the validation it
  passed before, since defaults fill only what it left open, and laid over that
  spec gives the same one.
* `Reconciler`. Every version ever cached or stored is well-formed and its
  status fits its spec; while `fresh`, the copy of the pass is the stored
  object; and `OnTrack` records what the steps behind the pass have established:
  the backend, that the children passed could be rendered, and that a Deployment
  already written does not mount a claim that is not wanted. Without the last,
  a deletion of the claim could not be justified from the step alone.
  `KeepsItsPart` comes from `fresh`, which is what the resourceVersion of the
  status write tests: the whole object is sent, and it is the stored one but for
  the status. `GoneIsClean` is the counterpart of `AbsentClean`.
* `ReconcilerRest`. `NothingForgotten` is about quiet states only, and says
  nothing of the passes between them. The inductive `Accounted` says where the reminder
  of unfinished work is while the operator is busy. Unless the name is queued or
  a version of the ModelService is undelivered (`Due`), a pass under way works
  on the stored object, and each child of the spec is done, or has an undelivered
  version whose watch will queue the name, or is still ahead of the pass; the
  same for the status and for the workload status the pass has seen. It breaks
  where a reminder could be lost: a child whose controller is not the
  ModelService wakes nobody when it goes, which is why an obstacle must fail the
  pass and so put the name back. `RestIsKept` takes each step of a pass from
  `AtRest`: the rendered child equals the stored one, so the update has no
  effect and no watch fires, and `Passed` tells what the status may be computed
  from.
* `ApiServer`. `GoodRequest` says of a request what the wrappers it has passed
  established: no call before an identity with the role, the code of an answered
  mutation fits its call, the audit outcome is that of the code. An outstanding
  call therefore belongs to a request answered 503, and its later application
  contradicts no record. The gauge is proved with the cardinality theorems.
  `Configured` says that whatever is past `config.Load` passed its validation.
  For `ClientsSeeOutline` an answer maps to the moment it is flushed, behind the
  audit log and the metrics; `AnswersFit` carries the fit of code and call from
  the handler to there, over whatever the API server does meanwhile.
* `Promotion`. A run past the gate belongs to a commit that was ready at one
  moment; a run about to open its pull request finds on the branch its own
  digests or no branch, because a push to an existing branch fails. The digests
  of a run past a lookup are those of pushed images. `NoCompletionMissed` needs
  one more fact: a run that finds its digests on main ends without a pull
  request, and they are there only because an earlier pull request was merged.

Only model-checked: the liveness properties (`EveryRequestAnswered`,
`Converges`, `StartEnds`, `ShutdownEnds`, `IdentifiedRequestsEnd`,
`ReadyIsNotForgotten`), which need fairness and are out of the prover's reach.
Of `Converges` the safety part is proved: the operator stops nowhere but in the
desired state (`NoLostWakeUp`), and does not leave it by itself
(`ReconcileIsIdempotent`); that it gets there is checked by TLC. In the same way
`EveryCompletionCounts` is the safety part of `ReadyIsNotForgotten`.
Every safety property of a passing run is also a theorem.

## 6. Not modelled

* The operator process (`cmd/main.go`): flags and manager wiring are calls of
  controller-runtime; its death and restart are in `Reconciler`. Two operators
  that overlap when a lease is lost are not: a second set of caches and a second
  work queue square the state space. Updates are protected by resourceVersions
  and creations by names, so what a late call could still do is delete, which
  `deletes_foreign` shows for one operator already.
* API and operator on one ModelService, from POST to Ready, in one module: the
  two share nothing but the stored object, and both are proved to implement
  `SharedModelService` (section 2).
* The other workflows and the scripts: straight-line calls of external tools.
  The manifests and the configuration of Keycloak, Vault and monitoring are
  declarations for other systems. Generated code and the training programs have
  no state that two parties share.
* The text of responses, conditions, pull requests and log lines; labels,
  resources and health settings; request ids, histograms and connection
  timeouts; signatures and claims of tokens, which the go-oidc library checks.

Known limits:

* while a ModelService is deleted in the foreground, the operator may recreate
  children that the collector deletes. That such a deletion ends would need
  scheduling that neither side gives, so `Converges` leaves the children of such
  an object out;
* an applied write whose process dies before `AuditLogging` returns has no
  audit record; `AuditTellsEffect` is about requests that got past it;
* `Promotion` has one commit, and leaves the order of commits to the people who
  merge.
