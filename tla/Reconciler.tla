------------------------------ MODULE Reconciler ------------------------------
(***************************************************************************)
(* The operator's reconcile loop for one ModelService name, the API server *)
(* it reads from and writes to, and everyone else who does the same.       *)
(*                                                                         *)
(* The operator reads through informer caches that lag behind the API      *)
(* server, each on its own.  A watched object is therefore a sequence of   *)
(* versions: the first is what the operator's cache holds, the last what   *)
(* the API server stores, and Deliver hands the operator the next one.     *)
(* The cache is current exactly when the sequence has one element, and     *)
(* only then does a write that carries the cached resourceVersion succeed. *)
(*                                                                         *)
(* A pass of Reconcile works on the copy of the ModelService it read at    *)
(* its start and takes one step per child and one for the status; anything *)
(* may happen between two steps.  One worker handles the name at a time.   *)
(***************************************************************************)
EXTENDS Rendering, Sequences

CONSTANTS
    Kinds,        \* the kinds of children this instance has
    Specs,        \* the stored specs that users apply
    Growth,       \* pairs of claim sizes the storage class can grow between
    ReadyCounts,  \* replica counts the Deployment controller reports
    Propagation,  \* how a ModelService is deleted: Background, Foreground
    MaxUid,       \* bound: incarnations of the ModelService
    MaxLag,       \* bound: undelivered versions when the collector acts
    MaxOutside    \* bound: steps of users, workloads and faults

ASSUME ReconcilerConstants ==
    /\ Kinds \subseteq AllKinds
    /\ \A s \in Specs :
         /\ s \in SpecType
         /\ CRDValid(s)
         /\ (IF backendForModelService(s) = "KServe" THEN "InferenceService"
             ELSE "Deployment") \in Kinds
    /\ ReadyCounts \subseteq Nat
    /\ Propagation \subseteq {"Background", "Foreground"}
    /\ MaxUid \in Nat
    /\ MaxLag \in Nat
    /\ MaxOutside \in Nat

VARIABLES
    ms,      \* versions of the ModelService, cached to stored
    child,   \* for each kind, versions of the child, cached to stored
    pc,      \* the step of the current pass, or idle
    obj,     \* the ModelService the pass works on
    fresh,   \* whether obj is still the version the API server stores
    seen,    \* workload status in the last Deployment or InferenceService response
    queued,  \* whether the name waits in the work queue
    uids,    \* the last UID given to a ModelService
    budget   \* outside steps left

vars == <<ms, child, pc, obj, fresh, seen, queued, uids, budget>>

Last(versions) == versions[Len(versions)]

(***************************************************************************)
(* The objects                                                             *)
(***************************************************************************)

\* Who controls a child: nobody, the ModelService with that UID, or another
\* controller.
NoOwner == 0
Stranger == -1

\* What somebody other than the operator puts into a child: something else
\* where it may be changed (Foreign), or where it may not (Unrelated).
Foreign == [foreign |-> TRUE]
Unrelated == [unrelated |-> TRUE]

\* The kinds with a part that is fixed when the object is created: the
\* selector of a Deployment, the size of a claim as its lower bound.
Fixed == {"Deployment", "PersistentVolumeClaim"}

Contents == {Foreign, Unrelated} \cup {Desired(k, s) : k \in Kinds, s \in Specs}

\* The status of a Deployment (its replica counts and a rollout that exceeded
\* its progress deadline) or of an InferenceService (its Ready condition with
\* the reason, the state of its model, its URL), and the content it was
\* computed from.  A reason is "failure" when it says failed, error or invalid.
Conditions == {"absent", "True", "False", "Unknown"}
Reasons == {Empty, "failure"}
TargetStates == {Empty, "FailedToLoad"}
Transitions == {Empty, "BlockedByFailedLoad"}

WorkloadStatus ==
    [of : Contents, readyReplicas : Nat, availableReplicas : Nat,
     deadlineExceeded : BOOLEAN, ready : Conditions, reason : Reasons,
     targetModelState : TargetStates, transitionStatus : Transitions,
     url : {Empty, "url"}]

NoWorkload ==
    [of |-> Foreign, readyReplicas |-> 0, availableReplicas |-> 0,
     deadlineExceeded |-> FALSE, ready |-> "absent", reason |-> Empty,
     targetModelState |-> Empty, transitionStatus |-> Empty, url |-> Empty]

Child == [exists : BOOLEAN, owner : Int, content : Contents,
          status : WorkloadStatus]

NoChild == [exists |-> FALSE, owner |-> NoOwner, content |-> Foreign,
            status |-> NoWorkload]

Phases == {Empty, "Provisioning", "Ready", "Degraded", "Failed"}

StatusType ==
    [observedGeneration : Nat, phase : Phases, readyReplicas : Nat,
     endpoint : [host : {Empty, "url", "Service"}, port : Int]]

NoStatus == [observedGeneration |-> 0, phase |-> Empty, readyReplicas |-> 0,
             endpoint |-> [host |-> Empty, port |-> 0]]

ServiceType == [uid : Nat, generation : Nat, spec : Specs \cup {NoSpec},
                status : StatusType, deleting : BOOLEAN]

NoService == [uid |-> 0, generation |-> 0, spec |-> NoSpec,
              status |-> NoStatus, deleting |-> FALSE]

Exists(m) == m.uid # 0

\* The children a spec makes the operator visit.
KindsOf(spec) ==
    IF backendForModelService(spec) = "KServe" THEN {"InferenceService"}
    ELSE Kinds \ {"InferenceService"}

Steps == {"idle", "status", "read", "inferenceStatus"} \cup Kinds

Init ==
    /\ ms = <<NoService>>
    /\ child = [k \in Kinds |-> <<NoChild>>]
    /\ pc = "idle"
    /\ obj = NoService
    /\ fresh = FALSE
    /\ seen = NoWorkload
    /\ queued = FALSE
    /\ uids = 0
    /\ budget = MaxOutside

(***************************************************************************)
(* A pass                                                                  *)
(***************************************************************************)

\* The API server stores a new version of the ModelService.
StoreService(m) ==
    /\ ms' = Append(ms, m)
    /\ fresh' = FALSE

\* The API server stores c; storing what is there already changes nothing.
StoreChild(k, c) ==
    child' = IF c = Last(child[k]) THEN child
             ELSE [child EXCEPT ![k] = Append(@, c)]

\* The pass ends; an error puts the name back into the queue.
Leave(failed) ==
    /\ pc' = "idle"
    /\ obj' = NoService
    /\ fresh' = FALSE
    /\ seen' = NoWorkload
    /\ queued' = (queued \/ failed)

\* Mutant: an error is swallowed instead of being returned.
FailSilently ==
    /\ Leave(FALSE)
    /\ UNCHANGED <<ms, child, uids, budget>>

\* A step returns an error: the pass ends and nothing after it is done.
Fail ==
    /\ Leave(TRUE)
    /\ UNCHANGED <<ms, child, uids, budget>>

Position(k) == CHOOSE i \in DOMAIN ReconcileOrder : ReconcileOrder[i] = k

\* The step after position i: the next child, or the status after the last.
StepAfter(i) ==
    LET later == {j \in DOMAIN ReconcileOrder :
                      j > i /\ ReconcileOrder[j] \in Kinds}
    IN IF later = {} THEN "status"
       ELSE ReconcileOrder[CHOOSE j \in later : \A l \in later : j <= l]

\* The pass goes on, having seen the workload status w.
Proceed(k, w) ==
    /\ pc' = IF k = "InferenceService" THEN "read"
             ELSE StepAfter(Position(k))
    /\ seen' = w
    /\ UNCHANGED <<ms, obj, fresh, queued, uids, budget>>

\* A worker takes the name from the queue and reads the cached ModelService.
\* One that is gone is left to the garbage collector.
Reconcile ==
    /\ pc = "idle"
    /\ queued
    /\ queued' = FALSE
    /\ IF Exists(Head(ms))
       THEN /\ obj' = Head(ms)
            /\ fresh' = (Len(ms) = 1)
            /\ pc' = IF backendForModelService(Head(ms).spec) = "KServe"
                     THEN "InferenceService" ELSE StepAfter(0)
       ELSE UNCHANGED <<obj, fresh, pc>>
    /\ UNCHANGED <<ms, child, seen, uids, budget>>

\* Mutant: a Deployment is compared with its defaults filled in.
UndefaultedRouteOnly == {"HTTPRoute"}

\* The kinds whose content is built without the API server's defaults: the
\* comparison with the cached object always finds a difference, so an Update
\* is sent, with the cached resourceVersion, in every pass.
Undefaulted == {"Deployment", "HTTPRoute"}

\* What the API server accepts: a claim only grows, the selector of a
\* Deployment never changes, and two volumes cannot be mounted at the path of
\* the runtime's own /tmp volume.
Admitted(k, old, new) ==
    /\ k \in Fixed /\ old = Unrelated => new = old
    /\ k = "PersistentVolumeClaim" =>
         old \in {Foreign, new} \/ <<old.size, new.size>> \in Growth
    /\ k = "Deployment" => new.mountPath # "/tmp"

\* Mutant: the controller reference is replaced whoever holds it.
ControllableAlways(c) == TRUE

\* Mutant: a child without a controller is refused as well.
ControllableOwned(c) == c.owner > 0

\* controllerutil.SetControllerReference: a child of another controller is an
\* error; one without a controller, or of an earlier ModelService of the same
\* name, is taken over.
Controllable(c) == c.owner # Stranger

\* An Update meets the version it was computed from: the cached one.
Current(k) == Len(child[k]) = 1

\* controllerutil.CreateOrUpdate with the content for kind k: a cached read,
\* then a Create, an Update that carries the cached resourceVersion, or
\* nothing when the cached object already is what it should be.
CreateOrUpdate(k) ==
    LET cached  == Head(child[k])
        stored  == Last(child[k])
        content == Desired(k, obj.spec)
        wanted  == [cached EXCEPT !.exists = TRUE, !.owner = obj.uid,
                                  !.content = content]
        status  == IF k = "Deployment" THEN wanted.status ELSE seen
    IN CASE ~cached.exists /\ stored.exists -> Fail          \* AlreadyExists
         [] ~cached.exists /\ ~stored.exists ->
              IF Admitted(k, Foreign, content)
              THEN /\ StoreChild(k, wanted)
                   /\ Proceed(k, status)
              ELSE Fail
         [] cached.exists /\ ~Controllable(cached) -> Fail   \* AlreadyOwned
         [] cached.exists /\ Controllable(cached) ->
              IF wanted = cached /\ k \notin Undefaulted
              THEN /\ Proceed(k, status)
                   /\ UNCHANGED child
              ELSE IF Current(k) /\ Admitted(k, cached.content, content)
              THEN /\ StoreChild(k, wanted)
                   /\ Proceed(k, status)
              ELSE Fail                                      \* Conflict, Invalid

\* Mutant: a child that is no longer wanted is left alone.
RemoveNothing(k) ==
    /\ Proceed(k, seen)
    /\ UNCHANGED child

\* Mutant: a child that is not wanted is deleted whoever controls it.
RemoveAny(k) ==
    IF ~Head(child[k]).exists
    THEN /\ Proceed(k, seen)
         /\ UNCHANGED child
    ELSE IF Last(child[k]).exists
    THEN /\ StoreChild(k, NoChild)
         /\ Proceed(k, seen)
    ELSE Fail

\* The spec does not ask for kind k: delete the child if the cached one is
\* controlled by this ModelService.  The request names the object only.
Remove(k) ==
    LET cached == Head(child[k])
    IN IF ~cached.exists \/ cached.owner # obj.uid
       THEN /\ Proceed(k, seen)
            /\ UNCHANGED child
       ELSE IF Last(child[k]).exists
       THEN /\ StoreChild(k, NoChild)
            /\ Proceed(k, seen)
       ELSE Fail                                             \* NotFound

reconcileServiceAccount ==
    /\ pc = "ServiceAccount"
    /\ CreateOrUpdate("ServiceAccount")

reconcileDeployment ==
    /\ pc = "Deployment"
    /\ CreateOrUpdate("Deployment")

reconcileService ==
    /\ pc = "Service"
    /\ CreateOrUpdate("Service")

reconcilePersistentVolumeClaim ==
    /\ pc = "PersistentVolumeClaim"
    /\ IF storageEnabled(obj.spec) THEN CreateOrUpdate("PersistentVolumeClaim")
       ELSE Remove("PersistentVolumeClaim")

reconcilePodDisruptionBudget ==
    /\ pc = "PodDisruptionBudget"
    /\ IF podDisruptionBudgetForModelService(obj.spec).enabled
       THEN CreateOrUpdate("PodDisruptionBudget")
       ELSE Remove("PodDisruptionBudget")

reconcileNetworkPolicy ==
    /\ pc = "NetworkPolicy"
    /\ IF networkPolicyForModelService(obj.spec).enabled
       THEN CreateOrUpdate("NetworkPolicy")
       ELSE Remove("NetworkPolicy")

\* Mutant: a missing hostname is not noticed.
reconcileHTTPRouteUnchecked ==
    /\ pc = "HTTPRoute"
    /\ IF ~exposureForModelService(obj.spec).enabled THEN Remove("HTTPRoute")
       ELSE CreateOrUpdate("HTTPRoute")

reconcileHTTPRoute ==
    /\ pc = "HTTPRoute"
    /\ IF ~exposureForModelService(obj.spec).enabled THEN Remove("HTTPRoute")
       ELSE IF Unrenderable("HTTPRoute", obj.spec) THEN Fail
       ELSE CreateOrUpdate("HTTPRoute")

\* Server-side apply of the InferenceService, without a read.  It takes over
\* every field it sets, but a second controller reference is invalid.
applyInferenceService ==
    LET stored == Last(child["InferenceService"])
        wanted == [stored EXCEPT
                     !.exists = TRUE, !.owner = obj.uid,
                     !.content = desiredInferenceServiceSpec(obj.spec)]
    IN /\ pc = "InferenceService"
       /\ IF \/ Unrenderable("InferenceService", obj.spec)
             \/ stored.exists /\ ~Controllable(stored)
          THEN Fail
          ELSE /\ StoreChild("InferenceService", wanted)
               /\ Proceed("InferenceService", seen)

\* The applied object is read back from the API server, not from a cache.
readInferenceService ==
    LET stored == Last(child["InferenceService"])
    IN /\ pc = "read"
       /\ IF stored.exists
          THEN /\ pc' = "inferenceStatus"
               /\ seen' = stored.status
               /\ UNCHANGED <<ms, child, obj, fresh, queued, uids, budget>>
          ELSE Fail

(***************************************************************************)
(* The status                                                              *)
(***************************************************************************)

\* Mutant: the condition type is published as the phase.
deploymentStatusAvailable(m, w) ==
    [NoStatus EXCEPT !.observedGeneration = m.generation,
                     !.phase = "Available",
                     !.endpoint = [host |-> "Service", port |-> m.spec.port]]

\* The status a pass on m derives from the workload status w it saw.
deploymentStatus(m, w) ==
    [observedGeneration |-> m.generation,
     phase |-> CASE w.deadlineExceeded -> "Degraded"
                 [] /\ ~w.deadlineExceeded
                    /\ m.spec.replicas > 0
                    /\ w.readyReplicas = m.spec.replicas
                    /\ w.availableReplicas = m.spec.replicas -> "Ready"
                 [] OTHER -> "Provisioning",
     readyReplicas |-> w.readyReplicas,
     endpoint |-> [host |-> "Service", port |-> m.spec.port]]

\* KServe reports a model that failed to load in either of two places.
inferenceServiceModelFailure(w) ==
    \/ w.targetModelState = "FailedToLoad"
    \/ w.transitionStatus = "BlockedByFailedLoad"

kserveConditionFailed(reason) == reason = "failure"

\* A model that failed to load wins over the Ready condition.
inferencePhase(w) ==
    CASE inferenceServiceModelFailure(w) -> "Failed"
      [] ~inferenceServiceModelFailure(w) /\ w.ready = "True" -> "Ready"
      [] /\ ~inferenceServiceModelFailure(w)
         /\ w.ready = "False"
         /\ kserveConditionFailed(w.reason) -> "Failed"
      [] OTHER -> "Provisioning"

inferenceServiceStatus(m, w) ==
    [observedGeneration |-> m.generation,
     phase |-> inferencePhase(w),
     readyReplicas |-> IF inferencePhase(w) = "Ready"
                       THEN desiredInferenceServiceSpec(m.spec).minReplicas
                       ELSE 0,
     endpoint |-> [host |-> w.url, port |-> 0]]

\* The pass ends with a new version of the ModelService.
LeaveStoring(m) ==
    /\ StoreService(m)
    /\ pc' = "idle"
    /\ obj' = NoService
    /\ seen' = NoWorkload
    /\ UNCHANGED <<child, queued, uids, budget>>

\* Mutant: a conflict is retried on the stored version, with its generation.
UpdateStatusRetrying(status) ==
    IF status = obj.status
    THEN /\ Leave(FALSE)
         /\ UNCHANGED <<ms, child, uids, budget>>
    ELSE IF Exists(Last(ms))
    THEN LeaveStoring([Last(ms) EXCEPT
             !.status = [status EXCEPT
                           !.observedGeneration = Last(ms).generation]])
    ELSE Fail

\* Mutant: a status with the same phase counts as unchanged.
UpdateStatusPhaseOnly(status) ==
    IF status.phase = obj.status.phase
    THEN /\ Leave(FALSE)
         /\ UNCHANGED <<ms, child, uids, budget>>
    ELSE IF fresh THEN LeaveStoring([obj EXCEPT !.status = status])
    ELSE Fail

\* Mutant: the status is written in every pass.
UpdateStatusAlways(status) ==
    IF fresh THEN LeaveStoring([obj EXCEPT !.status = status])
    ELSE Fail

\* Mutant: the status is written without a resourceVersion.
UpdateStatusBlindly(status) ==
    IF status = obj.status
    THEN /\ Leave(FALSE)
         /\ UNCHANGED <<ms, child, uids, budget>>
    ELSE IF Exists(Last(ms))
    THEN LeaveStoring([Last(ms) EXCEPT !.status = status])
    ELSE Fail

\* Status().Update with the resourceVersion of obj, unless nothing changed.
UpdateStatus(status) ==
    IF status = obj.status
    THEN /\ Leave(FALSE)
         /\ UNCHANGED <<ms, child, uids, budget>>
    ELSE IF fresh
    THEN LeaveStoring([obj EXCEPT !.status = status])
    ELSE Fail                                                \* Conflict, NotFound

updateModelServiceStatus ==
    /\ pc = "status"
    /\ UpdateStatus(deploymentStatus(obj, seen))

updateModelServiceStatusFromInferenceService ==
    /\ pc = "inferenceStatus"
    /\ UpdateStatus(inferenceServiceStatus(obj, seen))

\* The steps of the worker.
Operator ==
    \/ Reconcile
    \/ reconcileServiceAccount
    \/ reconcileDeployment
    \/ reconcileService
    \/ reconcilePersistentVolumeClaim
    \/ reconcilePodDisruptionBudget
    \/ reconcileNetworkPolicy
    \/ reconcileHTTPRoute
    \/ applyInferenceService
    \/ readInferenceService
    \/ updateModelServiceStatus
    \/ updateModelServiceStatusFromInferenceService

(***************************************************************************)
(* Watches and the garbage collector                                       *)
(***************************************************************************)

\* Every event of the ModelService enqueues its name.
DeliverService ==
    /\ Len(ms) > 1
    /\ ms' = Tail(ms)
    /\ queued' = TRUE
    /\ UNCHANGED <<child, pc, obj, fresh, seen, uids, budget>>

\* Mutant: only the new version of the child is looked at.
DeliverChildNew(k) ==
    /\ Len(child[k]) > 1
    /\ child' = [child EXCEPT ![k] = Tail(@)]
    /\ queued' = (queued \/ child[k][2].owner > 0)
    /\ UNCHANGED <<ms, pc, obj, fresh, seen, uids, budget>>

\* An event of a child enqueues the name of the ModelService that controls
\* its old or its new version, whatever the UID; other children are ignored.
DeliverChild(k) ==
    /\ Len(child[k]) > 1
    /\ child' = [child EXCEPT ![k] = Tail(@)]
    /\ queued' = (queued \/ \E i \in 1 .. 2 : child[k][i].owner > 0)
    /\ UNCHANGED <<ms, pc, obj, fresh, seen, uids, budget>>

\* Kubernetes deletes a child whose controller is gone, or is being deleted
\* in the foreground.
CollectChild(k) ==
    LET stored == Last(child[k])
    IN /\ Len(child[k]) <= MaxLag
       /\ stored.owner > 0
       /\ stored.owner = Last(ms).uid => Last(ms).deleting
       /\ StoreChild(k, NoChild)
       /\ UNCHANGED <<ms, pc, obj, fresh, seen, queued, uids, budget>>

\* A deletion in the foreground is complete once no child is left.
FinishDeletion ==
    /\ Last(ms).deleting
    /\ \A k \in Kinds : Last(child[k]).owner # Last(ms).uid
    /\ StoreService(NoService)
    /\ UNCHANGED <<child, pc, obj, seen, queued, uids, budget>>

Kubernetes ==
    \/ DeliverService
    \/ \E k \in Kinds : DeliverChild(k) \/ CollectChild(k)
    \/ FinishDeletion

(***************************************************************************)
(* Users, workloads and faults                                             *)
(***************************************************************************)

Spend ==
    /\ budget > 0
    /\ budget' = budget - 1

CreateService ==
    /\ Spend
    /\ ~Exists(Last(ms))
    /\ uids < MaxUid
    /\ uids' = uids + 1
    /\ \E s \in Specs :
         StoreService([NoService EXCEPT !.uid = uids + 1, !.generation = 1,
                                        !.spec = s])
    /\ UNCHANGED <<child, pc, obj, seen, queued>>

\* A change of the spec is a new generation.
EditService ==
    /\ Spend
    /\ Exists(Last(ms))
    /\ \E s \in Specs \ {Last(ms).spec} :
         /\ CRDTransition(Last(ms).spec, s)
         /\ StoreService([Last(ms) EXCEPT !.generation = @ + 1, !.spec = s])
    /\ UNCHANGED <<child, pc, obj, seen, queued, uids>>

\* The request to delete in the foreground is a new generation, too.
DeleteService ==
    /\ Spend
    /\ Exists(Last(ms))
    /\ \/ /\ "Background" \in Propagation
          /\ StoreService(NoService)
       \/ /\ "Foreground" \in Propagation
          /\ ~Last(ms).deleting
          /\ StoreService([Last(ms) EXCEPT !.generation = @ + 1,
                                           !.deleting = TRUE])
    /\ UNCHANGED <<child, pc, obj, seen, queued, uids>>

Meddle(k, c) ==
    /\ Spend
    /\ StoreChild(k, c)
    /\ UNCHANGED <<ms, pc, obj, fresh, seen, queued, uids>>

DeleteChild(k) ==
    /\ Last(child[k]).exists
    /\ Meddle(k, NoChild)

EditChild(k) ==
    /\ Last(child[k]).exists
    /\ Last(child[k]).content \notin {Foreign, Unrelated}
    /\ Meddle(k, [Last(child[k]) EXCEPT !.content = Foreign])

\* A child is taken out of the hands of its controller.
ReleaseChild(k) ==
    /\ Last(child[k]).owner > 0
    /\ Meddle(k, [Last(child[k]) EXCEPT !.owner = NoOwner])

\* A child of that name, without a controller or with another one.
CreateChild(k) ==
    /\ ~Last(child[k]).exists
    /\ \E o \in {NoOwner, Stranger} : \E c \in {Foreign, Unrelated} :
         /\ k \in Fixed \/ c = Foreign
         /\ Meddle(k, [NoChild EXCEPT !.exists = TRUE, !.owner = o,
                                      !.content = c])

\* The Deployment controller reports what it sees of the content it knows.
DeploymentProgress ==
    LET stored == Last(child["Deployment"])
    IN /\ "Deployment" \in Kinds
       /\ stored.exists
       /\ \E n, a \in ReadyCounts : \E late \in BOOLEAN :
            LET w == [NoWorkload EXCEPT
                        !.of = stored.content, !.readyReplicas = n,
                        !.availableReplicas = a, !.deadlineExceeded = late]
            IN /\ a <= n
               /\ w # stored.status
               /\ Meddle("Deployment", [stored EXCEPT !.status = w])

\* KServe reports the condition of the InferenceService.
InferenceProgress ==
    LET stored == Last(child["InferenceService"])
    IN /\ "InferenceService" \in Kinds
       /\ stored.exists
       /\ \E c \in Conditions, why \in Reasons, s \in TargetStates,
             t \in Transitions :
            LET w == [NoWorkload EXCEPT
                        !.of = stored.content, !.ready = c, !.reason = why,
                        !.targetModelState = s, !.transitionStatus = t,
                        !.url = IF c = "True" THEN "url" ELSE Empty]
            IN /\ c # "False" => why = Empty
               /\ w # stored.status
               /\ Meddle("InferenceService", [stored EXCEPT !.status = w])

\* A call fails for a reason of its own, before or after it took effect.
Abort ==
    /\ Spend
    /\ pc # "idle"
    /\ Leave(TRUE)
    /\ UNCHANGED <<ms, child, uids>>

\* The operator dies.  Its successor lists every watched object, and each one
\* that is, or is controlled by, a ModelService enqueues the name.
Restart ==
    /\ Spend
    /\ pc' = "idle"
    /\ obj' = NoService
    /\ fresh' = FALSE
    /\ seen' = NoWorkload
    /\ ms' = <<Last(ms)>>
    /\ child' = [k \in Kinds |-> <<Last(child[k])>>]
    /\ queued' = \/ Exists(Last(ms))
                 \/ \E k \in Kinds : Last(child[k]).owner > 0
    /\ UNCHANGED uids

Outside ==
    \/ CreateService
    \/ EditService
    \/ DeleteService
    \/ \E k \in Kinds : \/ DeleteChild(k)
                        \/ EditChild(k)
                        \/ ReleaseChild(k)
                        \/ CreateChild(k)
    \/ DeploymentProgress
    \/ InferenceProgress
    \/ Abort
    \/ Restart

Next == Operator \/ Kubernetes \/ Outside

Spec == Init /\ [][Next]_vars

\* The worker runs, watches deliver, and the garbage collector collects;
\* nobody else has to do anything.
Fairness ==
    /\ WF_vars(Operator)
    /\ WF_vars(DeliverService)
    /\ \A k \in Kinds : WF_vars(DeliverChild(k)) /\ WF_vars(CollectChild(k))
    /\ WF_vars(FinishDeletion)

FairSpec == Spec /\ Fairness

(***************************************************************************)
(* Properties                                                              *)
(***************************************************************************)

\* The types of the variables; there always is a cached and a stored version.
TypeOK ==
    /\ ms \in Seq(ServiceType) \ {<<>>}
    /\ child \in [Kinds -> Seq(Child) \ {<<>>}]
    /\ pc \in Steps
    /\ obj \in ServiceType
    /\ fresh \in BOOLEAN
    /\ seen \in WorkloadStatus
    /\ queued \in BOOLEAN
    /\ uids \in Nat
    /\ budget \in Nat

\* A status that acknowledges the generation of m fits its spec.
StatusFits(m) ==
    /\ m.status.observedGeneration <= m.generation
    /\ (Exists(m) /\ m.status.observedGeneration = m.generation) =>
         /\ backendForModelService(m.spec) # "KServe" =>
              m.status.endpoint = [host |-> "Service", port |-> m.spec.port]
         /\ m.status.phase = "Ready" =>
              m.status.readyReplicas = m.spec.replicas
         /\ \A k \in KindsOf(m.spec) :
              Enabled(k, m.spec) => ~Unrenderable(k, m.spec)

\* A status that acknowledges the current generation was computed from the
\* current spec by a pass that got through every child: the endpoint is that
\* of the spec, Ready counts as many replicas as the spec asks for, and no
\* child it asks for is impossible to render.
\* (updateModelServiceStatus writes what a pass read at its start, so an edit
\* during the pass must make the write fail.)
StatusDescribesSpec == StatusFits(Last(ms))

\* The operator never changes a child that another controller controls at
\* that moment, nor takes it over, although it decides on a cached copy.
\* (SetControllerReference and the resourceVersion of the Update; Remove is
\* not covered, see DeletesOnlyOwn.)
OverwritesNoStranger ==
    [][Operator => \A k \in Kinds :
         LET old == Last(child[k])
             new == Last(child'[k])
         IN old.owner = Stranger /\ new.exists => new = old]_vars

Mounts(c) == "claim" \in DOMAIN c.content /\ c.content.claim

\* The operator deletes a PersistentVolumeClaim only while the Deployment
\* does not mount it: Reconcile updates the Deployment first, and only an
\* Update that met the stored version lets the pass go on to the claim.
ClaimOutlivesMount ==
    [][(Operator /\ "PersistentVolumeClaim" \in Kinds) =>
         LET old == Last(child["PersistentVolumeClaim"])
             new == Last(child'["PersistentVolumeClaim"])
         IN old.exists /\ ~new.exists => ~Mounts(Last(child["Deployment"]))]_vars

\* Why a pass on the stored ModelService cannot get past kind k.
Obstacle(k) ==
    LET m == Last(ms)
        stored == Last(child[k])
    IN /\ Enabled(k, m.spec)
       /\ \/ Unrenderable(k, m.spec)
          \/ stored.owner = Stranger
          \/ /\ k # "InferenceService"
             /\ ~Admitted(k, stored.content, Desired(k, m.spec))

\* The child of kind k is as the stored ModelService asks for.
Matches(k) ==
    LET m == Last(ms)
        stored == Last(child[k])
    IN IF Enabled(k, m.spec)
       THEN /\ stored.exists
            /\ stored.owner = m.uid
            /\ stored.content = Desired(k, m.spec)
       ELSE stored.owner # m.uid

\* The kinds up to and including k in the order Reconcile visits them.
UpTo(k) ==
    IF k = "InferenceService" THEN {k}
    ELSE {j \in Kinds \ {"InferenceService"} : Position(j) <= Position(k)}

\* The status is the one the workload's state calls for.
StatusCurrent ==
    LET m == Last(ms)
    IN m.status = IF backendForModelService(m.spec) = "KServe"
                  THEN inferenceServiceStatus(
                          m, Last(child["InferenceService"]).status)
                  ELSE deploymentStatus(m, Last(child["Deployment"]).status)

\* The cluster is in the desired state: nothing is left of a ModelService
\* that is gone; every child that no obstacle comes before matches the spec;
\* without an obstacle the status is the one the workload's state calls for.
\* Nothing is said of the children of a ModelService under deletion in the
\* foreground: the operator recreates them while the collector deletes them.
Settled ==
    LET m == Last(ms)
    IN /\ \A k \in Kinds :
            Last(child[k]).owner \in {NoOwner, Stranger, m.uid}
       /\ Exists(m) /\ ~m.deleting =>
            /\ \A k \in KindsOf(m.spec) :
                 (\A j \in UpTo(k) : ~Obstacle(j)) => Matches(k)
            /\ (\A k \in KindsOf(m.spec) : ~Obstacle(k)) => StatusCurrent

\* The operator has nothing to do: no pass, no name in the queue, no event on
\* its way to a cache.
Quiet ==
    /\ pc = "idle"
    /\ ~queued
    /\ Len(ms) = 1
    /\ \A k \in Kinds : Current(k)

\* No wake-up is lost: when the operator has nothing to do, every child and
\* the status are as the stored ModelService asks for, however edits, events,
\* errors and restarts fell between the steps of earlier passes.  (Returned
\* errors put the name back into the queue; so do the watches of
\* SetupWithManager, except for a child no ModelService controls.)
NothingForgotten ==
    LET m == Last(ms)
    IN Quiet /\ Exists(m) /\ ~m.deleting =>
         /\ \A k \in KindsOf(m.spec) : Matches(k) /\ ~Obstacle(k)
         /\ StatusCurrent

\* The children the pass has behind it.
Passed ==
    CASE pc \in {"read", "inferenceStatus"} -> {"InferenceService"}
      [] pc = "status" -> Kinds \ {"InferenceService"}
      [] pc \in Kinds \ {"InferenceService"} -> UpTo(pc) \ {pc}
      [] OTHER -> {}

\* The cluster is settled and the operator knows it: its caches are current,
\* and a pass under way started from what is stored, met no obstacle and saw
\* the workload as it is.
AtRest ==
    /\ Settled
    /\ ~Last(ms).deleting
    /\ Len(ms) = 1
    /\ \A k \in Kinds : Current(k)
    /\ pc # "idle" => fresh /\ \A k \in Passed : ~Obstacle(k)
    /\ "Deployment" \in Passed => seen = Last(child["Deployment"]).status
    /\ pc = "inferenceStatus" => seen = Last(child["InferenceService"]).status

\* Reconcile is idempotent: at rest, neither the operator nor Kubernetes
\* writes anything, and they stay at rest, however many passes are made.  (An
\* Update is sent for some kinds in every pass, and what a pass writes
\* triggers the next one.)
RestIsKept ==
    [][AtRest /\ (Operator \/ Kubernetes) =>
         AtRest' /\ UNCHANGED <<ms, child>>]_vars

\* Level-triggered reconciliation: once users, workloads and faults leave the
\* name alone the cluster reaches the desired state and stays in it, whatever
\* the caches missed in between and wherever a pass was cut short; and the
\* operator comes to rest, except with a ModelService deleted in the foreground.
Converges == <>[](Settled /\ (AtRest \/ Last(ms).deleting))

\* What the ModelService is to those who share it.
SharedPart(m) ==
    [uid |-> m.uid, generation |-> m.generation,
     observed |-> m.status.observedGeneration, spec |-> m.spec]

Shared == INSTANCE SharedModelService WITH
    object <- SharedPart(Last(ms)), used <- uids

\* The operator keeps to its part of the ModelService, although it writes the
\* whole object it read at the start of the pass: what it stores is the desired
\* state that is stored, and it acknowledges the generation of that state and
\* no other.  Users keep to theirs, as RestApi shows of the platform API.
KeepsItsPart ==
    /\ Shared!Init
    /\ [][IF Operator THEN Shared!Acknowledge ELSE Shared!Users]_<<
            SharedPart(Last(ms)), uids>>

(***************************************************************************)
(* What the documents and comments say, and the code does not do           *)
(***************************************************************************)

\* "Do not delete a PVC that belongs to another resource or user": what the
\* operator deletes is controlled by the ModelService it works on.
DeletesOnlyOwn ==
    [][Operator => \A k \in Kinds :
         LET old == Last(child[k])
             new == Last(child'[k])
         IN old.exists /\ ~new.exists => old.owner = obj.uid]_vars

\* "unowned route with same name -> refuse destructive management".
SparesUnownedRoute ==
    [][(Operator /\ "HTTPRoute" \in Kinds) =>
         LET old == Last(child["HTTPRoute"])
         IN old.exists /\ old.owner = NoOwner =>
              Last(child'["HTTPRoute"]) = old]_vars

\* "users know whether status corresponds to the latest specification": a
\* Ready status that acknowledges the current generation is about a workload
\* whose controller has seen the content of that generation.
ReadyIsAboutLatestSpec ==
    LET m == Last(ms)
        stored == Last(child["Deployment"])
    IN /\ Exists(m)
       /\ backendForModelService(m.spec) = "Deployment"
       /\ m.status.observedGeneration = m.generation
       /\ m.status.phase = "Ready"
       /\ stored.owner = m.uid
       /\ stored.content = Desired("Deployment", m.spec)
       => stored.status.of = stored.content

================================================================================
