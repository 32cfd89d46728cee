--------------------------- MODULE ReconcilerProofs ---------------------------
(***************************************************************************)
(* The safety properties of Reconciler hold for every set of kinds and     *)
(* specs and for every bound.  The invariant says of every version in      *)
(* flight, cached or stored, what is needed of the one a pass will read:   *)
(* its status fits its spec, and nothing is left of an absent child.  Of a *)
(* running pass it says what the steps already taken have established,     *)
(* which is what the order in which Reconcile visits the children is for.  *)
(***************************************************************************)
EXTENDS Reconciler, TLAPS

\* The histories from the cached to the stored version of an object.
Versions(S) == Seq(S) \ {<<>>}

\* A stored version is the last one.
LEMMA Appending ==
    ASSUME NEW S, NEW s \in Versions(S), NEW x \in S
    PROVE  /\ Append(s, x) \in Versions(S)
           /\ Last(Append(s, x)) = x
BY DEF Versions, Last

\* A delivered event changes the cached version, not the stored one.
LEMMA Delivering ==
    ASSUME NEW S, NEW s \in Versions(S), Len(s) > 1
    PROVE  /\ Tail(s) \in Versions(S)
           /\ Last(Tail(s)) = Last(s)
<1>1. s \in Seq(S) /\ s # <<>> /\ Len(s) \in Nat
  BY DEF Versions
<1>2. Tail(s) \in Seq(S) /\ Len(Tail(s)) = Len(s) - 1
  BY <1>1
<1>3. \A i \in 1..Len(Tail(s)) : Tail(s)[i] = s[i + 1]
  BY <1>1, <1>2
<1>4. Tail(s) # <<>>
  <2>1. Len(Tail(s)) # 0
    BY <1>1, <1>2
  <2> QED
    BY <2>1
<1> QED
  BY <1>1, <1>2, <1>3, <1>4 DEF Versions, Last

\* The cached and the stored version, which are the same if there is one.
LEMMA Ends ==
    ASSUME NEW S, NEW s \in Versions(S)
    PROVE  /\ Len(s) \in Nat \ {0}
           /\ Head(s) \in S
           /\ Last(s) \in S
           /\ Len(s) = 1 => Head(s) = Last(s)
BY DEF Versions, Last

\* A cache that has just been filled.
LEMMA Single ==
    ASSUME NEW S, NEW x \in S
    PROVE  <<x>> \in Versions(S)
BY DEF Versions

\* Histories over a set are histories over a larger one.
LEMMA Widening ==
    ASSUME NEW S, NEW T, S \subseteq T, NEW s \in Versions(S)
    PROVE  s \in Versions(T)
BY DEF Versions

\* Where Reconcile visits each kind.
LEMMA Positions ==
    /\ Position("ServiceAccount") = 1
    /\ Position("Deployment") = 2
    /\ Position("Service") = 3
    /\ Position("PersistentVolumeClaim") = 4
    /\ Position("PodDisruptionBudget") = 5
    /\ Position("NetworkPolicy") = 6
    /\ Position("HTTPRoute") = 7
BY DEF Position, ReconcileOrder

\* The kinds by their position.
LEMMA Order ==
    /\ DOMAIN ReconcileOrder = 1 .. 7
    /\ ReconcileOrder[1] = "ServiceAccount"
    /\ ReconcileOrder[2] = "Deployment"
    /\ ReconcileOrder[3] = "Service"
    /\ ReconcileOrder[4] = "PersistentVolumeClaim"
    /\ ReconcileOrder[5] = "PodDisruptionBudget"
    /\ ReconcileOrder[6] = "NetworkPolicy"
    /\ ReconcileOrder[7] = "HTTPRoute"
BY DEF ReconcileOrder

\* A nonempty set of positions has a least element.
LEMMA Least ==
    ASSUME NEW S \in SUBSET (1 .. 7), S # {}
    PROVE  \E j \in S : \A l \in S : j <= l
<1>1. CASE 1 \in S
  BY <1>1
<1>2. CASE 1 \notin S /\ 2 \in S
  BY <1>2
<1>3. CASE {1, 2} \cap S = {} /\ 3 \in S
  BY <1>3
<1>4. CASE {1, 2, 3} \cap S = {} /\ 4 \in S
  BY <1>4
<1>5. CASE {1, 2, 3, 4} \cap S = {} /\ 5 \in S
  BY <1>5
<1>6. CASE {1, 2, 3, 4, 5} \cap S = {} /\ 6 \in S
  BY <1>6
<1>7. CASE {1, 2, 3, 4, 5, 6} \cap S = {}
  <2>1. \A l \in S : l = 7
    BY <1>7
  <2>2. PICK j \in S : TRUE
    BY Zenon
  <2>3. \A l \in S : j <= l
    BY <2>1
  <2> QED
    BY <2>3
<1> QED
  BY <1>1, <1>2, <1>3, <1>4, <1>5, <1>6, <1>7

\* StepAfter is the next kind of the instance, and the status after the last.
LEMMA StepAfterIs ==
    ASSUME NEW i \in 0 .. 7
    PROVE  \/ /\ StepAfter(i) = "status"
              /\ \A l \in 1 .. 7 : l > i => ReconcileOrder[l] \notin Kinds
           \/ \E j \in 1 .. 7 :
                /\ j > i
                /\ StepAfter(i) = ReconcileOrder[j]
                /\ ReconcileOrder[j] \in Kinds
                /\ \A l \in 1 .. 7 : i < l /\ l < j =>
                     ReconcileOrder[l] \notin Kinds
<1> DEFINE later == {j \in 1 .. 7 : j > i /\ ReconcileOrder[j] \in Kinds}
           first == CHOOSE j \in later : \A l \in later : j <= l
<1>1. StepAfter(i) = IF later = {} THEN "status" ELSE ReconcileOrder[first]
  BY Order DEF StepAfter
<1>2. CASE later = {}
  BY <1>1, <1>2
<1>3. CASE later # {}
  <2>1. first \in later /\ \A l \in later : first <= l
    <3>1. later \in SUBSET (1 .. 7)
      OBVIOUS
    <3> HIDE DEF later
    <3>2. \E j \in later : \A l \in later : j <= l
      BY <3>1, <1>3, Least
    <3> QED
      BY <3>2
  <2> HIDE DEF first
  <2> QED
    BY <1>1, <1>3, <2>1
<1> QED
  BY <1>2, <1>3

(***************************************************************************)
(* The invariant                                                           *)
(***************************************************************************)

\* A version of the ModelService whose status fits its spec.
GoodService ==
    {m \in ServiceType : StatusFits(m) /\ (Exists(m) => m.spec \in Specs)}

\* A version of a child; nothing is left of one that does not exist.
GoodChild == {c \in Child : c.exists \/ c = NoChild}

Children == [Kinds -> Versions(GoodChild)]

\* What a pass that has come to step p with the ModelService m knows.
OnTrack(p, m, deployment) ==
    /\ p # "idle" => Exists(m)
    /\ p \in {"InferenceService", "read", "inferenceStatus"} =>
         backendForModelService(m.spec) = "KServe"
    /\ p \in {"read", "inferenceStatus"} =>
         ~Unrenderable("InferenceService", m.spec)
    /\ p \in {"status"} \cup (Kinds \ {"InferenceService"}) =>
         backendForModelService(m.spec) # "KServe"
    /\ p = "status" /\ "HTTPRoute" \in Kinds =>
         ~Unrenderable("HTTPRoute", m.spec)
    /\ p \in {"Service", "PersistentVolumeClaim"} /\ ~storageEnabled(m.spec) =>
         ~Mounts(Last(deployment))

Inv ==
    /\ ms \in Versions(GoodService)
    /\ child \in Children
    /\ pc \in Steps
    /\ obj \in GoodService
    /\ fresh \in BOOLEAN
    /\ seen \in WorkloadStatus
    /\ queued \in BOOLEAN
    /\ uids \in Nat
    /\ budget \in Nat
    /\ fresh => pc # "idle" /\ obj = Last(ms)
    /\ OnTrack(pc, obj, child["Deployment"])

\* The objects that stand for an absent object satisfy the invariant.
LEMMA Nothing ==
    /\ NoWorkload \in WorkloadStatus
    /\ NoChild \in GoodChild
    /\ NoChild.owner = NoOwner /\ ~NoChild.exists
    /\ NoService \in GoodService
    /\ ~Exists(NoService)
<1>1. NoWorkload \in WorkloadStatus
  BY DEF NoWorkload, WorkloadStatus, Contents, Conditions, Reasons,
               TargetStates, Transitions
<1>2. NoChild \in GoodChild
  BY <1>1 DEF NoChild, GoodChild, Child, Contents, NoOwner
<1>3. NoStatus \in StatusType
  BY DEF NoStatus, StatusType, Phases
<1>4. NoService \in ServiceType
  BY <1>3 DEF NoService, ServiceType
<1>5. StatusFits(NoService)
  BY DEF StatusFits, NoService, NoStatus, Exists
<1> QED
  BY <1>1, <1>2, <1>4, <1>5
     DEF GoodService, NoService, Exists, NoChild, NoOwner

\* The fields of a ModelService that exists.
LEMMA ServiceFacts ==
    ASSUME NEW m \in GoodService, Exists(m)
    PROVE  /\ m \in ServiceType
           /\ m.spec \in Specs
           /\ m.spec \in SpecType
           /\ m.spec.port \in Int
           /\ m.spec.replicas \in Int
           /\ m.generation \in Nat
           /\ m.uid \in Nat \ {0}
<1>1. m \in ServiceType /\ m.spec \in Specs
  BY DEF GoodService
<1>2. m.spec \in SpecType
  BY <1>1, ReconcilerConstants
<1>3. m.spec.port \in Int
  BY <1>2 DEF SpecType
<1>4. m.spec.replicas \in Int
  BY <1>2 DEF SpecType
<1>5. m.generation \in Nat /\ m.uid \in Nat \ {0}
  BY <1>1 DEF ServiceType, Exists
<1> QED
  BY <1>1, <1>2, <1>3, <1>4, <1>5

\* The CRD admits no spec without replicas, so KServe runs as many as asked.
LEMMA ReplicasAsked ==
    ASSUME NEW m \in GoodService, Exists(m)
    PROVE  desiredInferenceServiceSpec(m.spec).minReplicas = m.spec.replicas
<1>1. m.spec \in Specs /\ m.spec.replicas \in Int
  BY ServiceFacts
<1>2. m.spec.replicas >= 1
  BY <1>1, ReconcilerConstants DEF CRDValid
<1> QED
  BY <1>1, <1>2 DEF desiredInferenceServiceSpec

\* The fields of a child.
LEMMA ChildFacts ==
    ASSUME NEW c \in GoodChild
    PROVE  /\ c \in Child
           /\ c.status \in WorkloadStatus
           /\ c.owner \in Int
           /\ c.exists \in BOOLEAN
           /\ c.content \in Contents
           /\ c.exists \/ c = NoChild
           /\ c.owner # NoOwner => c.exists
BY DEF GoodChild, Child, NoChild

\* What StoreChild leaves behind.
LEMMA Storing ==
    ASSUME child \in Children, NEW k \in Kinds, NEW c \in GoodChild,
           StoreChild(k, c)
    PROVE  /\ child' \in Children
           /\ Last(child'[k]) = c
           /\ \A j \in Kinds \ {k} : child'[j] = child[j]
<1>1. child[k] \in Versions(GoodChild)
  BY DEF Children
<1>2. /\ Append(child[k], c) \in Versions(GoodChild)
      /\ Last(Append(child[k], c)) = c
  BY <1>1, Appending
<1>3. CASE c = Last(child[k])
  BY <1>3 DEF StoreChild
<1>4. CASE c # Last(child[k])
  <2>1. child' = [child EXCEPT ![k] = Append(child[k], c)]
    BY <1>4 DEF StoreChild
  <2> QED
    BY <1>2, <2>1 DEF Children
<1> QED
  BY <1>3, <1>4

\* The object CreateOrUpdate and server-side apply write is a good child.
LEMMA Adapting ==
    ASSUME NEW k \in Kinds, NEW m \in GoodService, Exists(m),
           NEW c \in GoodChild
    PROVE  [c EXCEPT !.exists = TRUE, !.owner = m.uid,
                     !.content = Desired(k, m.spec)] \in GoodChild
<1> DEFINE content == Desired(k, m.spec)
           uid == m.uid
<1>1. content \in Contents
  BY ServiceFacts DEF Contents
<1>2. uid \in Int
  BY ServiceFacts
<1> HIDE DEF content, uid
<1>3. [c EXCEPT !.exists = TRUE, !.owner = uid, !.content = content] \in Child
  BY <1>1, <1>2, Zenon DEF GoodChild, Child
<1>4. [c EXCEPT !.exists = TRUE, !.owner = uid, !.content = content].exists
  BY DEF GoodChild, Child
<1>5. [c EXCEPT !.exists = TRUE, !.owner = uid, !.content = content] \in GoodChild
  BY <1>3, <1>4, Zenon DEF GoodChild
<1> QED
  BY <1>5 DEF content, uid

\* The two status computations yield a status.
LEMMA StatusTypes ==
    ASSUME NEW m \in GoodService, Exists(m), NEW w \in WorkloadStatus
    PROVE  /\ deploymentStatus(m, w) \in StatusType
           /\ inferenceServiceStatus(m, w) \in StatusType
<1> DEFINE port == m.spec.port
           replicas == m.spec.replicas
           generation == m.generation
<1>1. port \in Int /\ replicas \in Int /\ generation \in Nat
  BY ServiceFacts
<1>2. w.readyReplicas \in Nat /\ w.url \in {Empty, "url"}
  BY DEF WorkloadStatus
<1>3. deploymentStatus(m, w) \in StatusType
  <2> DEFINE phase == deploymentStatus(m, w).phase
             ready == w.readyReplicas
  <2>1. phase \in Phases
    BY DEF deploymentStatus, Phases
  <2>2. deploymentStatus(m, w) =
          [observedGeneration |-> generation, phase |-> phase,
           readyReplicas |-> ready,
           endpoint |-> [host |-> "Service", port |-> port]]
    BY DEF deploymentStatus
  <2> HIDE DEF phase, ready, port, generation
  <2>3. ready \in Nat
    BY <1>2 DEF ready
  <2> QED
    BY <1>1, <2>1, <2>2, <2>3 DEF StatusType
<1>4. inferenceServiceStatus(m, w) \in StatusType
  <2> DEFINE phase == inferencePhase(w)
             ready == inferenceServiceStatus(m, w).readyReplicas
             url == w.url
  <2>1. phase \in Phases
    BY DEF inferencePhase, Phases
  <2>2. ready \in Nat
    BY <1>1 DEF inferenceServiceStatus, desiredInferenceServiceSpec
  <2>3. inferenceServiceStatus(m, w) =
          [observedGeneration |-> generation, phase |-> phase,
           readyReplicas |-> ready,
           endpoint |-> [host |-> url, port |-> 0]]
    BY DEF inferenceServiceStatus
  <2>4. url \in {Empty, "url"}
    BY <1>2
  <2> HIDE DEF phase, ready, url, generation
  <2> QED
    BY <1>1, <2>1, <2>2, <2>3, <2>4 DEF StatusType
<1> QED
  BY <1>3, <1>4

(***************************************************************************)
(* The steps                                                               *)
(***************************************************************************)

\* The kinds of an instance are among the eight of the code.
LEMMA KindFacts ==
    \A k \in Kinds : k \in {"ServiceAccount", "Deployment", "Service",
                           "PersistentVolumeClaim", "PodDisruptionBudget",
                           "NetworkPolicy", "HTTPRoute", "InferenceService"}
BY ReconcilerConstants, Order DEF AllKinds

\* An instance has the workload kind of every backend its specs use.
LEMMA BackendKinds ==
    ASSUME NEW m \in GoodService, Exists(m)
    PROVE  /\ backendForModelService(m.spec) = "KServe" =>
                "InferenceService" \in Kinds
           /\ backendForModelService(m.spec) # "KServe" => "Deployment" \in Kinds
<1>1. m.spec \in Specs
  BY ServiceFacts
<1> QED
  BY <1>1, ReconcilerConstants

\* Content that is not the operator's does not mount the claim.
LEMMA ForeignMountsNothing ==
    ASSUME NEW c, c.content \in {Foreign, Unrelated}
    PROVE  ~Mounts(c)
BY DEF Mounts, Foreign, Unrelated

\* Ending a pass without a write keeps the invariant.
LEMMA Leaving ==
    ASSUME Inv, NEW failed \in BOOLEAN, Leave(failed),
           UNCHANGED <<ms, child, uids>>, budget' \in Nat
    PROVE  Inv'
<1>1. OnTrack(pc', obj', child'["Deployment"])
  BY KindFacts DEF Leave, OnTrack
<1> QED
  BY <1>1, Nothing, Zenon DEF Inv, Leave, Steps, Children, GoodService

\* Storing a ModelService whose status fits keeps the invariant.
LEMMA Changing ==
    ASSUME Inv, NEW m \in GoodService, StoreService(m),
           UNCHANGED <<child, pc, obj, seen, queued>>,
           uids' \in Nat, budget' \in Nat
    PROVE  Inv'
<1>1. ms' \in Versions(GoodService)
  BY Appending DEF Inv, StoreService
<1>2. OnTrack(pc', obj', child'["Deployment"])
  BY DEF Inv
<1> QED
  BY <1>1, <1>2, Zenon DEF Inv, StoreService, Steps, Children, GoodService

\* A child changed behind the operator's back keeps the invariant, as nobody
\* but the operator adds a mount to the Deployment.
LEMMA Meddling ==
    ASSUME Inv, NEW k \in Kinds, NEW c \in GoodChild, StoreChild(k, c),
           UNCHANGED <<ms, pc, obj, fresh, seen, queued, uids>>,
           budget' \in Nat,
           c.content \in {Foreign, Unrelated, Last(child[k]).content}
    PROVE  Inv'
<1>1. /\ child' \in Children
      /\ Last(child'[k]) = c
      /\ \A j \in Kinds \ {k} : child'[j] = child[j]
  BY Storing DEF Inv
<1>2. ASSUME pc \in {"Service", "PersistentVolumeClaim"},
             ~storageEnabled(obj.spec)
      PROVE  ~Mounts(Last(child'["Deployment"]))
  <2>1. backendForModelService(obj.spec) # "KServe" /\ Exists(obj)
    BY <1>2 DEF Inv, OnTrack, Steps
  <2>2. "Deployment" \in Kinds
    BY <2>1, BackendKinds DEF Inv
  <2>3. ~Mounts(Last(child["Deployment"]))
    BY <1>2 DEF Inv, OnTrack
  <2>4. CASE k # "Deployment"
    BY <1>1, <2>2, <2>3, <2>4
  <2>5. CASE k = "Deployment" /\ c.content \in {Foreign, Unrelated}
    BY <1>1, <2>5, ForeignMountsNothing
  <2>6. CASE k = "Deployment" /\ c.content = Last(child[k]).content
    BY <1>1, <2>3, <2>6 DEF Mounts
  <2> QED
    BY <2>4, <2>5, <2>6
<1>3. OnTrack(pc', obj', child'["Deployment"])
  BY <1>2 DEF Inv, OnTrack
<1> QED
  BY <1>1, <1>3 DEF Inv, Steps, GoodService

\* Going on to the next step keeps the invariant if the step did its part:
\* the Deployment no longer mounts an unwanted claim, the route has a host.
LEMMA Proceeding ==
    ASSUME Inv, NEW k \in Kinds \ {"InferenceService"}, pc = k,
           NEW w \in WorkloadStatus, Proceed(k, w), child' \in Children,
           IF k = "Deployment"
           THEN ~storageEnabled(obj.spec) => ~Mounts(Last(child'["Deployment"]))
           ELSE child'["Deployment"] = child["Deployment"],
           k = "HTTPRoute" => ~Unrenderable("HTTPRoute", obj.spec)
    PROVE  Inv'
<1> DEFINE i == Position(k)
<1>1. i \in 1 .. 7 /\ ReconcileOrder[i] = k
  BY KindFacts, Positions, Order
<1>2. /\ Exists(obj)
      /\ backendForModelService(obj.spec) # "KServe"
  BY KindFacts DEF Inv, OnTrack
<1>3. "Deployment" \in Kinds
  BY <1>2, BackendKinds DEF Inv
<1>4. pc' = StepAfter(i)
  BY DEF Proceed
<1> HIDE DEF i
<1>5. CASE /\ pc' = "status"
           /\ \A l \in 1 .. 7 : l > i => ReconcileOrder[l] \notin Kinds
  <2>1. "HTTPRoute" \in Kinds => i = 7
    BY <1>1, <1>5, Order
  <2>2. OnTrack(pc', obj', child'["Deployment"])
    BY <1>1, <1>2, <1>5, <2>1, Order, KindFacts DEF OnTrack, Proceed
  <2> QED
    BY <1>5, <2>2 DEF Inv, Proceed, Steps, GoodService
<1>6. ASSUME NEW j \in 1 .. 7, j > i, pc' = ReconcileOrder[j],
             ReconcileOrder[j] \in Kinds,
             \A l \in 1 .. 7 : i < l /\ l < j => ReconcileOrder[l] \notin Kinds
      PROVE  Inv'
  <2>1. pc' \in Kinds \ {"InferenceService"} /\ pc' # "idle" /\ pc' # "status"
    BY <1>6, Order, KindFacts
  <2>2. ASSUME pc' \in {"Service", "PersistentVolumeClaim"}
        PROVE  k \in {"Deployment", "Service"}
    <3>1. j \in {3, 4}
      BY <1>6, <2>2, Order
    <3>2. i \in {2, 3}
      BY <1>1, <1>3, <1>6, <3>1, Order
    <3> QED
      BY <1>1, <3>2, Order
  <2>3. ASSUME pc' \in {"Service", "PersistentVolumeClaim"},
               ~storageEnabled(obj.spec)
        PROVE  ~Mounts(Last(child'["Deployment"]))
    BY <2>2, <2>3 DEF Inv, OnTrack
  <2>4. OnTrack(pc', obj', child'["Deployment"])
    BY <1>2, <2>1, <2>3, KindFacts DEF OnTrack, Proceed
  <2> QED
    BY <2>1, <2>4 DEF Inv, Proceed, Steps, GoodService
<1> QED
  BY <1>1, <1>4, <1>5, <1>6, StepAfterIs

\* A step from old to new neither changes nor takes over a stranger's child.
Spares(old, new) == old.owner = Stranger /\ new.exists => new = old

\* Ending a pass with an error keeps the invariant.
LEMMA Failing ==
    ASSUME Inv, Fail
    PROVE  Inv' /\ child' = child
<1>1. budget' \in Nat
  BY DEF Inv, Fail
<1> QED
  BY <1>1, Leaving, Zenon DEF Fail

\* CreateOrUpdate keeps the invariant, spares strangers, deletes nothing.
LEMMA Writing ==
    ASSUME Inv, NEW k \in Kinds \ {"InferenceService"}, pc = k,
           CreateOrUpdate(k),
           k = "HTTPRoute" => ~Unrenderable("HTTPRoute", obj.spec)
    PROVE  /\ Inv'
           /\ \A j \in Kinds \ {k} : child'[j] = child[j]
           /\ Spares(Last(child[k]), Last(child'[k]))
           /\ Last(child[k]).exists => Last(child'[k]).exists
<1> DEFINE cached == Head(child[k])
           stored == Last(child[k])
           wanted == [cached EXCEPT !.exists = TRUE, !.owner = obj.uid,
                                    !.content = Desired(k, obj.spec)]
<1>1. child[k] \in Versions(GoodChild) /\ seen \in WorkloadStatus
  BY DEF Inv, Children
<1>2. /\ cached \in GoodChild
      /\ stored \in GoodChild
      /\ Len(child[k]) = 1 => cached = stored
  BY <1>1, Ends
<1>3. Exists(obj) /\ obj \in GoodService /\ child \in Children
  BY KindFacts DEF Inv, OnTrack
<1>4. wanted \in GoodChild
  BY <1>2, <1>3, Adapting, Zenon
<1>5. /\ wanted.status = cached.status
      /\ wanted.status \in WorkloadStatus
      /\ wanted.exists
      /\ wanted.content = Desired(k, obj.spec)
  BY <1>2, <1>4, ChildFacts DEF Child
<1>6. cached.exists \in BOOLEAN /\ stored.exists \in BOOLEAN
  BY <1>2, ChildFacts
<1>7. \/ Fail
      \/ /\ Proceed(k, seen)
         /\ UNCHANGED child
         /\ k # "Deployment"
      \/ /\ StoreChild(k, wanted)
         /\ Proceed(k, wanted.status) \/ Proceed(k, seen)
         /\ ~stored.exists \/ (Controllable(cached) /\ Len(child[k]) = 1)
  BY <1>6, Zenon DEF CreateOrUpdate, Undefaulted, Current
<1>8. CASE Fail
  BY <1>8, <1>6, Failing DEF Spares
<1>9. CASE Proceed(k, seen) /\ UNCHANGED child /\ k # "Deployment"
  <2>1. Inv'
    BY <1>1, <1>3, <1>9, Proceeding
  <2> QED
    BY <2>1, <1>9 DEF Spares
<1>10. CASE /\ StoreChild(k, wanted)
            /\ Proceed(k, wanted.status) \/ Proceed(k, seen)
            /\ ~stored.exists \/ (Controllable(cached) /\ Len(child[k]) = 1)
  <2> HIDE DEF wanted
  <2>1. /\ child' \in Children
        /\ Last(child'[k]) = wanted
        /\ \A j \in Kinds \ {k} : child'[j] = child[j]
    BY <1>3, <1>4, <1>10, Storing
  <2>2. "Deployment" \in Kinds
    BY <1>3, KindFacts, BackendKinds DEF Inv, OnTrack
  <2>3. IF k = "Deployment"
        THEN ~storageEnabled(obj.spec) => ~Mounts(Last(child'["Deployment"]))
        ELSE child'["Deployment"] = child["Deployment"]
    <3>1. CASE k # "Deployment"
      BY <2>1, <2>2, <3>1
    <3>2. CASE k = "Deployment"
      <4>1. wanted.content = desiredDeployment(obj.spec)
        BY <1>5, <3>2 DEF Desired
      <4>2. desiredDeployment(obj.spec).claim = storageEnabled(obj.spec)
        BY DEF desiredDeployment
      <4> QED
        BY <2>1, <3>2, <4>1, <4>2 DEF Mounts
    <3> QED
      BY <3>1, <3>2
  <2>4. Inv'
    BY <1>1, <1>5, <1>10, <2>1, <2>3, Proceeding
  <2>5. Spares(stored, wanted)
    <3>1. stored.owner # Stranger
      BY <1>2, <1>10, ChildFacts DEF Controllable, Stranger, NoOwner
    <3> QED
      BY <3>1 DEF Spares
  <2> QED
    BY <1>5, <2>1, <2>4, <2>5
<1> QED
  BY <1>7, <1>8, <1>9, <1>10

\* Deleting an unwanted child keeps the invariant.
LEMMA Removing ==
    ASSUME Inv, NEW k \in Kinds \ {"InferenceService", "Deployment"}, pc = k,
           Remove(k),
           k = "HTTPRoute" => ~Unrenderable("HTTPRoute", obj.spec)
    PROVE  /\ Inv'
           /\ \A j \in Kinds \ {k} : child'[j] = child[j]
           /\ Spares(Last(child[k]), Last(child'[k]))
<1>1. Exists(obj) /\ obj \in GoodService /\ child \in Children
  BY KindFacts DEF Inv, OnTrack
<1>2. "Deployment" \in Kinds
  BY <1>1, KindFacts, BackendKinds DEF Inv, OnTrack
<1>3. seen \in WorkloadStatus
  BY DEF Inv
<1>4. CASE Fail
  BY <1>4, Failing DEF Spares
<1>5. CASE Proceed(k, seen) /\ UNCHANGED child
  <2>1. Inv'
    BY <1>1, <1>3, <1>5, Proceeding
  <2> QED
    BY <2>1, <1>5 DEF Spares
<1>6. CASE StoreChild(k, NoChild) /\ Proceed(k, seen)
  <2>1. /\ child' \in Children
        /\ Last(child'[k]) = NoChild
        /\ \A j \in Kinds \ {k} : child'[j] = child[j]
    BY <1>1, <1>6, Nothing, Storing
  <2>2. Inv'
    BY <1>2, <1>3, <1>6, <2>1, Proceeding
  <2> QED
    BY <2>1, <2>2, Nothing DEF Spares
<1> QED
  BY <1>4, <1>5, <1>6 DEF Remove

\* A claim is deleted only while the Deployment does not mount it.
SparesClaim(old, new, deployment) ==
    old.exists /\ ~new.exists => ~Mounts(Last(deployment))

\* What every step of the operator keeps.
OperatorKeeps ==
    /\ Inv'
    /\ \A k \in Kinds : Spares(Last(child[k]), Last(child'[k]))
    /\ "PersistentVolumeClaim" \in Kinds =>
         SparesClaim(Last(child["PersistentVolumeClaim"]),
                     Last(child'["PersistentVolumeClaim"]),
                     child["Deployment"])

\* A step that leaves the children alone only has to keep the invariant.
LEMMA Untouched ==
    ASSUME Inv', child' = child
    PROVE  OperatorKeeps
BY DEF OperatorKeeps, Spares, SparesClaim

\* The start of a pass.
LEMMA ReconcileKeeps ==
    ASSUME Inv, Reconcile
    PROVE  OperatorKeeps
<1>1. ms \in Versions(GoodService) /\ child' = child
  BY DEF Inv, Reconcile
<1>2. /\ Head(ms) \in GoodService
      /\ Len(ms) = 1 => Head(ms) = Last(ms)
  BY <1>1, Ends
<1>3. CASE ~Exists(Head(ms))
  <2>1. Inv'
    BY <1>3, Zenon DEF Inv, Reconcile, OnTrack
  <2> QED
    BY <1>1, <2>1, Untouched
<1>4. CASE /\ Exists(Head(ms))
           /\ backendForModelService(Head(ms).spec) = "KServe"
  <2>1. "InferenceService" \in Kinds
    BY <1>2, <1>4, BackendKinds
  <2>2. pc' = "InferenceService" /\ obj' = Head(ms)
    BY <1>4 DEF Reconcile
  <2>3. OnTrack(pc', obj', child'["Deployment"])
    BY <1>4, <2>2 DEF OnTrack
  <2>4. Inv'
    BY <1>2, <1>4, <2>1, <2>2, <2>3, Zenon DEF Inv, Reconcile, Steps
  <2> QED
    BY <1>1, <2>4, Untouched
<1>5. CASE /\ Exists(Head(ms))
           /\ backendForModelService(Head(ms).spec) # "KServe"
  <2>1. "Deployment" \in Kinds
    BY <1>2, <1>5, BackendKinds
  <2>2. pc' = StepAfter(0) /\ obj' = Head(ms)
    BY <1>5 DEF Reconcile
  <2>3. StepAfter(0) \in {"ServiceAccount", "Deployment"} \cap Kinds
    <3>1. 2 \in 1 .. 7 /\ 2 > 0 /\ ReconcileOrder[2] \in Kinds
      BY <2>1, Order
    <3>2. PICK j \in 1 .. 7 :
            /\ StepAfter(0) = ReconcileOrder[j]
            /\ ReconcileOrder[j] \in Kinds
            /\ \A l \in 1 .. 7 : 0 < l /\ l < j => ReconcileOrder[l] \notin Kinds
      BY <3>1, StepAfterIs
    <3>3. j \in {1, 2}
      BY <3>1, <3>2
    <3> QED
      BY <3>2, <3>3, Order
  <2>4. OnTrack(pc', obj', child'["Deployment"])
    BY <1>5, <2>2, <2>3 DEF OnTrack
  <2>5. Inv'
    BY <1>2, <1>5, <2>2, <2>3, <2>4, Zenon DEF Inv, Reconcile, Steps
  <2> QED
    BY <1>1, <2>5, Untouched
<1> QED
  BY <1>3, <1>4, <1>5

\* A step that creates or updates its child.
LEMMA WritingKeeps ==
    ASSUME Inv, NEW k \in Kinds \ {"InferenceService"}, pc = k,
           CreateOrUpdate(k),
           k = "HTTPRoute" => ~Unrenderable("HTTPRoute", obj.spec)
    PROVE  OperatorKeeps
<1>1. /\ Inv'
      /\ \A j \in Kinds \ {k} : child'[j] = child[j]
      /\ Spares(Last(child[k]), Last(child'[k]))
      /\ Last(child[k]).exists => Last(child'[k]).exists
  BY Writing
<1>2. \A j \in Kinds : Spares(Last(child[j]), Last(child'[j]))
  BY <1>1 DEF Spares
<1>3. ASSUME "PersistentVolumeClaim" \in Kinds
      PROVE  Last(child["PersistentVolumeClaim"]).exists =>
               Last(child'["PersistentVolumeClaim"]).exists
  BY <1>1, <1>3
<1> QED
  BY <1>1, <1>2, <1>3 DEF OperatorKeeps, SparesClaim

\* A step that deletes its child; the claim only when it is not mounted.
LEMMA RemovingKeeps ==
    ASSUME Inv, NEW k \in Kinds \ {"InferenceService", "Deployment"}, pc = k,
           Remove(k),
           k = "HTTPRoute" => ~Unrenderable("HTTPRoute", obj.spec),
           k = "PersistentVolumeClaim" => ~storageEnabled(obj.spec)
    PROVE  OperatorKeeps
<1>1. /\ Inv'
      /\ \A j \in Kinds \ {k} : child'[j] = child[j]
      /\ Spares(Last(child[k]), Last(child'[k]))
  BY Removing
<1>2. \A j \in Kinds : Spares(Last(child[j]), Last(child'[j]))
  BY <1>1 DEF Spares
<1>3. CASE k # "PersistentVolumeClaim"
  BY <1>1, <1>2, <1>3 DEF OperatorKeeps, SparesClaim
<1>4. CASE k = "PersistentVolumeClaim"
  <2>1. ~Mounts(Last(child["Deployment"]))
    BY <1>4 DEF Inv, OnTrack
  <2> QED
    BY <1>1, <1>2, <2>1 DEF OperatorKeeps, SparesClaim
<1> QED
  BY <1>3, <1>4

\* Server-side apply of the InferenceService.
LEMMA ApplyKeeps ==
    ASSUME Inv, applyInferenceService
    PROVE  OperatorKeeps
<1> DEFINE k == "InferenceService"
           stored == Last(child[k])
           wanted == [stored EXCEPT !.exists = TRUE, !.owner = obj.uid,
                                    !.content = Desired(k, obj.spec)]
<1>1. /\ pc = k /\ Exists(obj) /\ obj \in GoodService /\ child \in Children
      /\ backendForModelService(obj.spec) = "KServe"
      /\ seen \in WorkloadStatus
  BY DEF Inv, OnTrack, applyInferenceService
<1>2. k \in Kinds
  BY <1>1, BackendKinds
<1>3. stored \in GoodChild
  BY <1>1, <1>2, Ends DEF Children
<1>4. CASE Fail
  BY <1>4, Failing, Untouched
<1>5. CASE /\ ~Unrenderable(k, obj.spec)
           /\ ~stored.exists \/ Controllable(stored)
           /\ StoreChild(k, wanted)
           /\ Proceed(k, seen)
  <2>1. wanted \in GoodChild
    BY <1>1, <1>2, <1>3, Adapting, Zenon
  <2>2. wanted.exists
    BY <1>3, ChildFacts DEF Child
  <2> HIDE DEF wanted
  <2>3. /\ child' \in Children
        /\ Last(child'[k]) = wanted
        /\ \A j \in Kinds \ {k} : child'[j] = child[j]
    BY <1>1, <1>2, <1>5, <2>1, Storing
  <2>4. pc' = "read" /\ seen' = seen
    BY <1>5 DEF Proceed
  <2>5. OnTrack(pc', obj', child'["Deployment"])
    BY <1>1, <1>5, <2>4, KindFacts DEF OnTrack, Proceed
  <2>6. Inv'
    BY <1>1, <1>5, <2>3, <2>4, <2>5 DEF Inv, Proceed, Steps
  <2>7. stored.owner # Stranger
    BY <1>3, <1>5, ChildFacts DEF Controllable, Stranger, NoOwner
  <2>8. \A j \in Kinds : Spares(Last(child[j]), Last(child'[j]))
    BY <2>3, <2>7 DEF Spares
  <2> QED
    BY <2>3, <2>6, <2>8 DEF OperatorKeeps, SparesClaim
<1>6. Desired(k, obj.spec) = desiredInferenceServiceSpec(obj.spec)
  BY DEF Desired
<1>7. stored.exists \in BOOLEAN
  BY <1>3, ChildFacts
<1> QED
  BY <1>4, <1>5, <1>6, <1>7, Zenon DEF applyInferenceService

\* Reading the InferenceService back.
LEMMA ReadKeeps ==
    ASSUME Inv, readInferenceService
    PROVE  OperatorKeeps
<1> DEFINE stored == Last(child["InferenceService"])
<1>1. /\ pc = "read" /\ Exists(obj) /\ obj \in GoodService
      /\ child \in Children
      /\ backendForModelService(obj.spec) = "KServe"
  BY DEF Inv, OnTrack, readInferenceService
<1>2. "InferenceService" \in Kinds
  BY <1>1, BackendKinds
<1>3. stored.status \in WorkloadStatus
  BY <1>1, <1>2, Ends, ChildFacts DEF Children
<1>4. CASE Fail
  BY <1>4, Failing, Untouched
<1>5. CASE /\ pc' = "inferenceStatus"
           /\ seen' = stored.status
           /\ UNCHANGED <<ms, child, obj, fresh, queued, uids, budget>>
  <2>1. OnTrack(pc', obj', child'["Deployment"])
    BY <1>1, <1>5, KindFacts DEF Inv, OnTrack
  <2>2. Inv'
    BY <1>3, <1>5, <2>1 DEF Inv, Steps
  <2> QED
    BY <1>5, <2>2, Untouched
<1> QED
  BY <1>4, <1>5 DEF readInferenceService

\* A status update that fits the spec of the pass.
LEMMA StatusKeeps ==
    ASSUME Inv, NEW status \in StatusType, UpdateStatus(status), Exists(obj),
           StatusFits([obj EXCEPT !.status = status])
    PROVE  OperatorKeeps
<1> DEFINE m == [obj EXCEPT !.status = status]
<1>1. m \in GoodService
  <2>1. obj \in ServiceType /\ obj.spec \in Specs
    BY ServiceFacts DEF Inv
  <2> QED
    BY <2>1 DEF GoodService, ServiceType, Exists
<1> HIDE DEF m
<1>2. CASE Fail
  BY <1>2, Failing, Untouched
<1>3. CASE Leave(FALSE) /\ UNCHANGED <<ms, child, uids, budget>>
  <2>1. budget' \in Nat
    BY <1>3 DEF Inv
  <2> QED
    BY <1>3, <2>1, Leaving, Untouched, Zenon
<1>4. CASE LeaveStoring(m)
  <2>1. ms' \in Versions(GoodService)
    BY <1>1, <1>4, Appending DEF Inv, LeaveStoring, StoreService
  <2>2. OnTrack(pc', obj', child'["Deployment"])
    BY <1>4, KindFacts DEF OnTrack, LeaveStoring
  <2>3. Inv'
    BY <1>4, <2>1, <2>2, Nothing, Zenon
       DEF Inv, LeaveStoring, StoreService, Steps
  <2>4. child' = child
    BY <1>4 DEF LeaveStoring
  <2> QED
    BY <2>3, <2>4, Untouched
<1> QED
  BY <1>2, <1>3, <1>4, Zenon DEF UpdateStatus, m

\* Every step of the operator.
LEMMA OperatorStep ==
    ASSUME Inv, Operator
    PROVE  OperatorKeeps
<1>1. CASE Reconcile
  BY <1>1, ReconcileKeeps
<1>2. CASE reconcileServiceAccount
  <2>1. "ServiceAccount" \in Kinds
    BY <1>2 DEF Inv, Steps, reconcileServiceAccount
  <2> QED
    BY <1>2, <2>1, WritingKeeps DEF reconcileServiceAccount
<1>3. CASE reconcileDeployment
  <2>1. "Deployment" \in Kinds
    BY <1>3 DEF Inv, Steps, reconcileDeployment
  <2> QED
    BY <1>3, <2>1, WritingKeeps DEF reconcileDeployment
<1>4. CASE reconcileService
  <2>1. "Service" \in Kinds
    BY <1>4 DEF Inv, Steps, reconcileService
  <2> QED
    BY <1>4, <2>1, WritingKeeps DEF reconcileService
<1>5. CASE reconcilePersistentVolumeClaim
  <2>1. "PersistentVolumeClaim" \in Kinds
    BY <1>5 DEF Inv, Steps, reconcilePersistentVolumeClaim
  <2> QED
    BY <1>5, <2>1, WritingKeeps, RemovingKeeps
       DEF reconcilePersistentVolumeClaim
<1>6. CASE reconcilePodDisruptionBudget
  <2>1. "PodDisruptionBudget" \in Kinds
    BY <1>6 DEF Inv, Steps, reconcilePodDisruptionBudget
  <2> QED
    BY <1>6, <2>1, WritingKeeps, RemovingKeeps
       DEF reconcilePodDisruptionBudget
<1>7. CASE reconcileNetworkPolicy
  <2>1. "NetworkPolicy" \in Kinds
    BY <1>7 DEF Inv, Steps, reconcileNetworkPolicy
  <2> QED
    BY <1>7, <2>1, WritingKeeps, RemovingKeeps DEF reconcileNetworkPolicy
<1>8. CASE reconcileHTTPRoute
  <2>1. "HTTPRoute" \in Kinds
    BY <1>8 DEF Inv, Steps, reconcileHTTPRoute
  <2>2. CASE Fail
    BY <2>2, Failing, Untouched
  <2>3. CASE ~exposureForModelService(obj.spec).enabled /\ Remove("HTTPRoute")
    <3>1. ~Unrenderable("HTTPRoute", obj.spec)
      BY <2>3 DEF Unrenderable
    <3> QED
      BY <1>8, <2>1, <2>3, <3>1, RemovingKeeps DEF reconcileHTTPRoute
  <2>4. CASE /\ ~Unrenderable("HTTPRoute", obj.spec)
             /\ CreateOrUpdate("HTTPRoute")
    BY <1>8, <2>1, <2>4, WritingKeeps DEF reconcileHTTPRoute
  <2> QED
    BY <1>8, <2>2, <2>3, <2>4 DEF reconcileHTTPRoute
<1>9. CASE applyInferenceService
  BY <1>9, ApplyKeeps
<1>10. CASE readInferenceService
  BY <1>10, ReadKeeps
<1>11. CASE updateModelServiceStatus
  <2> DEFINE status == deploymentStatus(obj, seen)
             m == [obj EXCEPT !.status = status]
  <2>1. /\ obj \in GoodService /\ Exists(obj) /\ seen \in WorkloadStatus
        /\ backendForModelService(obj.spec) # "KServe"
        /\ "HTTPRoute" \in Kinds => ~Unrenderable("HTTPRoute", obj.spec)
    BY <1>11 DEF Inv, OnTrack, updateModelServiceStatus
  <2>2. status \in StatusType
    BY <2>1, StatusTypes
  <2>3. /\ status.observedGeneration = obj.generation
        /\ status.endpoint = [host |-> "Service", port |-> obj.spec.port]
        /\ status.phase = "Ready" => status.readyReplicas = obj.spec.replicas
    BY DEF deploymentStatus
  <2> HIDE DEF status
  <2>4. /\ m.generation = obj.generation /\ m.spec = obj.spec
        /\ m.status = status
    BY <2>1 DEF GoodService, ServiceType
  <2> HIDE DEF m
  <2>5. \A k \in KindsOf(m.spec) : ~Unrenderable(k, m.spec)
    BY <2>1, <2>4 DEF KindsOf, Unrenderable
  <2>6. StatusFits(m)
    BY <2>1, <2>3, <2>4, <2>5, ServiceFacts DEF StatusFits
  <2> QED
    BY <1>11, <2>1, <2>2, <2>6, StatusKeeps
       DEF updateModelServiceStatus, status, m
<1>12. CASE updateModelServiceStatusFromInferenceService
  <2> DEFINE status == inferenceServiceStatus(obj, seen)
             m == [obj EXCEPT !.status = status]
  <2>1. /\ obj \in GoodService /\ Exists(obj) /\ seen \in WorkloadStatus
        /\ backendForModelService(obj.spec) = "KServe"
        /\ ~Unrenderable("InferenceService", obj.spec)
    BY <1>12 DEF Inv, OnTrack, updateModelServiceStatusFromInferenceService
  <2>2. status \in StatusType
    BY <2>1, StatusTypes, SMTT(30)
  <2>3. /\ status.observedGeneration = obj.generation
        /\ status.phase = "Ready" => status.readyReplicas = obj.spec.replicas
    BY <2>1, ReplicasAsked DEF inferenceServiceStatus
  <2> HIDE DEF status
  <2>4. /\ m.generation = obj.generation /\ m.spec = obj.spec
        /\ m.status = status
    BY <2>1 DEF GoodService, ServiceType
  <2> HIDE DEF m
  <2>5. \A k \in KindsOf(m.spec) : ~Unrenderable(k, m.spec)
    BY <2>1, <2>4 DEF KindsOf
  <2>6. StatusFits(m)
    BY <2>1, <2>3, <2>4, <2>5, ServiceFacts DEF StatusFits
  <2> QED
    BY <1>12, <2>1, <2>2, <2>6, StatusKeeps
       DEF updateModelServiceStatusFromInferenceService, status, m
<1> QED
  BY <1>1, <1>2, <1>3, <1>4, <1>5, <1>6, <1>7, <1>8, <1>9, <1>10, <1>11,
     <1>12 DEF Operator

\* The stored objects satisfy what the invariant says of every version.
LEMMA StoredFacts ==
    ASSUME Inv
    PROVE  /\ Last(ms) \in GoodService
           /\ \A k \in Kinds : Last(child[k]) \in GoodChild
BY Ends DEF Inv, Children

\* Every step of the watches and of the garbage collector.
LEMMA KubernetesStep ==
    ASSUME Inv, Kubernetes
    PROVE  Inv'
<1>1. CASE DeliverService
  <2>1. Tail(ms) \in Versions(GoodService) /\ Last(Tail(ms)) = Last(ms)
    BY <1>1, Delivering DEF Inv, DeliverService
  <2> QED
    BY <1>1, <2>1 DEF Inv, DeliverService, Children
<1>2. ASSUME NEW k \in Kinds, DeliverChild(k)
      PROVE  Inv'
  <2>1. /\ Tail(child[k]) \in Versions(GoodChild)
        /\ Last(Tail(child[k])) = Last(child[k])
    BY <1>2, Delivering DEF Inv, DeliverChild, Children
  <2>2. child' = [child EXCEPT ![k] = Tail(child[k])]
    BY <1>2 DEF DeliverChild
  <2>3. child' \in Children
    BY <2>1, <2>2 DEF Inv, Children
  <2>4. "Deployment" \in Kinds =>
          Last(child'["Deployment"]) = Last(child["Deployment"])
    BY <2>1, <2>2 DEF Inv, Children
  <2>5. pc \in {"Service", "PersistentVolumeClaim"} => "Deployment" \in Kinds
    BY BackendKinds, Zenon DEF Inv, OnTrack, Steps
  <2>6. OnTrack(pc', obj', child'["Deployment"])
    BY <1>2, <2>4, <2>5, Zenon DEF Inv, OnTrack, DeliverChild
  <2> QED
    BY <1>2, <2>3, <2>6 DEF Inv, DeliverChild, Steps
<1>3. ASSUME NEW k \in Kinds, CollectChild(k)
      PROVE  Inv'
  <2>1. NoChild.content = Foreign
    BY DEF NoChild
  <2>2. budget' \in Nat
    BY <1>3 DEF CollectChild, Inv
  <2> QED
    BY <1>3, <2>1, <2>2, Nothing, Meddling DEF CollectChild
<1>4. CASE FinishDeletion
  <2>1. uids' \in Nat /\ budget' \in Nat
    BY <1>4 DEF FinishDeletion, Inv
  <2> QED
    BY <1>4, <2>1, Nothing, Changing DEF FinishDeletion
<1> QED
  BY <1>1, <1>2, <1>3, <1>4 DEF Kubernetes

\* The budget stays a number.
LEMMA SpendTypes ==
    ASSUME Inv, Spend
    PROVE  budget' \in Nat
BY DEF Inv, Spend

\* Users create, edit and delete the ModelService; an edit is a new
\* generation, which no status acknowledges yet.
LEMMA ServiceSteps ==
    ASSUME Inv, CreateService \/ EditService \/ DeleteService
    PROVE  Inv'
<1> DEFINE last == Last(ms)
<1>1. last \in GoodService /\ uids \in Nat
  BY StoredFacts DEF Inv
<1>2. CASE CreateService
  <2>1. PICK s \in Specs :
          StoreService([NoService EXCEPT !.uid = uids + 1, !.generation = 1,
                                         !.spec = s])
    BY <1>2, Zenon DEF CreateService
  <2> DEFINE u == uids + 1
             m == [NoService EXCEPT !.uid = u, !.generation = 1, !.spec = s]
  <2>2. m.status = NoStatus /\ m.generation = 1 /\ m.spec = s
    BY DEF NoService
  <2>3. m \in ServiceType
    <3>1. u \in Nat /\ s \in Specs \cup {NoSpec} /\ NoService \in ServiceType
      BY <1>1, Nothing DEF GoodService
    <3> HIDE DEF u
    <3> QED
      BY <3>1, Zenon DEF ServiceType
  <2>4. StatusFits(m)
    BY <2>2 DEF StatusFits, NoStatus
  <2>5. m \in GoodService
    BY <2>2, <2>3, <2>4, ZenonT(30) DEF GoodService
  <2>6. uids' \in Nat /\ UNCHANGED <<child, pc, obj, seen, queued>>
    <3>1. uids' = uids + 1 /\ UNCHANGED <<child, pc, obj, seen, queued>>
      BY <1>2, Zenon DEF CreateService
    <3> QED
      BY <1>1, <3>1
  <2>7. budget' \in Nat
    BY <1>2, SpendTypes, Zenon DEF CreateService
  <2>8. StoreService(m)
    BY <2>1, SMTT(30)
  <2> HIDE DEF m
  <2> QED
    BY <2>5, <2>6, <2>7, <2>8, Changing, SMTT(30)
<1>3. CASE EditService
  <2>1. PICK s \in Specs :
          StoreService([last EXCEPT !.generation = last.generation + 1,
                                    !.spec = s])
    BY <1>3, ZenonT(30) DEF EditService
  <2>2. Exists(last) /\ last \in ServiceType /\ StatusFits(last)
    BY <1>1, <1>3, Zenon DEF EditService, GoodService
  <2> HIDE DEF last
  <2> DEFINE m == [last EXCEPT !.generation = last.generation + 1, !.spec = s]
  <2>3. /\ m.status = last.status /\ m.generation = last.generation + 1
        /\ m.spec = s
    BY <2>2 DEF ServiceType
  <2>4. m \in ServiceType
    <3> DEFINE g == last.generation + 1
    <3>1. g \in Nat /\ s \in Specs \cup {NoSpec}
      BY <2>2 DEF ServiceType
    <3> HIDE DEF g
    <3>2. [last EXCEPT !.generation = g, !.spec = s] \in ServiceType
      BY <2>2, <3>1, Zenon DEF ServiceType
    <3> QED
      BY <3>2 DEF g
  <2>5. last.status.observedGeneration \in Nat /\ last.generation \in Nat
    BY <2>2 DEF ServiceType, StatusType
  <2>6. StatusFits(m)
    BY <2>2, <2>3, <2>5 DEF StatusFits
  <2>7. m \in GoodService
    BY <2>3, <2>4, <2>6, Zenon DEF GoodService
  <2>8. uids' \in Nat /\ UNCHANGED <<child, pc, obj, seen, queued>>
    BY <1>1, <1>3, Zenon DEF EditService
  <2> QED
    BY <1>3, <2>1, <2>7, <2>8, SpendTypes, Changing, ZenonT(30) DEF EditService
<1>4. CASE DeleteService
  <2>1. uids' \in Nat /\ UNCHANGED <<child, pc, obj, seen, queued>>
    BY <1>1, <1>4 DEF DeleteService
  <2>2. CASE StoreService(NoService)
    BY <1>4, <2>1, <2>2, Nothing, SpendTypes, Changing DEF DeleteService
  <2>3. CASE StoreService([last EXCEPT !.generation = last.generation + 1,
                                       !.deleting = TRUE])
    <3> DEFINE g == last.generation + 1
               m == [last EXCEPT !.generation = g, !.deleting = TRUE]
    <3>1. last \in ServiceType /\ StatusFits(last)
          /\ (Exists(last) => last.spec \in Specs)
      BY <1>1, Zenon DEF GoodService
    <3> HIDE DEF last
    <3>2. /\ g \in Nat /\ last.generation \in Nat
          /\ last.status.observedGeneration \in Nat
      BY <3>1 DEF ServiceType, StatusType
    <3>3. StoreService(m)
      BY <2>3, Zenon
    <3> HIDE DEF g
    <3>4. /\ m.status = last.status /\ m.generation = g
          /\ m.spec = last.spec /\ m.uid = last.uid /\ m \in ServiceType
      BY <3>1, <3>2, Zenon DEF ServiceType
    <3> HIDE DEF m
    <3>5. /\ m.status.observedGeneration <= m.generation
          /\ m.status.observedGeneration # m.generation
      BY <3>1, <3>2, <3>4 DEF StatusFits, g
    <3>6. StatusFits(m) /\ (Exists(m) => m.spec \in Specs)
      BY <3>1, <3>4, <3>5, Zenon DEF StatusFits, Exists
    <3>7. m \in GoodService
      BY <3>4, <3>6, Zenon DEF GoodService
    <3> QED
      BY <1>4, <2>1, <3>3, <3>7, SpendTypes, Changing, Zenon DEF DeleteService
  <2> QED
    BY <1>4, <2>2, <2>3 DEF DeleteService
<1> QED
  BY <1>2, <1>3, <1>4

\* Somebody else writes a child.
LEMMA MeddleStep ==
    ASSUME Inv, NEW k \in Kinds, NEW c \in GoodChild, Meddle(k, c),
           c.content \in {Foreign, Unrelated, Last(child[k]).content}
    PROVE  Inv'
BY SpendTypes, Meddling DEF Meddle

\* Somebody else writes a child, of which the operator makes what it finds:
\* the content is the stored one or foreign, and no ModelService gets control.
ByOthers(k) ==
    \E c \in GoodChild :
      /\ Meddle(k, c)
      /\ c.content \in {Foreign, Unrelated, Last(child[k]).content}
      /\ c.owner \in {Last(child[k]).owner, NoOwner, Stranger}

\* Somebody else deletes, edits, releases or creates a child.
LEMMA Meddled ==
    ASSUME Inv, NEW k \in Kinds,
           DeleteChild(k) \/ EditChild(k) \/ ReleaseChild(k) \/ CreateChild(k)
    PROVE  ByOthers(k)
<1> DEFINE stored == Last(child[k])
<1>1. stored \in GoodChild /\ stored \in Child
  BY StoredFacts, ChildFacts
<1>2. Foreign \in Contents /\ Unrelated \in Contents
  BY DEF Contents
<1>3. CASE DeleteChild(k)
  <2>1. NoChild.content = Foreign
    BY DEF NoChild
  <2> QED
    BY <1>3, <2>1, Nothing DEF DeleteChild, ByOthers
<1>4. CASE EditChild(k)
  <2> DEFINE c == [stored EXCEPT !.content = Foreign]
  <2>1. Meddle(k, c) /\ stored.exists
    BY <1>4 DEF EditChild
  <2> HIDE DEF stored
  <2>2. c \in GoodChild /\ c.content = Foreign /\ c.owner = stored.owner
    BY <1>1, <1>2, <2>1 DEF GoodChild, Child
  <2> QED
    BY <2>1, <2>2, Zenon DEF ByOthers, stored
<1>5. CASE ReleaseChild(k)
  <2> DEFINE c == [stored EXCEPT !.owner = NoOwner]
  <2>1. Meddle(k, c) /\ stored.exists
    <3>1. Meddle(k, c) /\ stored.owner > 0
      BY <1>5 DEF ReleaseChild
    <3> QED
      BY <1>1, <3>1, ChildFacts DEF NoOwner
  <2>2. c \in GoodChild /\ c.content = stored.content /\ c.owner = NoOwner
    <3> HIDE DEF stored
    <3> QED
      BY <1>1, <2>1 DEF GoodChild, Child, NoOwner
  <2> QED
    BY <2>1, <2>2, Zenon DEF ByOthers
<1>6. CASE CreateChild(k)
  <2>1. PICK o \in {NoOwner, Stranger}, x \in {Foreign, Unrelated} :
          Meddle(k, [NoChild EXCEPT !.exists = TRUE, !.owner = o,
                                    !.content = x])
    BY <1>6, Zenon DEF CreateChild
  <2> DEFINE c == [NoChild EXCEPT !.exists = TRUE, !.owner = o, !.content = x]
  <2>2. o \in Int /\ x \in Contents
    BY <1>2 DEF NoOwner, Stranger
  <2>3. c \in GoodChild /\ c.content = x /\ c.owner = o
    BY <2>2, Nothing, ZenonT(30) DEF GoodChild, Child, NoChild
  <2> QED
    BY <2>1, <2>3, Zenon DEF ByOthers
<1> QED
  BY <1>3, <1>4, <1>5, <1>6

\* The Deployment controller and KServe report.
LEMMA Reported ==
    ASSUME Inv, DeploymentProgress \/ InferenceProgress
    PROVE  \E k \in Kinds : ByOthers(k)
<1>1. ASSUME NEW k \in Kinds, NEW w \in WorkloadStatus,
             Last(child[k]).exists,
             Meddle(k, [Last(child[k]) EXCEPT !.status = w])
      PROVE  ByOthers(k)
  <2> DEFINE stored == Last(child[k])
             c == [stored EXCEPT !.status = w]
  <2>1. stored \in GoodChild
    BY StoredFacts
  <2>2. Meddle(k, c)
    BY <1>1
  <2>3. c \in GoodChild /\ c.content = stored.content /\ c.owner = stored.owner
    <3>1. stored.exists
      BY <1>1
    <3> HIDE DEF stored
    <3> QED
      BY <2>1, <3>1 DEF GoodChild, Child
  <2> HIDE DEF c
  <2> QED
    BY <2>2, <2>3 DEF ByOthers
<1>2. \A k \in Kinds : Last(child[k]).content \in Contents
  BY StoredFacts, ChildFacts DEF Child
<1>3. CASE DeploymentProgress
  <2> DEFINE k == "Deployment"
             content == Last(child[k]).content
             Report(n, a, late) ==
                [NoWorkload EXCEPT
                   !.of = content, !.readyReplicas = n,
                   !.availableReplicas = a, !.deadlineExceeded = late]
  <2>1. k \in Kinds /\ Last(child[k]).exists
    BY <1>3, Zenon DEF DeploymentProgress
  <2>2. PICK n \in ReadyCounts, a \in ReadyCounts, late \in BOOLEAN :
          Meddle(k, [Last(child[k]) EXCEPT !.status = Report(n, a, late)])
    BY <1>3, Zenon DEF DeploymentProgress
  <2>3. n \in Nat /\ a \in Nat
    BY ReconcilerConstants
  <2>4. content \in Contents
    BY <1>2, <2>1
  <2>5. Report(n, a, late) \in WorkloadStatus
    <3> HIDE DEF content
    <3> QED
      BY <2>3, <2>4, Nothing, ZenonT(30) DEF WorkloadStatus
  <2> HIDE DEF Report
  <2> QED
    BY <1>1, <2>1, <2>2, <2>5
<1>4. CASE InferenceProgress
  <2> DEFINE k == "InferenceService"
             content == Last(child[k]).content
             URL(c) == IF c = "True" THEN "url" ELSE Empty
             Report(c, why, s, t) ==
                [NoWorkload EXCEPT !.of = content, !.ready = c, !.reason = why,
                                   !.targetModelState = s,
                                   !.transitionStatus = t, !.url = URL(c)]
  <2>1. k \in Kinds /\ Last(child[k]).exists
    BY <1>4, Zenon DEF InferenceProgress
  <2>2. PICK c \in Conditions, why \in Reasons, s \in TargetStates,
             t \in Transitions :
          Meddle(k, [Last(child[k]) EXCEPT !.status = Report(c, why, s, t)])
    BY <1>4, Zenon DEF InferenceProgress
  <2>3. URL(c) \in {Empty, "url"}
    OBVIOUS
  <2>4. content \in Contents
    BY <1>2, <2>1
  <2>5. Report(c, why, s, t) \in WorkloadStatus
    <3> HIDE DEF content, URL
    <3> QED
      BY <2>3, <2>4, Nothing, Zenon DEF WorkloadStatus
  <2> HIDE DEF Report
  <2> QED
    BY <1>1, <2>1, <2>2, <2>5
<1> QED
  BY <1>3, <1>4

\* Every step of users, workloads and faults.
LEMMA OutsideStep ==
    ASSUME Inv, Outside
    PROVE  Inv'
<1>1. CASE CreateService \/ EditService \/ DeleteService
  BY Zenon, <1>1, ServiceSteps
<1>2. ASSUME NEW k \in Kinds,
             DeleteChild(k) \/ EditChild(k) \/ ReleaseChild(k) \/ CreateChild(k)
      PROVE  Inv'
  BY <1>2, Meddled, MeddleStep DEF ByOthers
<1>3. CASE DeploymentProgress \/ InferenceProgress
  BY <1>3, Reported, MeddleStep DEF ByOthers
<1>4. CASE Abort
  BY <1>4, SpendTypes, Leaving, Zenon DEF Abort
<1>5. CASE Restart
  <2>1. ms' \in Versions(GoodService)
    BY <1>5, StoredFacts, Single DEF Restart
  <2>2. child' \in Children
    <3>1. \A k \in Kinds : <<Last(child[k])>> \in Versions(GoodChild)
      BY Zenon, StoredFacts, Single
    <3> QED
      BY <1>5, <3>1 DEF Restart, Children
  <2>3. OnTrack(pc', obj', child'["Deployment"])
    BY <1>5, KindFacts DEF OnTrack, Restart
  <2>4. budget' \in Nat
    BY <1>5, SpendTypes DEF Restart
  <2> QED
    BY <1>5, <2>1, <2>2, <2>3, <2>4, Nothing, Zenon DEF Inv, Restart, Steps
<1> QED
  BY <1>1, <1>2, <1>3, <1>4, <1>5 DEF Outside

(***************************************************************************)
(* The theorems                                                            *)
(***************************************************************************)

\* The invariant holds initially.
LEMMA Initially == Init => Inv
<1> SUFFICES ASSUME Init PROVE Inv
  OBVIOUS
<1>1. <<NoService>> \in Versions(GoodService)
  BY Nothing, Single
<1>2. <<NoChild>> \in Versions(GoodChild)
  BY Nothing, Single
<1>3. OnTrack(pc, obj, child["Deployment"])
  BY KindFacts DEF Init, OnTrack
<1> QED
  BY <1>1, <1>2, <1>3, Nothing, ReconcilerConstants, Zenon
     DEF Init, Inv, Children, Steps

\* Inv is inductive: every step of the operator, of Kubernetes and of
\* everybody else keeps it.
THEOREM Invariance == Spec => []Inv
<1>1. Inv /\ [Next]_vars => Inv'
  <2> SUFFICES ASSUME Inv, [Next]_vars
               PROVE  Inv'
    OBVIOUS
  <2>1. CASE Operator
    BY <2>1, OperatorStep DEF OperatorKeeps
  <2>2. CASE Kubernetes
    BY <2>2, KubernetesStep
  <2>3. CASE Outside
    BY <2>3, OutsideStep
  <2>4. CASE UNCHANGED vars
    BY <2>4 DEF vars, Inv, Children, Versions
  <2> QED
    BY <2>1, <2>2, <2>3, <2>4 DEF Next
<1> QED
  BY <1>1, Initially, PTL DEF Spec

\* Every variable keeps its type.
THEOREM TypeCorrectness == Spec => []TypeOK
<1>1. Inv => TypeOK
  <2> SUFFICES ASSUME Inv PROVE TypeOK
    OBVIOUS
  <2>1. GoodService \subseteq ServiceType /\ GoodChild \subseteq Child
    BY DEF GoodService, GoodChild
  <2>2. ms \in Seq(ServiceType) \ {<<>>}
    BY <2>1, Widening DEF Inv, Versions
  <2>3. child \in [Kinds -> Seq(Child) \ {<<>>}]
    BY <2>1, Widening DEF Inv, Children, Versions
  <2> QED
    BY <2>1, <2>2, <2>3 DEF TypeOK, Inv
<1> QED
  BY <1>1, Invariance, PTL

\* The status that acknowledges a generation is of that generation's spec and
\* of a pass that got through every child (updateModelServiceStatus).
THEOREM StatusIsTruthful == Spec => []StatusDescribesSpec
<1>1. Inv => StatusDescribesSpec
  BY StoredFacts DEF StatusDescribesSpec, GoodService
<1> QED
  BY <1>1, Invariance, PTL

\* No step of the operator overwrites or takes over a child that another
\* controller controls at that moment (SetControllerReference, Update).
THEOREM StrangersAreSafe == Spec => OverwritesNoStranger
<1>1. Inv /\ [Next]_vars =>
        [Operator => \A k \in Kinds :
           LET old == Last(child[k])
               new == Last(child'[k])
           IN old.owner = Stranger /\ new.exists => new = old]_vars
  BY OperatorStep DEF OperatorKeeps, Spares
<1> QED
  BY <1>1, Invariance, PTL DEF Spec, OverwritesNoStranger

\* No step of the operator deletes a claim the stored Deployment mounts: the
\* order of Reconcile and the resourceVersion of its Updates see to it.
THEOREM MountedClaimsAreSafe == Spec => ClaimOutlivesMount
<1>1. Inv /\ [Next]_vars =>
        [(Operator /\ "PersistentVolumeClaim" \in Kinds) =>
           LET old == Last(child["PersistentVolumeClaim"])
               new == Last(child'["PersistentVolumeClaim"])
           IN old.exists /\ ~new.exists =>
                ~Mounts(Last(child["Deployment"]))]_vars
  BY OperatorStep DEF OperatorKeeps, SparesClaim
<1> QED
  BY <1>1, Invariance, PTL DEF Spec, ClaimOutlivesMount

(***************************************************************************)
(* The operator keeps to its part of the ModelService                      *)
(***************************************************************************)

\* Nothing is left of a ModelService that is gone.
GoneIsClean == ~Exists(Last(ms)) => Last(ms) = NoService

\* The shared part of a ModelService, field by field.
LEMMA SharedFields ==
    ASSUME NEW m
    PROVE  /\ SharedPart(m).uid = m.uid
           /\ SharedPart(m).generation = m.generation
           /\ SharedPart(m).observed = m.status.observedGeneration
           /\ SharedPart(m).spec = m.spec
BY DEF SharedPart

\* SharedModelService admits what the CRD admits, and its absent object is
\* that of the operator.
LEMMA SharedAdmission ==
    /\ \A s : Shared!CRDValid(s) <=> CRDValid(s)
    /\ \A s, t : Shared!CRDTransition(s, t) <=> CRDTransition(s, t)
    /\ Shared!Absent = SharedPart(NoService)
    /\ \A m : Exists(m) => SharedPart(m) # Shared!Absent
<1>1. Shared!Ports = Ports
  BY DEF Shared!Ports, Ports
<1>2. Shared!NoSpec = NoSpec
  BY Zenon DEF Shared!NoSpec, NoSpec, Shared!NoExposure, NoExposure,
     Shared!NoStorage, NoStorage, Shared!NoSecurity, NoSecurity,
     Shared!NoRollout, NoRollout, Shared!NoBudget, NoBudget, Shared!NoPolicy,
     NoPolicy, Shared!Empty, Empty
<1>3. Shared!Absent = SharedPart(NoService)
  BY <1>2 DEF Shared!Absent, SharedPart, NoService, NoStatus
<1>4. \A m : Exists(m) => SharedPart(m) # Shared!Absent
  BY SharedFields DEF Shared!Absent, Exists
<1> QED
  BY <1>1, <1>3, <1>4, ZenonT(60) DEF Shared!CRDValid, CRDValid,
     Shared!CRDTransition, CRDTransition, Shared!Empty, Empty

\* A version of the ModelService in the terms of SharedModelService.
LEMMA SharedTypes ==
    ASSUME NEW m \in GoodService
    PROVE  SharedPart(m) \in [uid : Nat, generation : Nat, observed : Nat,
                              spec : Specs \cup {NoSpec}]
<1>1. m.uid \in Nat /\ m.generation \in Nat /\ m.spec \in Specs \cup {NoSpec}
      /\ m.status \in StatusType
  BY Zenon DEF GoodService, ServiceType
<1>2. m.status.observedGeneration \in Nat
  BY <1>1, Zenon DEF StatusType
<1> QED
  BY <1>1, <1>2, Zenon DEF SharedPart

\* The version the API server stores is the one that StoreService appends.
LEMMA StoredLast ==
    ASSUME Inv, NEW m, StoreService(m)
    PROVE  Last(ms)' = m
<1>1. ms \in Seq(GoodService)
  BY DEF Inv, Versions
<1>2. ms' = Append(ms, m)
  BY DEF StoreService
<1>3. Len(Append(ms, m)) = Len(ms) + 1 /\ Append(ms, m)[Len(ms) + 1] = m
  BY <1>1
<1> QED
  BY <1>2, <1>3 DEF Last

\* A ModelService is created.
LEMMA CreateShared ==
    ASSUME Inv, GoneIsClean, CreateService
    PROVE  Shared!Create /\ Exists(Last(ms)')
<1>1. PICK s \in Specs :
        StoreService([NoService EXCEPT !.uid = uids + 1, !.generation = 1,
                                       !.spec = s])
  BY Zenon DEF CreateService
<1> DEFINE u == uids + 1
           m == [NoService EXCEPT !.uid = u, !.generation = 1, !.spec = s]
<1>2. u # 0 /\ uids' = u
  <2>1. uids' = u
    BY Zenon DEF CreateService
  <2>2. uids \in Nat
    BY DEF Inv
  <2> QED
    BY <2>1, <2>2
<1>3. StoreService(m)
  BY <1>1, Zenon
<1> HIDE DEF u
<1>4. /\ m.uid = u /\ m.generation = 1 /\ m.spec = s
      /\ m.status.observedGeneration = 0
  BY DEF NoService, NoStatus
<1> HIDE DEF m
<1>5. Last(ms)' = m
  BY <1>3, StoredLast, Zenon
<1>6. SharedPart(Last(ms))' = [uid |-> u, generation |-> 1, observed |-> 0,
                               spec |-> s]
  BY <1>4, <1>5, Zenon DEF SharedPart
<1>7. SharedPart(Last(ms))'.spec = s
  BY <1>6
<1>8. SharedPart(Last(ms)) = Shared!Absent
  BY SharedAdmission, Zenon DEF CreateService, GoneIsClean
<1>9. Shared!CRDValid(s)
  BY SharedAdmission, ReconcilerConstants, Zenon
<1>10. Exists(Last(ms)')
  BY <1>2, <1>4, <1>5, Zenon DEF Exists
<1> QED
  BY <1>2, <1>6, <1>7, <1>8, <1>9, <1>10, Zenon DEF Shared!Create, u

\* A new generation with an admitted spec and the status that is stored.
LEMMA ChangeShared ==
    ASSUME Inv, NEW m, Last(ms)' = m, UNCHANGED uids, Exists(Last(ms)),
           m.uid = Last(ms).uid, m.generation = Last(ms).generation + 1,
           m.status = Last(ms).status, CRDValid(m.spec),
           CRDTransition(Last(ms).spec, m.spec)
    PROVE  Shared!Change /\ Exists(Last(ms)')
<1> DEFINE part == SharedPart(Last(ms))
           s == m.spec
<1>1. Last(ms) \in GoodService
  BY StoredFacts
<1>2. part \in [uid : Nat, generation : Nat, observed : Nat,
                spec : Specs \cup {NoSpec}]
  BY <1>1, SharedTypes, Zenon
<1>3. /\ part.uid = Last(ms).uid /\ part.generation = Last(ms).generation
      /\ part.observed = Last(ms).status.observedGeneration
      /\ part.spec = Last(ms).spec
  BY SharedFields, Zenon
<1>4. part # Shared!Absent
  BY SharedAdmission, Zenon
<1>5. Shared!CRDValid(s) /\ Shared!CRDTransition(part.spec, s)
  BY <1>3, SharedAdmission, Zenon
<1> HIDE DEF part
<1>6. SharedPart(Last(ms))' = [uid |-> part.uid,
                               generation |-> part.generation + 1,
                               observed |-> part.observed, spec |-> s]
  BY <1>3, Zenon DEF SharedPart
<1> HIDE DEF s
<1>7. ASSUME NEW g, g = [part EXCEPT !.generation = @ + 1, !.spec = s]
      PROVE  g = [uid |-> part.uid, generation |-> part.generation + 1,
                  observed |-> part.observed, spec |-> s]
  BY <1>2, <1>7, Zenon
<1>8. SharedPart(Last(ms))' = [part EXCEPT !.generation = @ + 1, !.spec = s]
  BY <1>6, <1>7, Zenon
<1>9. SharedPart(Last(ms))'.spec = s
  BY <1>6
<1>10. Shared!Change
  BY <1>4, <1>5, <1>8, <1>9, Zenon DEF Shared!Change, part
<1> QED
  BY <1>10, Zenon DEF Exists

\* Users and the garbage collector create, change and remove the ModelService.
LEMMA OthersShared ==
    ASSUME Inv, GoneIsClean, Kubernetes \/ Outside
    PROVE  /\ UNCHANGED <<Last(ms), uids>> \/ Shared!Users
           /\ GoneIsClean'
<1> DEFINE last == Last(ms)
<1>1. last \in GoodService
  BY StoredFacts
<1>2. CASE UNCHANGED <<Last(ms), uids>>
  BY <1>2, Zenon DEF GoneIsClean
<1>3. CASE Shared!Users /\ Exists(Last(ms)')
  BY <1>3, Zenon DEF GoneIsClean
<1>4. ASSUME StoreService(NoService), Exists(Last(ms)), UNCHANGED uids
      PROVE  Shared!Users /\ GoneIsClean'
  <2>1. Last(ms)' = NoService
    BY <1>4, StoredLast, Zenon
  <2>2. /\ SharedPart(Last(ms))' = Shared!Absent
        /\ SharedPart(Last(ms)) # Shared!Absent
    BY <1>4, <2>1, SharedAdmission, Zenon DEF SharedPart
  <2>3. Shared!Remove
    BY <1>4, <2>2, Zenon DEF Shared!Remove
  <2> QED
    BY <2>1, <2>3, Zenon DEF Shared!Users, GoneIsClean
<1>5. ASSUME UNCHANGED <<ms, uids>>
      PROVE  UNCHANGED <<Last(ms), uids>>
  BY <1>5, Zenon DEF Last
<1>6. CASE CreateService
  BY <1>3, <1>6, CreateShared, Zenon DEF Shared!Users
<1>7. CASE EditService
  <2>1. PICK s \in Specs :
          /\ CRDTransition(last.spec, s)
          /\ StoreService([last EXCEPT !.generation = last.generation + 1,
                                       !.spec = s])
    BY <1>7, ZenonT(30) DEF EditService
  <2> DEFINE m == [last EXCEPT !.generation = last.generation + 1, !.spec = s]
  <2>2. last \in ServiceType /\ Exists(last) /\ UNCHANGED uids
    BY <1>1, <1>7, Zenon DEF EditService, GoodService
  <2>3. Last(ms)' = m
    BY <2>1, StoredLast, Zenon
  <2>4. CRDValid(s)
    BY ReconcilerConstants, Zenon
  <2> HIDE DEF last
  <2>5. /\ m.status = last.status /\ m.generation = last.generation + 1
        /\ m.spec = s /\ m.uid = last.uid
    BY <2>2, Zenon DEF ServiceType
  <2> HIDE DEF m
  <2> QED
    BY <1>3, <2>1, <2>2, <2>3, <2>4, <2>5, ChangeShared, Zenon
    DEF Shared!Users, last
<1>8. CASE DeleteService
  <2>1. Exists(last) /\ UNCHANGED uids
    BY <1>8, Zenon DEF DeleteService
  <2>2. CASE StoreService(NoService)
    BY <1>4, <2>1, <2>2, Zenon
  <2>3. CASE StoreService([last EXCEPT !.generation = last.generation + 1,
                                       !.deleting = TRUE])
    <3> DEFINE m == [last EXCEPT !.generation = last.generation + 1,
                                 !.deleting = TRUE]
    <3>1. last \in ServiceType /\ last.spec \in Specs
      BY <1>1, <2>1, Zenon DEF GoodService
    <3>2. Last(ms)' = m
      BY <2>3, StoredLast, Zenon
    <3>3. CRDValid(last.spec) /\ CRDTransition(last.spec, last.spec)
      BY <3>1, ReconcilerConstants, Zenon DEF CRDTransition
    <3> HIDE DEF last
    <3>4. /\ m.status = last.status /\ m.generation = last.generation + 1
          /\ m.spec = last.spec /\ m.uid = last.uid
      BY <3>1, Zenon DEF ServiceType
    <3> HIDE DEF m
    <3> QED
      BY <1>3, <2>1, <3>2, <3>3, <3>4, ChangeShared, Zenon
      DEF Shared!Users, last
  <2> QED
    BY <1>8, <2>2, <2>3, Zenon DEF DeleteService
<1>9. CASE FinishDeletion
  <2>1. last.deleting /\ StoreService(NoService) /\ UNCHANGED uids
    BY <1>9, Zenon DEF FinishDeletion
  <2>2. ~NoService.deleting
    BY DEF NoService
  <2>3. Exists(last)
    BY <2>1, <2>2, Zenon DEF GoneIsClean
  <2> QED
    BY <1>4, <2>1, <2>3, Zenon
<1>10. CASE DeliverService
  <2>1. Last(ms)' = Last(ms) /\ UNCHANGED uids
    <3>1. Last(Tail(ms)) = Last(ms)
      BY <1>10, Delivering DEF Inv, DeliverService
    <3> QED
      BY <1>10, <3>1, Zenon DEF DeliverService, Last
  <2> QED
    BY <1>2, <2>1, Zenon
<1>11. CASE \E k \in Kinds : DeliverChild(k) \/ CollectChild(k)
  BY <1>2, <1>5, <1>11, Zenon DEF DeliverChild, CollectChild
<1>12. CASE \E k \in Kinds : \/ DeleteChild(k) \/ EditChild(k)
                             \/ ReleaseChild(k) \/ CreateChild(k)
  <2>1. UNCHANGED <<ms, uids>>
    BY <1>12, Zenon DEF DeleteChild, EditChild, ReleaseChild, CreateChild,
       Meddle
  <2> QED
    BY <1>2, <1>5, <2>1, Zenon
<1>13. CASE DeploymentProgress \/ InferenceProgress \/ Abort
  <2>1. UNCHANGED <<ms, uids>>
    BY <1>13, Zenon DEF DeploymentProgress, InferenceProgress, Abort, Meddle
  <2> QED
    BY <1>2, <1>5, <2>1, Zenon
<1>14. CASE Restart
  <2>1. ms' = <<last>> /\ UNCHANGED uids
    BY <1>14, Zenon DEF Restart
  <2>2. Last(<<last>>) = last
    BY DEF Last
  <2>3. Last(ms)' = Last(ms)
    BY <2>1, <2>2, Zenon DEF Last
  <2> QED
    BY <1>2, <2>1, <2>3, Zenon
<1> QED
  BY <1>6, <1>7, <1>8, <1>9, <1>10, <1>11, <1>12, <1>13, <1>14, Zenon
  DEF Kubernetes, Outside

\* The one write of a pass to the ModelService meets the version it read.
LEMMA StatusShared ==
    ASSUME Inv, GoneIsClean, NEW status, UpdateStatus(status), Exists(obj),
           status.observedGeneration = obj.generation
    PROVE  /\ UNCHANGED <<Last(ms), uids>> \/ Shared!Acknowledge
           /\ GoneIsClean'
<1>1. CASE UNCHANGED <<ms, uids>>
  BY <1>1, Zenon DEF GoneIsClean, Last
<1>2. CASE fresh /\ LeaveStoring([obj EXCEPT !.status = status])
  <2> DEFINE m == [obj EXCEPT !.status = status]
             part == SharedPart(Last(ms))
  <2>1. obj = Last(ms) /\ obj \in GoodService /\ UNCHANGED uids
    BY <1>2, Zenon DEF Inv, LeaveStoring
  <2>2. Last(ms)' = m
    BY <1>2, StoredLast, Zenon DEF LeaveStoring
  <2>3. /\ m.uid = obj.uid /\ m.generation = obj.generation
        /\ m.spec = obj.spec /\ m.status = status
    BY <2>1, Zenon DEF GoodService, ServiceType
  <2> HIDE DEF m
  <2>4. part \in [uid : Nat, generation : Nat, observed : Nat,
                  spec : Specs \cup {NoSpec}]
    BY <2>1, SharedTypes, Zenon
  <2>5. /\ part.uid = obj.uid /\ part.generation = obj.generation
        /\ part.spec = obj.spec
    BY <2>1, SharedFields, Zenon
  <2>6. part # Shared!Absent
    BY <2>1, SharedAdmission, Zenon
  <2> HIDE DEF part
  <2>7. SharedPart(Last(ms))' = [uid |-> part.uid, generation |-> part.generation,
                                 observed |-> part.generation,
                                 spec |-> part.spec]
    BY <2>2, <2>3, <2>5, Zenon DEF SharedPart
  <2>8. ASSUME NEW g, g = [part EXCEPT !.observed = part.generation]
        PROVE  g = [uid |-> part.uid, generation |-> part.generation,
                    observed |-> part.generation, spec |-> part.spec]
    BY <2>4, <2>8, Zenon
  <2>9. SharedPart(Last(ms))' = [part EXCEPT !.observed = part.generation]
    BY <2>7, <2>8, Zenon
  <2>10. Shared!Acknowledge
    BY <2>1, <2>6, <2>9, Zenon DEF Shared!Acknowledge, part
  <2>11. Exists(Last(ms)')
    BY <2>2, <2>3, Zenon DEF Exists
  <2> QED
    BY <2>10, <2>11, Zenon DEF GoneIsClean
<1> QED
  BY <1>1, <1>2, Zenon DEF UpdateStatus, Fail

\* Every other step of a pass leaves the ModelService alone.
LEMMA OperatorShared ==
    ASSUME Inv, GoneIsClean, Operator
    PROVE  /\ UNCHANGED <<Last(ms), uids>> \/ Shared!Acknowledge
           /\ GoneIsClean'
<1>1. ASSUME UNCHANGED <<ms, uids>>
      PROVE  UNCHANGED <<Last(ms), uids>> /\ GoneIsClean'
  BY <1>1, Zenon DEF Last, GoneIsClean
<1>2. ASSUME NEW k, CreateOrUpdate(k)
      PROVE  UNCHANGED <<ms, uids>>
  BY <1>2, Zenon DEF CreateOrUpdate, Proceed, Fail
<1>3. ASSUME NEW k, Remove(k)
      PROVE  UNCHANGED <<ms, uids>>
  BY <1>3, Zenon DEF Remove, Proceed, Fail
<1>4. CASE \/ Reconcile \/ reconcileServiceAccount \/ reconcileDeployment
           \/ reconcileService \/ reconcilePersistentVolumeClaim
           \/ reconcilePodDisruptionBudget \/ reconcileNetworkPolicy
           \/ reconcileHTTPRoute \/ applyInferenceService
           \/ readInferenceService
  <2>1. UNCHANGED <<ms, uids>>
    BY <1>2, <1>3, <1>4, Zenon
    DEF Reconcile, reconcileServiceAccount, reconcileDeployment,
        reconcileService, reconcilePersistentVolumeClaim,
        reconcilePodDisruptionBudget, reconcileNetworkPolicy,
        reconcileHTTPRoute, applyInferenceService, readInferenceService,
        Proceed, Fail
  <2> QED
    BY <1>1, <2>1, Zenon
<1>5. CASE updateModelServiceStatus
  <2>1. deploymentStatus(obj, seen).observedGeneration = obj.generation
    BY DEF deploymentStatus
  <2>2. UpdateStatus(deploymentStatus(obj, seen)) /\ Exists(obj)
    BY <1>5 DEF updateModelServiceStatus, Inv, OnTrack
  <2> QED
    BY <2>1, <2>2, StatusShared, Zenon
<1>6. CASE updateModelServiceStatusFromInferenceService
  <2>1. inferenceServiceStatus(obj, seen).observedGeneration = obj.generation
    BY DEF inferenceServiceStatus
  <2>2. UpdateStatus(inferenceServiceStatus(obj, seen)) /\ Exists(obj)
    BY <1>6 DEF updateModelServiceStatusFromInferenceService, Inv, OnTrack
  <2> QED
    BY <2>1, <2>2, StatusShared, Zenon
<1> QED
  BY <1>4, <1>5, <1>6, Zenon DEF Operator

\* Whatever version a pass read, and whatever users did since, the operator
\* changes no more of the stored ModelService than the generation its status
\* acknowledges, and that to the newest one; the desired state changes by
\* users and the garbage collector alone.
THEOREM PartsKept == Spec => KeepsItsPart
<1>1. Init => Shared!Init /\ GoneIsClean
  <2> SUFFICES ASSUME Init PROVE Shared!Init /\ GoneIsClean
    OBVIOUS
  <2>1. Last(ms) = NoService
    BY DEF Init, Last
  <2> QED
    BY <2>1, SharedAdmission, Zenon DEF Init, Shared!Init, GoneIsClean
<1>2. ASSUME Inv, GoneIsClean, [Next]_vars
      PROVE  /\ \/ UNCHANGED <<SharedPart(Last(ms)), uids>>
                \/ Operator /\ Shared!Acknowledge
                \/ ~Operator /\ Shared!Users
             /\ GoneIsClean'
  <2>1. UNCHANGED <<Last(ms), uids>> => UNCHANGED <<SharedPart(Last(ms)), uids>>
    BY Zenon DEF SharedPart
  <2>2. CASE Operator
    BY <1>2, <2>1, <2>2, OperatorShared, Zenon
  <2>3. CASE ~Operator /\ (Kubernetes \/ Outside)
    BY <1>2, <2>1, <2>3, OthersShared, Zenon
  <2>4. CASE UNCHANGED vars
    <3>1. UNCHANGED <<Last(ms), uids>>
      BY <2>4, Zenon DEF vars, Last
    <3> QED
      BY <1>2, <2>1, <3>1, Zenon DEF GoneIsClean
  <2> QED
    BY <1>2, <2>2, <2>3, <2>4, Zenon DEF Next
<1>3. Inv /\ GoneIsClean /\ [Next]_vars =>
        /\ GoneIsClean'
        /\ [IF Operator THEN Shared!Acknowledge ELSE Shared!Users]_<<
             SharedPart(Last(ms)), uids>>
  BY <1>2, Zenon
<1> QED
  BY <1>1, <1>3, Invariance, PTL DEF Spec, KeepsItsPart

===============================================================================
