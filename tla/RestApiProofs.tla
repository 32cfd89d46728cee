----------------------------- MODULE RestApiProofs -----------------------------
(***************************************************************************)
(* Proofs about RestApi, for any set of requests, any request bodies and   *)
(* any number of writes by others.                                         *)
(***************************************************************************)
EXTENDS RestApi, TLAPS

\* A sent write carries what the request asks for, computed on the object
\* that was read; that object existed, was not GitOps-managed and, as every
\* stored object, had been admitted.
SentInv(q) ==
    /\ q.method = "POST" =>
         /\ q.body \in CreateInputs
         /\ ValidateCreateModelService(q.body)
         /\ q.want = createRequestToModelService(q.body)
    /\ q.method # "POST" => Mutable(q.snap) /\ CRDValid(q.snap.spec)
    /\ q.method = "PUT" =>
         /\ q.body \in UpdateInputs
         /\ KeepsBackend(q.body, q.snap.spec)
         /\ ValidateCreateModelService(Completed(q.body, q.snap.spec))
         /\ q.want = applyUpdateRequest(q.snap.spec,
                                        Completed(q.body, q.snap.spec))
    /\ q.method = "PATCH" =>
         /\ q.body \in PatchInputs
         /\ hasPatchFields(q.body)
         /\ Nameable(q.body, q.snap.spec)
         /\ ValidateCreateModelService(modelServiceToUpdateRequest(q.want))
         /\ q.want = applyPatchRequest(q.snap.spec, q.body)

\* The stages of a handler.
StageInv(q) ==
    /\ q.pc = "get" => /\ q.method \in {"PUT", "PATCH", "DELETE"}
                       /\ q.method = "PUT" => q.body \in UpdateInputs
                       /\ q.method = "PATCH" => /\ q.body \in PatchInputs
                                                /\ hasPatchFields(q.body)
    /\ q.pc = "idle" <=> q.method = "none"
    /\ q.pc \in {"idle", "get"} => q.call = "none"
    /\ q.pc = "write" => q.call \notin {"none", "lost"}
    /\ q.call = "sent" => SentInv(q)
    /\ q.call = "Invalid" => Unvalidated(q.method, Store(q.want))

\* With object m, last resourceVersion n and last UID u at the API server: a
\* snapshot that bears the current resourceVersion is the current object, and
\* the target of an effective DELETE is being deleted, or gone for good.
SnapInv(q, m, n, u) ==
    /\ q.snap.rv <= n
    /\ q.snap.uid <= u
    /\ Exists(m) /\ Exists(q.snap) /\ q.snap.rv = m.rv => q.snap = m
    /\ q.method = "DELETE" /\ q.call \in {"ok", "NotFound"} =>
         /\ Exists(q.snap)
         /\ m.uid = q.snap.uid => m.life = "deleting"

AnswerInv(q) ==
    q.pc = "done" =>
        /\ q.resp \in {200, 201} => q.call = "ok"
        /\ q.resp \in 400 .. 499 => q.call \notin {"ok", "sent"}
        /\ q.resp = 204 => q.method = "DELETE" /\ q.call \in {"ok", "NotFound"}

\* The inductive invariant.
Inv ==
    /\ TypeOK
    /\ ms.rv <= rev /\ ms.uid <= uids
    /\ Exists(ms) => CRDValid(ms.spec)
    /\ \A r \in Requests : /\ StageInv(req[r])
                           /\ SnapInv(req[r], ms, rev, uids)
                           /\ AnswerInv(req[r])

(***************************************************************************)
(* The conversions produce specs                                           *)
(***************************************************************************)

\* The literals of the code are values a field may hold.
LEMMA Literals ==
    /\ Empty \in Text /\ "Deployment" \in Text /\ "1" \in Text
    /\ "http" \in Text /\ "1Gi" \in Text /\ "/" \in Text /\ "/models" \in Text
    /\ DefaultGatewaySectionName \in Text
  BY SpecConstants, RequestConstants

\* The empty spec, the blocks a request becomes, and BackendOf are well typed.
LEMMA BlockTypes ==
    /\ NoSpec \in SpecType
    /\ \A s \in Text : BackendOf(s) \in Text
    /\ \A b \in BodyType : /\ RequestExposure(b.exposure) \in ExposureType
                           /\ RequestStorage(b.storage) \in StorageType
    /\ NoExposure \in ExposureType /\ NoStorage \in StorageType
    /\ [NoExposure EXCEPT !.present = TRUE] \in ExposureType
    /\ [NoStorage EXCEPT !.present = TRUE] \in StorageType
<1>1. NoExposure \in ExposureType /\ NoStorage \in StorageType
  BY Literals DEF NoExposure, NoStorage, ExposureType, StorageType
<1>2. /\ NoSecurity \in SecurityType /\ NoRollout \in RolloutType
      /\ NoBudget \in BudgetType /\ NoPolicy \in PolicyType
  BY Literals DEF NoSecurity, NoRollout, NoBudget, NoPolicy, SecurityType, RolloutType,
         BudgetType, PolicyType
<1>3. NoSpec \in SpecType
  BY <1>1, <1>2, Literals DEF NoSpec, SpecType
<1>4. \A s \in Text : BackendOf(s) \in Text
  BY Literals DEF BackendOf
<1>5. \A b \in BodyType : /\ RequestExposure(b.exposure) \in ExposureType
                          /\ RequestStorage(b.storage) \in StorageType
  BY Literals DEF BodyType, RequestExposure, RequestStorage,
     ExposureType, StorageType
<1>6. /\ [NoExposure EXCEPT !.present = TRUE] \in ExposureType
      /\ [NoStorage EXCEPT !.present = TRUE] \in StorageType
  BY Literals, Zenon DEF NoExposure, NoStorage, ExposureType, StorageType
<1> QED
  BY <1>1, <1>3, <1>4, <1>5, <1>6

\* createRequestToModelService turns a body into a spec.
LEMMA CreateType ==
    ASSUME NEW b \in BodyType
    PROVE  createRequestToModelService(b) \in SpecType
<1>1. NoSpec \in SpecType
  BY BlockTypes
<1>2. BackendOf(b.backend) \in Text
  BY BlockTypes DEF BodyType
<1>3. b.image \in Text /\ b.replicas \in Int /\ b.port \in Int
      /\ b.predictor \in Text
  BY DEF BodyType
<1>4. (IF b.exposure.enabled THEN RequestExposure(b.exposure) ELSE NoExposure)
        \in ExposureType
  BY BlockTypes
<1>5. (IF b.storage.enabled THEN RequestStorage(b.storage) ELSE NoStorage)
        \in StorageType
  BY BlockTypes
<1> QED
  BY <1>1, <1>2, <1>3, <1>4, <1>5, Zenon DEF createRequestToModelService, SpecType

\* applyUpdateRequest turns a spec and a body into a spec.
LEMMA UpdateType ==
    ASSUME NEW s \in SpecType, NEW b \in BodyType
    PROVE  /\ Completed(b, s) \in BodyType
           /\ applyUpdateRequest(s, b) \in SpecType
<1>1. Completed(b, s) \in BodyType
  BY BlockTypes DEF Completed, BodyType, SpecType
<1>2. (IF b.exposure.enabled THEN RequestExposure(b.exposure)
       ELSE [NoExposure EXCEPT !.present = TRUE]) \in ExposureType
  BY BlockTypes
<1>3. (IF b.storage.enabled THEN RequestStorage(b.storage)
       ELSE [NoStorage EXCEPT !.present = TRUE]) \in StorageType
  BY BlockTypes
<1>4. /\ b.backend \in Text /\ b.image \in Text /\ b.replicas \in Int
      /\ b.port \in Int /\ b.predictor \in Text
  BY DEF BodyType
<1>5. applyUpdateRequest(s, b) \in SpecType
  BY <1>2, <1>3, <1>4, Zenon DEF applyUpdateRequest, SpecType
<1> QED
  BY <1>1, <1>5

\* applyPatchRequest turns a spec and a patch into a spec.
LEMMA PatchType ==
    ASSUME NEW s \in SpecType, NEW p, IsPatch(p)
    PROVE  applyPatchRequest(s, p) \in SpecType
<1>1. /\ Patched(s, p, "backend") \in Text
      /\ Patched(s, p, "predictor") \in Text
      /\ Patched(s, p, "image") \in Text
      /\ Patched(s, p, "replicas") \in Int
      /\ Patched(s, p, "port") \in Int
  BY DEF Patched, IsPatch, SpecType
<1>2. ASSUME "exposure" \in DOMAIN p
      PROVE  applyExposurePatch(s.exposure, p.exposure) \in ExposureType
  <2>1. s.exposure \in ExposureType
    BY DEF SpecType
  <2>2. Partial(p.exposure, [enabled |-> BOOLEAN, hostname |-> Text,
                             pathPrefix |-> Text])
    BY <1>2 DEF IsPatch
  <2>3. /\ Patched(s.exposure, p.exposure, "enabled") \in BOOLEAN
        /\ Patched(s.exposure, p.exposure, "hostname") \in Text
        /\ Patched(s.exposure, p.exposure, "pathPrefix") \in Text
    BY <2>1, <2>2 DEF Patched, Partial, ExposureType
  <2> QED
    BY <2>1, <2>3, Literals DEF applyExposurePatch, ExposureType
<1>3. ASSUME "storage" \in DOMAIN p
      PROVE  applyStoragePatch(s.storage, p.storage) \in StorageType
  <2>1. s.storage \in StorageType
    BY DEF SpecType
  <2>2. Partial(p.storage, [enabled |-> BOOLEAN, size |-> Text,
                            mountPath |-> Text])
    BY <1>3 DEF IsPatch
  <2>3. /\ Patched(s.storage, p.storage, "enabled") \in BOOLEAN
        /\ Patched(s.storage, p.storage, "size") \in Text
        /\ Patched(s.storage, p.storage, "mountPath") \in Text
    BY <2>1, <2>2 DEF Patched, Partial, StorageType
  <2> QED
    BY <2>3 DEF applyStoragePatch, StorageType
<1>4. /\ (IF "exposure" \in DOMAIN p
          THEN applyExposurePatch(s.exposure, p.exposure) ELSE s.exposure)
            \in ExposureType
      /\ (IF "storage" \in DOMAIN p
          THEN applyStoragePatch(s.storage, p.storage) ELSE s.storage)
            \in StorageType
  BY <1>2, <1>3 DEF SpecType
<1> QED
  BY <1>1, <1>4, Zenon DEF applyPatchRequest, SpecType

\* Encoding and defaulting turn a spec into a spec.
LEMMA StoreType ==
    ASSUME NEW s \in SpecType
    PROVE  Store(s) \in SpecType
<1>1. /\ OmitEmpty(s.backend, Empty, "Deployment") \in Text
      /\ OmitEmpty(s.replicas, 0, 1) \in Int
      /\ OmitEmpty(s.port, 0, 8080) \in Int
  BY Literals DEF OmitEmpty, SpecType
<1>2. StoreExposure(s.exposure) \in ExposureType
  BY Literals, Zenon DEF StoreExposure, OmitEmpty, SpecType, ExposureType
<1>3. StoreStorage(s.storage) \in StorageType
  BY Literals, Zenon DEF StoreStorage, OmitEmpty, SpecType, StorageType
<1>4. StoreSecurity(s.security) \in SecurityType
  BY Literals, Zenon DEF StoreSecurity, OmitEmpty, SpecType, SecurityType
<1>5. StoreRollout(s.rollout) \in RolloutType
  <2>1. s.rollout \in RolloutType
    BY DEF SpecType
  <2>2. /\ OmitEmpty(s.rollout.preStopDelaySeconds, 0, 5) \in Int
        /\ OmitEmpty(s.rollout.minReadySeconds, 0, 5) \in Int
    BY <2>1 DEF OmitEmpty, RolloutType
  <2> QED
    BY <2>1, <2>2, Zenon DEF StoreRollout, RolloutType
<1>6. StoreBudget(s.podDisruptionBudget) \in BudgetType
  BY Literals, Zenon DEF StoreBudget, OmitEmpty, SpecType, BudgetType
<1>7. StorePolicy(s.networkPolicy) \in PolicyType
  BY Literals, Zenon DEF StorePolicy, OmitEmpty, SpecType, PolicyType
<1> DEFINE backend  == OmitEmpty(s.backend, Empty, "Deployment")
           replicas == OmitEmpty(s.replicas, 0, 1)
           port     == OmitEmpty(s.port, 0, 8080)
           exposure == StoreExposure(s.exposure)
           storage  == StoreStorage(s.storage)
           security == StoreSecurity(s.security)
           rollout  == StoreRollout(s.rollout)
           budget   == StoreBudget(s.podDisruptionBudget)
           policy   == StorePolicy(s.networkPolicy)
<1>8. /\ backend \in Text /\ replicas \in Int /\ port \in Int
      /\ exposure \in ExposureType /\ storage \in StorageType
      /\ security \in SecurityType /\ rollout \in RolloutType
      /\ budget \in BudgetType /\ policy \in PolicyType
  BY <1>1, <1>2, <1>3, <1>4, <1>5, <1>6, <1>7
<1>9. Store(s) = [s EXCEPT !.backend = backend, !.replicas = replicas,
                           !.port = port, !.exposure = exposure,
                           !.storage = storage, !.security = security,
                           !.rollout = rollout, !.podDisruptionBudget = budget,
                           !.networkPolicy = policy]
  BY DEF Store, SpecType
<1> HIDE DEF backend, replicas, port, exposure, storage, security, rollout,
             budget, policy
<1> QED
  BY <1>8, <1>9 DEF SpecType

(***************************************************************************)
(* What validation leaves to the CRD                                       *)
(***************************************************************************)

\* Defaulting works field by field.
LEMMA StoreFields ==
    ASSUME NEW s \in SpecType
    PROVE  /\ Store(s).backend = OmitEmpty(s.backend, Empty, "Deployment")
           /\ Store(s).image = s.image
           /\ Store(s).replicas = OmitEmpty(s.replicas, 0, 1)
           /\ Store(s).port = OmitEmpty(s.port, 0, 8080)
           /\ Store(s).predictor = s.predictor
           /\ Store(s).exposure = StoreExposure(s.exposure)
           /\ Store(s).storage = StoreStorage(s.storage)
  BY DEF Store, SpecType

\* What a POST makes of its body, field by field.
LEMMA CreateFields ==
    ASSUME NEW b \in BodyType
    PROVE  LET s == createRequestToModelService(b)
           IN  /\ s.backend = BackendOf(b.backend)
               /\ s.image = b.image /\ s.replicas = b.replicas
               /\ s.port = b.port /\ s.predictor = b.predictor
               /\ s.exposure = IF b.exposure.enabled
                               THEN RequestExposure(b.exposure) ELSE NoExposure
               /\ s.storage = IF b.storage.enabled
                              THEN RequestStorage(b.storage) ELSE NoStorage
  BY DEF createRequestToModelService, NoSpec

\* What a PUT makes of its body, field by field.
LEMMA UpdateFields ==
    ASSUME NEW old \in SpecType, NEW b \in BodyType
    PROVE  LET s == applyUpdateRequest(old, b)
           IN  /\ s.backend = b.backend
               /\ s.image = b.image /\ s.replicas = b.replicas
               /\ s.port = b.port /\ s.predictor = b.predictor
               /\ s.exposure = IF b.exposure.enabled
                               THEN RequestExposure(b.exposure)
                               ELSE [NoExposure EXCEPT !.present = TRUE]
               /\ s.storage = IF b.storage.enabled
                              THEN RequestStorage(b.storage)
                              ELSE [NoStorage EXCEPT !.present = TRUE]
  BY DEF applyUpdateRequest, SpecType

\* What the handlers have made sure of when they send a spec: of a block that
\* a PATCH leaves disabled, nothing.
Screened(method, s) ==
    /\ s.backend \in {"Deployment", "KServe"}
    /\ s.backend = "KServe" => s.predictor \in ValidPredictors
    /\ s.backend = "Deployment" => s.image # Empty /\ s.predictor = Empty
    /\ s.replicas \in 1 .. MaxReplicas
    /\ s.port \in Ports \cup {0}
    /\ \/ ~s.exposure.present
       \/ /\ s.exposure.hostname \in CRDHostnames \cup {Empty}
          /\ s.exposure.pathPrefix \in AbsolutePaths \cup {Empty}
       \/ method = "PATCH" /\ ~s.exposure.enabled
    /\ \/ ~s.storage.present
       \/ s.storage.enabled /\ s.storage.mountPath \in AbsolutePaths
       \/ s.storage.size = Empty /\ s.storage.mountPath = Empty
       \/ method = "PATCH" /\ ~s.storage.enabled

\* Such a spec, encoded and defaulted, is admitted but for the reasons listed.
LEMMA ScreenedAdmitted ==
    ASSUME NEW s \in SpecType, NEW method, Screened(method, s)
    PROVE  CRDValid(Store(s)) \/ Unvalidated(method, Store(s))
<1> DEFINE t == Store(s)
<1>1. /\ s.exposure \in ExposureType /\ s.storage \in StorageType
      /\ t.exposure = StoreExposure(s.exposure)
      /\ t.storage = StoreStorage(s.storage)
  BY StoreFields DEF SpecType
<1>2. "Deployment" # Empty /\ "KServe" # Empty
  BY DEF Empty
<1>3. /\ t.backend = s.backend
      /\ t.predictor = s.predictor /\ t.image = s.image
  BY <1>2, StoreFields DEF OmitEmpty, Screened
<1>4. t.replicas \in 1 .. 10 \/ t.replicas > 10
  BY StoreFields, RequestConstants DEF OmitEmpty, Screened
<1>5. t.port \in Ports
  <2>1. 8080 \in Ports
    BY DEF Ports
  <2>2. s.port \in Ports \cup {0}
    BY Zenon DEF Screened
  <2>3. t.port = IF s.port = 0 THEN 8080 ELSE s.port
    BY StoreFields DEF OmitEmpty
  <2> HIDE DEF t
  <2> QED
    BY <2>1, <2>2, <2>3
<1>6. t.exposure.present =>
        \/ /\ t.exposure.hostname \in CRDHostnames \cup {Empty}
           /\ t.exposure.pathPrefix \in AbsolutePaths
        \/ method = "PATCH" /\ ~t.exposure.enabled
  BY <1>1, SpecConstants DEF StoreExposure, OmitEmpty, Screened, ExposureType
<1>7. t.storage.present =>
        \/ /\ t.storage.size \in CRDSizes \/ t.storage.enabled
           /\ t.storage.mountPath \in AbsolutePaths
        \/ method = "PATCH" /\ ~t.storage.enabled
  BY <1>1, SpecConstants DEF StoreStorage, OmitEmpty, Screened, StorageType
<1>8. /\ t.backend \in {"Deployment", "KServe"}
      /\ t.backend = "KServe" => t.predictor \in ValidPredictors
      /\ t.backend = "Deployment" => t.image # Empty /\ t.predictor = Empty
  BY <1>3 DEF Screened
<1> HIDE DEF t
<1>9. CRDValid(t) \/ Unvalidated(method, t)
  BY <1>4, <1>5, <1>6, <1>7, <1>8, Zenon DEF CRDValid, Unvalidated
<1> QED
  BY <1>9 DEF t

\* What validation has established of a body, with its backend resolved.
LEMMA Validated ==
    ASSUME NEW b, ValidateCreateModelService(b)
    PROVE  LET backend == BackendOf(b.backend)
           IN  /\ backend \in {"Deployment", "KServe"}
               /\ backend = "KServe" => b.predictor \in ValidPredictors
               /\ backend = "Deployment" => /\ b.image # Empty
                                            /\ b.predictor = Empty
                                            /\ b.port \in Ports
               /\ b.replicas \in 1 .. MaxReplicas
               /\ b.port \in Ports \cup {0}
               /\ validateExposure(b.exposure) /\ validateStorage(b.storage)
  BY RequestConstants, Zenon DEF ValidateCreateModelService,
               validateDeploymentRequest, validateKServeRequest,
               validateReplicas, validateExposure, validateStorage

\* The blocks of a validated POST or PUT.
LEMMA BlocksScreened ==
    ASSUME NEW b \in BodyType, validateExposure(b.exposure),
           validateStorage(b.storage)
    PROVE  /\ LET e == RequestExposure(b.exposure)
              IN  b.exposure.enabled =>
                    /\ e.hostname \in CRDHostnames
                    /\ e.pathPrefix \in AbsolutePaths
           /\ LET s == RequestStorage(b.storage)
              IN  b.storage.enabled =>
                    s.enabled /\ s.mountPath \in AbsolutePaths
  BY SpecConstants, RequestConstants
  DEF validateExposure, validateStorage, RequestExposure, RequestStorage

\* A POST is refused by the CRD for the reasons listed only.
LEMMA CreateAdmitted ==
    ASSUME NEW b \in BodyType, ValidateCreateModelService(b)
    PROVE  LET s == Store(createRequestToModelService(b))
           IN  CRDValid(s) \/ Unvalidated("POST", s)
<1> DEFINE s == createRequestToModelService(b)
<1>1. s \in SpecType
  BY CreateType
<1>2. /\ s.exposure = IF b.exposure.enabled
                      THEN RequestExposure(b.exposure) ELSE NoExposure
      /\ s.storage = IF b.storage.enabled
                     THEN RequestStorage(b.storage) ELSE NoStorage
      /\ s.backend = BackendOf(b.backend) /\ s.image = b.image
      /\ s.replicas = b.replicas /\ s.port = b.port
      /\ s.predictor = b.predictor
  BY CreateFields
<1> HIDE DEF s
<1>3. ~NoExposure.present /\ ~NoStorage.present
  BY DEF NoExposure, NoStorage
<1>4. Screened("POST", s)
  BY <1>2, <1>3, Validated, BlocksScreened DEF Screened
<1> QED
  BY <1>1, <1>4, ScreenedAdmitted DEF s

\* A stored backend is explicit.
LEMMA StoredBackend ==
    ASSUME NEW old, CRDValid(old)
    PROVE  /\ BackendOf(old.backend) = old.backend
           /\ old.backend \in {"Deployment", "KServe"}
           /\ old.port \in Ports
  BY DEF CRDValid, BackendOf, Empty

\* A PUT is refused by the CRD for the reasons listed only, and never because
\* it changes the backend.
LEMMA UpdateAdmitted ==
    ASSUME NEW old \in SpecType, CRDValid(old), NEW b \in BodyType,
           b.backend = BackendOf(old.backend), ValidateCreateModelService(b)
    PROVE  LET s == Store(applyUpdateRequest(old, b))
           IN  /\ CRDValid(s) \/ Unvalidated("PUT", s)
               /\ CRDTransition(old, s)
<1> DEFINE s == applyUpdateRequest(old, b)
<1>1. s \in SpecType
  BY UpdateType
<1>2. /\ s.exposure = IF b.exposure.enabled THEN RequestExposure(b.exposure)
                      ELSE [NoExposure EXCEPT !.present = TRUE]
      /\ s.storage = IF b.storage.enabled THEN RequestStorage(b.storage)
                     ELSE [NoStorage EXCEPT !.present = TRUE]
      /\ s.backend = b.backend /\ s.image = b.image
      /\ s.replicas = b.replicas /\ s.port = b.port
      /\ s.predictor = b.predictor
  BY UpdateFields, Zenon
<1> HIDE DEF s
<1>3. LET e == [NoExposure EXCEPT !.present = TRUE]
          v == [NoStorage EXCEPT !.present = TRUE]
      IN  /\ e.hostname = Empty /\ e.pathPrefix = Empty
          /\ v.size = Empty /\ v.mountPath = Empty
  BY DEF NoExposure, NoStorage
<1>4. "Deployment" # Empty /\ "KServe" # Empty
  BY DEF Empty
<1>5. BackendOf(b.backend) = s.backend /\ s.backend = old.backend
  BY <1>2, StoredBackend
<1>6. Screened("PUT", s)
  BY <1>2, <1>3, <1>5, Validated, BlocksScreened DEF Screened
<1>7. Store(s).backend = s.backend
  BY <1>1, <1>4, <1>5, StoreFields, StoredBackend DEF OmitEmpty
<1> QED
  BY <1>1, <1>5, <1>6, <1>7, ScreenedAdmitted DEF s, CRDTransition

\* What a PATCH makes of the spec it read, field by field.
LEMMA PatchFields ==
    ASSUME NEW old \in SpecType, NEW p, IsPatch(p)
    PROVE  LET s == applyPatchRequest(old, p)
           IN  /\ s.backend = Patched(old, p, "backend")
               /\ s.predictor = Patched(old, p, "predictor")
               /\ s.image = Patched(old, p, "image")
               /\ s.replicas = Patched(old, p, "replicas")
               /\ s.port = Patched(old, p, "port")
               /\ "exposure" \in DOMAIN p =>
                    s.exposure = applyExposurePatch(old.exposure, p.exposure)
               /\ "storage" \in DOMAIN p =>
                    s.storage = applyStoragePatch(old.storage, p.storage)
  BY DEF applyPatchRequest, SpecType

\* So is a PATCH, which besides is refused for what it writes into a block
\* that stays disabled.
LEMMA PatchAdmitted ==
    ASSUME NEW old \in SpecType, CRDValid(old), NEW p, IsPatch(p),
           Nameable(p, old),
           ValidateCreateModelService(
               modelServiceToUpdateRequest(applyPatchRequest(old, p)))
    PROVE  LET s == Store(applyPatchRequest(old, p))
           IN  /\ CRDValid(s) \/ Unvalidated("PATCH", s)
               /\ CRDTransition(old, s)
<1> DEFINE s == applyPatchRequest(old, p)
           b == modelServiceToUpdateRequest(s)
<1>1. s \in SpecType
  BY PatchType
<1>2. s.backend = Patched(old, p, "backend") /\ s.port = Patched(old, p, "port")
  BY PatchFields
<1> HIDE DEF s
<1>3. "Deployment" # Empty /\ "KServe" # Empty
  BY DEF Empty
<1>4. s.backend = old.backend /\ BackendOf(s.backend) = s.backend
      /\ s.backend \in {"Deployment", "KServe"}
  BY <1>2, StoredBackend DEF Patched, Nameable
<1>5. /\ b.backend = s.backend /\ b.image = s.image
      /\ b.replicas = s.replicas /\ b.predictor = s.predictor
      /\ b.exposure = [enabled    |-> s.exposure.enabled,
                       hostname   |-> s.exposure.hostname,
                       pathPrefix |-> s.exposure.pathPrefix]
      /\ b.storage = [enabled   |-> s.storage.enabled,
                      size      |-> s.storage.size,
                      mountPath |-> s.storage.mountPath]
      /\ s.backend = "Deployment" => b.port = s.port
  BY <1>4 DEF modelServiceToUpdateRequest
<1>6. ValidateCreateModelService(b)
  BY DEF s
<1> HIDE DEF b
<1>7. /\ s.backend = "KServe" => s.predictor \in ValidPredictors
      /\ s.backend = "Deployment" => /\ s.image # Empty /\ s.predictor = Empty
                                     /\ s.port \in Ports
      /\ s.replicas \in 1 .. MaxReplicas
      /\ validateExposure(b.exposure) /\ validateStorage(b.storage)
  BY <1>4, <1>5, <1>6, Validated
<1>8. s.backend = "KServe" => s.port \in Ports
  BY <1>2, <1>4, StoredBackend DEF Patched, Nameable, DeploymentOnly
<1>9. s.exposure.enabled =>
        /\ s.exposure.hostname \in CRDHostnames
        /\ s.exposure.pathPrefix \in AbsolutePaths \cup {Empty}
  BY <1>5, <1>7, RequestConstants DEF validateExposure
<1>10. s.storage.enabled => s.storage.mountPath \in AbsolutePaths
  BY <1>5, <1>7 DEF validateStorage
<1>11. Screened("PATCH", s)
  BY <1>4, <1>7, <1>8, <1>9, <1>10 DEF Screened
<1>12. Store(s).backend = s.backend
  BY <1>1, <1>3, <1>4, StoreFields DEF OmitEmpty
<1> QED
  BY <1>1, <1>4, <1>11, <1>12, ScreenedAdmitted DEF s, CRDTransition

(***************************************************************************)
(* The invariant is inductive                                              *)
(***************************************************************************)

\* Initially no handler runs.
LEMMA InitInv == Init => Inv
<1> SUFFICES ASSUME Init PROVE Inv
  OBVIOUS
<1>1. NoObject \in ObjectType
  BY BlockTypes DEF NoObject, ObjectType, Markers, Lives
<1>2. Idle \in RequestType
  BY <1>1, BlockTypes DEF Idle, RequestType, Outcomes, Codes, Bodies
<1>3. TypeOK
  BY <1>1, <1>2, ZenonT(30) DEF Init, TypeOK
<1>4. StageInv(Idle) /\ AnswerInv(Idle) /\ SnapInv(Idle, NoObject, 0, 0)
  BY DEF StageInv, AnswerInv, SnapInv, Idle, NoObject, Exists
<1> QED
  BY <1>3, <1>4 DEF Inv, Init, NoObject, Exists

\* A step that changes one handler and nothing else.
LEMMA HandlerStep ==
    ASSUME Inv, NEW r \in Requests, NEW q \in RequestType,
           req' = [req EXCEPT ![r] = q], UNCHANGED <<ms, rev, uids>>,
           StageInv(q), SnapInv(q, ms, rev, uids), AnswerInv(q)
    PROVE  Inv'
<1>1. TypeOK'
  BY DEF Inv, TypeOK
<1>2. ASSUME NEW x \in Requests
      PROVE  /\ StageInv(req'[x])
             /\ SnapInv(req'[x], ms', rev', uids')
             /\ AnswerInv(req'[x])
  <2>1. CASE x = r
    BY <2>1 DEF Inv, TypeOK
  <2>2. CASE x # r
    <3>1. req'[x] = req[x]
      BY <2>2 DEF Inv, TypeOK
    <3> QED
      BY <3>1 DEF Inv
  <2> QED
    BY <2>1, <2>2
<1> QED
  BY <1>1, <1>2 DEF Inv

\* A write by anyone leaves every snapshot either stale or untouched.
LEMMA VersionStep ==
    ASSUME NEW q \in RequestType,
           NEW m \in ObjectType, NEW n \in Nat, NEW u \in Nat,
           NEW m2 \in ObjectType, NEW n2 \in Nat, NEW u2 \in Nat,
           SnapInv(q, m, n, u), n <= n2, u <= u2,
           m2.uid = 0 \/ m2.rv > n,
           m2.uid = 0 \/ m2.uid = m.uid \/ m2.uid > u,
           m2.uid = m.uid /\ m.life = "deleting" =>
             m2.uid = 0 \/ m2.life = "deleting"
    PROVE  SnapInv(q, m2, n2, u2)
<1>1. /\ q.snap.rv \in Nat /\ q.snap.uid \in Nat
      /\ m.uid \in Nat /\ m2.uid \in Nat /\ m2.rv \in Nat
  BY DEF RequestType, ObjectType
<1> QED
  BY <1>1 DEF SnapInv, Exists

\* A handler that answers, with a code that fits the outcome of its write.
LEMMA RespondStep ==
    ASSUME Inv, NEW r \in Requests,
           NEW code \in Codes,
           Respond(r, code), UNCHANGED <<ms, rev, uids>>,
           req[r].pc \in {"get", "write"},
           code \in {200, 201} => req[r].call = "ok",
           code \in 400 .. 499 => req[r].call \notin {"ok", "sent"},
           code = 204 => /\ req[r].method = "DELETE"
                         /\ req[r].call \in {"ok", "NotFound"}
    PROVE  Inv'
<1> DEFINE q == [req[r] EXCEPT !.pc = "done", !.resp = code]
<1>1. req[r] \in RequestType
  BY DEF Inv, TypeOK
<1>2. q \in RequestType
  BY <1>1, Zenon DEF RequestType
<1>3. req' = [req EXCEPT ![r] = q]
  BY <1>1, ZenonT(30) DEF Respond, Inv, TypeOK
<1>4. /\ q.pc = "done" /\ q.resp = code /\ q.call = req[r].call
      /\ q.method = req[r].method /\ q.snap = req[r].snap
      /\ q.body = req[r].body /\ q.want = req[r].want
  BY <1>1 DEF RequestType
<1>5. StageInv(req[r]) /\ SnapInv(req[r], ms, rev, uids)
  BY DEF Inv
<1> HIDE DEF q
<1>6. StageInv(q)
  BY <1>4, <1>5 DEF StageInv, SentInv
<1>7. SnapInv(q, ms, rev, uids)
  BY <1>4, <1>5 DEF SnapInv
<1>8. AnswerInv(q)
  BY <1>4, SMTT(30) DEF AnswerInv
<1> QED
  BY <1>2, <1>3, <1>6, <1>7, <1>8, HandlerStep, Zenon

\* A handler that sends its write, computed from the object it just read.
LEMMA SendStep ==
    ASSUME Inv, NEW r \in Requests, NEW want \in SpecType,
           Send(r, want), UNCHANGED <<ms, rev, uids>>,
           req[r].pc = "get", Mutable(ms),
           req[r].method = "PUT" =>
             LET full == Completed(req[r].body, ms.spec)
             IN  /\ KeepsBackend(req[r].body, ms.spec)
                 /\ ValidateCreateModelService(full)
                 /\ want = applyUpdateRequest(ms.spec, full),
           req[r].method = "PATCH" =>
             /\ Nameable(req[r].body, ms.spec)
             /\ ValidateCreateModelService(modelServiceToUpdateRequest(want))
             /\ want = applyPatchRequest(ms.spec, req[r].body)
    PROVE  Inv'
<1> DEFINE q == [req[r] EXCEPT !.pc = "write", !.snap = ms, !.want = want,
                               !.call = "sent"]
<1>1. req[r] \in RequestType /\ ms \in ObjectType
  BY DEF Inv, TypeOK
<1>2. q \in RequestType
  BY <1>1, Zenon DEF RequestType, Outcomes
<1>3. req' = [req EXCEPT ![r] = q]
  BY <1>1, ZenonT(30) DEF Send, Inv, TypeOK
<1>4. /\ q.pc = "write" /\ q.call = "sent" /\ q.snap = ms /\ q.want = want
      /\ q.method = req[r].method /\ q.body = req[r].body
  BY <1>1, Zenon DEF RequestType
<1>5. /\ StageInv(req[r]) /\ ms.rv <= rev /\ ms.uid <= uids
      /\ CRDValid(ms.spec)
  BY Zenon DEF Inv, Mutable
<1> HIDE DEF q
<1>6. SentInv(q)
  BY <1>4, <1>5, ZenonT(30) DEF StageInv, SentInv
<1>7. StageInv(q)
  BY <1>4, <1>5, <1>6 DEF StageInv
<1>8. SnapInv(q, ms, rev, uids)
  BY <1>4, <1>5 DEF SnapInv
<1>9. AnswerInv(q)
  BY <1>4 DEF AnswerInv
<1> QED
  BY <1>2, <1>3, <1>7, <1>8, <1>9, HandlerStep, Zenon

\* An idle handler takes up a request: stage is "get", "write" or "done".
LEMMA ReceiveStep ==
    ASSUME Inv, NEW r \in Requests, Receive(r)
    PROVE  Inv'
<1>1. req[r] \in RequestType /\ req \in [Requests -> RequestType]
  BY SMTT(30) DEF Inv, TypeOK
<1>2. /\ req[r].pc = "idle" /\ req[r].call = "none"
      /\ SnapInv(req[r], ms, rev, uids)
      /\ UNCHANGED <<ms, rev, uids>>
  BY Zenon DEF Inv, StageInv, Receive, RejectRequest, ReceivePost, ReceivePut,
         ReceivePatch, ReceiveDelete
\* Refused without a look at the cluster.
<1>3. ASSUME NEW m \in {"POST", "PUT", "PATCH"}, NEW code \in Codes,
             code \notin {200, 201, 204},
             req' = [req EXCEPT ![r].pc = "done", ![r].method = m,
                                ![r].resp = code]
      PROVE  Inv'
  <2> DEFINE q == [req[r] EXCEPT !.pc = "done", !.method = m, !.resp = code]
  <2>2. q \in RequestType
    BY <1>1, Zenon DEF RequestType
  <2>3. req' = [req EXCEPT ![r] = q]
    BY <1>1, <1>3, ZenonT(30)
  <2>4. /\ q.pc = "done" /\ q.call = "none" /\ q.method = m /\ q.resp = code
        /\ q.snap = req[r].snap
    BY <1>1, <1>2 DEF RequestType
  <2> HIDE DEF q
  <2>5. StageInv(q) /\ SnapInv(q, ms, rev, uids)
    BY <1>2, <2>4 DEF StageInv, SnapInv
  <2>6. AnswerInv(q)
    BY <1>3, <2>4 DEF AnswerInv
  <2> QED
    BY <1>2, <2>2, <2>3, <2>5, <2>6, HandlerStep, Zenon
\* Accepted, and the object is to be read.
<1>4. ASSUME NEW m \in {"PUT", "PATCH", "DELETE"}, NEW b \in Bodies,
             m = "PUT" => b \in UpdateInputs,
             m = "PATCH" => b \in PatchInputs /\ hasPatchFields(b),
             req' = [req EXCEPT ![r].pc = "get", ![r].method = m,
                                ![r].body = b]
      PROVE  Inv'
  <2> DEFINE q == [req[r] EXCEPT !.pc = "get", !.method = m, !.body = b]
  <2>2. q \in RequestType
    BY <1>1, Zenon DEF RequestType
  <2>3. req' = [req EXCEPT ![r] = q]
    BY <1>1, <1>4, Zenon
  <2>4. /\ q.pc = "get" /\ q.call = "none" /\ q.method = m /\ q.body = b
        /\ q.snap = req[r].snap
    BY <1>1, <1>2 DEF RequestType
  <2> HIDE DEF q
  <2>5. StageInv(q) /\ SnapInv(q, ms, rev, uids) /\ AnswerInv(q)
    BY <1>2, <1>4, <2>4 DEF StageInv, SnapInv, AnswerInv
  <2> QED
    BY <1>2, <2>2, <2>3, <2>5, HandlerStep, Zenon
<1>0. /\ 400 \in Codes /\ 400 \notin {200, 201, 204}
      /\ \A m : \A code \in RejectCodes(m) :
           code \in Codes /\ code \notin {200, 201, 204}
  BY DEF Codes, RejectCodes
<1>5. CASE RejectRequest(r)
  <2>1. PICK m \in {"POST", "PUT", "PATCH"} : \E code \in RejectCodes(m) :
          req' = [req EXCEPT ![r].pc = "done", ![r].method = m,
                             ![r].resp = code]
    BY <1>5, Zenon DEF RejectRequest
  <2>2. PICK code \in RejectCodes(m) :
          req' = [req EXCEPT ![r].pc = "done", ![r].method = m,
                             ![r].resp = code]
    BY <2>1, Zenon
  <2>3. code \in Codes /\ code \notin {200, 201, 204}
    BY <1>0
  <2> QED
    BY <1>3, <2>2, <2>3, Zenon
<1>6. CASE ReceivePost(r)
  <2>1. PICK b \in CreateInputs :
          IF ValidateCreateModelService(b)
          THEN req' = [req EXCEPT ![r].pc = "write", ![r].method = "POST",
                                  ![r].body = b,
                                  ![r].want = createRequestToModelService(b),
                                  ![r].call = "sent"]
          ELSE req' = [req EXCEPT ![r].pc = "done", ![r].method = "POST",
                                  ![r].resp = 400]
    BY <1>6, Zenon DEF ReceivePost
  <2>2. CASE ~ValidateCreateModelService(b)
    BY <1>0, <1>3, <2>1, <2>2
  <2>3. CASE ValidateCreateModelService(b)
    <3> DEFINE want == createRequestToModelService(b)
    <3>1. want \in SpecType
      BY CreateType, InputConstants
    <3> HIDE DEF want
    <3> DEFINE q == [req[r] EXCEPT !.pc = "write", !.method = "POST",
                                   !.body = b, !.want = want, !.call = "sent"]
    <3>2. q \in RequestType
      BY <1>1, <3>1, Zenon DEF RequestType, Outcomes, Bodies
    <3>3. req' = [req EXCEPT ![r] = q]
      BY <1>1, <2>1, <2>3, Zenon DEF want
    <3>4. /\ q.pc = "write" /\ q.call = "sent" /\ q.method = "POST"
          /\ q.body = b /\ q.want = want /\ q.snap = req[r].snap
      BY <1>1 DEF RequestType
    <3> HIDE DEF q
    <3>5. SentInv(q)
      BY <2>3, <3>4, ZenonT(30) DEF SentInv, want
    <3>6. StageInv(q) /\ SnapInv(q, ms, rev, uids) /\ AnswerInv(q)
      BY <1>2, <3>4, <3>5 DEF StageInv, SnapInv, AnswerInv
    <3> QED
      BY <1>2, <3>2, <3>3, <3>6, HandlerStep, Zenon
  <2> QED
    BY <2>2, <2>3
<1>7. CASE ReceivePut(r)
  BY <1>4, <1>7, Zenon DEF ReceivePut, Bodies
<1>8. CASE ReceivePatch(r)
  <2>1. PICK p \in PatchInputs :
          IF hasPatchFields(p)
          THEN req' = [req EXCEPT ![r].pc = "get", ![r].method = "PATCH",
                                  ![r].body = p]
          ELSE req' = [req EXCEPT ![r].pc = "done", ![r].method = "PATCH",
                                  ![r].resp = 400]
    BY <1>8 DEF ReceivePatch
  <2>2. CASE hasPatchFields(p)
    BY <1>4, <2>1, <2>2 DEF Bodies
  <2>3. CASE ~hasPatchFields(p)
    BY <1>0, <1>3, <2>1, <2>3
  <2> QED
    BY <2>2, <2>3
<1>9. CASE ReceiveDelete(r)
  <2>1. req' = [req EXCEPT ![r].pc = "get", ![r].method = "DELETE",
                           ![r].body = req[r].body]
    BY <1>1, <1>9, Zenon DEF ReceiveDelete, RequestType
  <2>2. req[r].body \in Bodies
    BY <1>1 DEF RequestType
  <2> QED
    BY <1>4, <2>1, <2>2, Zenon
<1> QED
  BY <1>5, <1>6, <1>7, <1>8, <1>9 DEF Receive

\* The status codes the handlers use, and what StatusOf says of an outcome.
LEMMA StatusCodes ==
    /\ {400, 404, 409, 503} \subseteq Codes
    /\ \A method, call :
         /\ StatusOf(method, call) \in Codes
         /\ StatusOf(method, call) \in {200, 201} => call = "ok"
         /\ StatusOf(method, call) \in 400 .. 499 => call \notin {"ok", "sent"}
         /\ StatusOf(method, call) = 204 =>
              method = "DELETE" /\ call \in {"ok", "NotFound"}
  BY DEF Codes, StatusOf

\* A running handler goes on.
LEMMA RunStep ==
    ASSUME Inv, NEW r \in Requests, Handler(r)
    PROVE  Inv'
<1>1. req[r] \in RequestType /\ ms \in ObjectType /\ ms.spec \in SpecType
  BY DEF Inv, TypeOK, ObjectType
<1>2. StageInv(req[r])
  BY DEF Inv
<1>3. UNCHANGED <<ms, rev, uids>>
  BY DEF Handler, LoadRejected, LoadForPut, LoadForPatch, LoadForDelete,
         LoadFailed, Reply, WriteTimeout
<1>4. ASSUME req[r].pc = "get", NEW code \in {400, 404, 409, 503},
             Respond(r, code)
      PROVE  Inv'
  <2>1. code \in Codes
    BY StatusCodes
  <2>2. code \notin {200, 201, 204} /\ req[r].call = "none"
    BY <1>2, <1>4 DEF StageInv
  <2> QED
    BY <1>3, <1>4, <2>1, <2>2, RespondStep
<1>5. CASE LoadRejected(r)
  BY <1>4, <1>5 DEF LoadRejected
<1>6. CASE LoadForPut(r)
  <2> DEFINE full == Completed(req[r].body, ms.spec)
             want == applyUpdateRequest(ms.spec, full)
  <2>1. /\ req[r].pc = "get" /\ req[r].method = "PUT" /\ Mutable(ms)
        /\ \/ /\ KeepsBackend(req[r].body, ms.spec)
              /\ ValidateCreateModelService(full) /\ Send(r, want)
           \/ Respond(r, 400)
    BY <1>6, Zenon DEF LoadForPut, Loading, Completed, KeepsBackend
  <2>2. req[r].body \in BodyType
    BY <1>2, <2>1, InputConstants DEF StageInv
  <2>3. full \in BodyType
    BY <1>1, <2>2, UpdateType
  <2>4. want \in SpecType
    BY <1>1, <2>3, UpdateType, Zenon
  <2>5. CASE /\ KeepsBackend(req[r].body, ms.spec)
             /\ ValidateCreateModelService(full) /\ Send(r, want)
    <3> HIDE DEF want
    <3>1. want = applyUpdateRequest(ms.spec, full)
      BY Zenon DEF want
    <3> QED
      BY <1>3, <2>1, <2>4, <2>5, <3>1, SendStep
  <2>6. CASE Respond(r, 400)
    BY <1>4, <2>1, <2>6
  <2> QED
    BY <2>1, <2>5, <2>6
<1>7. CASE LoadForPatch(r)
  <2> DEFINE want == applyPatchRequest(ms.spec, req[r].body)
  <2>1. /\ req[r].pc = "get" /\ req[r].method = "PATCH" /\ Mutable(ms)
        /\ \/ /\ Nameable(req[r].body, ms.spec)
              /\ ValidateCreateModelService(modelServiceToUpdateRequest(want))
              /\ Send(r, want)
           \/ Respond(r, 400)
    BY <1>7, ZenonT(30) DEF LoadForPatch, Loading, Nameable
  <2>2. IsPatch(req[r].body)
    BY <1>2, <2>1, InputConstants DEF StageInv
  <2>3. want \in SpecType
    BY <1>1, <2>2, PatchType, ZenonT(30)
  <2>4. CASE /\ Nameable(req[r].body, ms.spec)
             /\ ValidateCreateModelService(modelServiceToUpdateRequest(want))
             /\ Send(r, want)
    <3> HIDE DEF want
    <3>1. want = applyPatchRequest(ms.spec, req[r].body)
      BY ZenonT(30) DEF want
    <3> QED
      BY <1>3, <2>1, <2>3, <2>4, <3>1, SendStep
  <2>5. CASE Respond(r, 400)
    BY <1>4, <2>1, <2>5
  <2> QED
    BY <2>1, <2>4, <2>5, Zenon
<1>8. CASE LoadForDelete(r)
  <2>1. /\ req[r].pc = "get" /\ req[r].method = "DELETE" /\ Mutable(ms)
        /\ Send(r, NoSpec)
    BY <1>8 DEF LoadForDelete, Loading
  <2> QED
    BY <1>3, <2>1, SendStep, BlockTypes
<1>9. CASE LoadFailed(r)
  BY <1>4, <1>9 DEF LoadFailed
<1>10. CASE Reply(r)
  <2> DEFINE code == StatusOf(req[r].method, req[r].call)
  <2>1. req[r].pc = "write" /\ Respond(r, code)
    BY <1>10, Zenon DEF Reply
  <2>2. /\ code \in Codes
        /\ code \in {200, 201} => req[r].call = "ok"
        /\ code \in 400 .. 499 => req[r].call \notin {"ok", "sent"}
        /\ code = 204 => /\ req[r].method = "DELETE"
                         /\ req[r].call \in {"ok", "NotFound"}
    BY StatusCodes
  <2> HIDE DEF code
  <2> QED
    BY ZenonT(30), <1>3, <2>1, <2>2, RespondStep
<1>11. CASE WriteTimeout(r)
  <2>1. req[r].pc = "write" /\ Respond(r, 503)
    BY <1>11 DEF WriteTimeout
  <2>2. 503 \in Codes
    BY StatusCodes
  <2> QED
    BY <1>3, <2>1, <2>2, RespondStep
<1> QED
  BY <1>5, <1>6, <1>7, <1>8, <1>9, <1>10, <1>11 DEF Handler

\* What a write to the object may do: nothing, or a new version of it, or a
\* new incarnation, or its removal.
Written ==
    \/ UNCHANGED <<ms, rev, uids>>
    \/ /\ ms' \in ObjectType /\ rev' \in Nat /\ uids' \in Nat
       /\ rev <= rev' /\ uids <= uids'
       /\ ms'.rv <= rev' /\ ms'.uid <= uids'
       /\ ms'.uid = 0 \/ ms'.rv > rev
       /\ ms'.uid = 0 \/ ms'.uid = ms.uid \/ ms'.uid > uids
       /\ ms'.uid = ms.uid /\ ms.life = "deleting" =>
            ms'.uid = 0 \/ ms'.life = "deleting"
       /\ Exists(ms') => CRDValid(ms'.spec)

\* Such a write keeps what the invariant says of every handler's snapshot.
LEMMA WrittenSnap ==
    ASSUME Inv, Written, NEW r \in Requests
    PROVE  SnapInv(req[r], ms', rev', uids')
<1>1. /\ req[r] \in RequestType /\ ms \in ObjectType
      /\ rev \in Nat /\ uids \in Nat
      /\ SnapInv(req[r], ms, rev, uids)
  BY DEF Inv, TypeOK
<1>2. CASE UNCHANGED <<ms, rev, uids>>
  BY <1>1, <1>2
<1>3. CASE /\ ms' \in ObjectType /\ rev' \in Nat /\ uids' \in Nat
           /\ rev <= rev' /\ uids <= uids'
           /\ ms'.uid = 0 \/ ms'.rv > rev
           /\ ms'.uid = 0 \/ ms'.uid = ms.uid \/ ms'.uid > uids
           /\ ms'.uid = ms.uid /\ ms.life = "deleting" =>
                ms'.uid = 0 \/ ms'.life = "deleting"
  BY <1>1, <1>3, VersionStep, ZenonT(30)
<1> QED
  BY <1>2, <1>3 DEF Written

\* The API server settles the write of r.
LEMMA AnswerStep ==
    ASSUME Inv, Written, NEW r \in Requests,
           NEW outcome \in Outcomes \ {"none", "sent"},
           req[r].call = "sent", Answer(r, outcome),
           req[r].pc = "write" => outcome # "lost",
           outcome = "Invalid" =>
             Unvalidated(req[r].method, Store(req[r].want)),
           (/\ req[r].method = "DELETE" /\ outcome \in {"ok", "NotFound"}
            /\ ms'.uid = req[r].snap.uid) => ms'.life = "deleting"
    PROVE  Inv'
<1> DEFINE q == [req[r] EXCEPT !.call = outcome]
<1>1. req[r] \in RequestType /\ req \in [Requests -> RequestType]
  BY DEF Inv, TypeOK
<1>2. q \in RequestType /\ req' = [req EXCEPT ![r] = q]
  BY <1>1 DEF Answer, RequestType
<1>3. /\ q.call = outcome /\ q.pc = req[r].pc /\ q.resp = req[r].resp
      /\ q.method = req[r].method /\ q.snap = req[r].snap
      /\ q.want = req[r].want
  BY <1>1, Zenon DEF RequestType
<1>4. StageInv(req[r]) /\ AnswerInv(req[r])
  BY Zenon DEF Inv
<1> HIDE DEF q
<1>5. SentInv(req[r]) /\ req[r].pc \notin {"idle", "get"}
  BY <1>4, Zenon DEF StageInv
<1>6. req[r].method # "POST" => Exists(req[r].snap)
  BY <1>5, Zenon DEF SentInv, Mutable
<1>7. AnswerInv(q)
  BY <1>3, <1>4, SMTT(30) DEF AnswerInv
<1>8. SnapInv(q, ms', rev', uids')
  <2>1. SnapInv(req[r], ms', rev', uids')
    BY WrittenSnap, Zenon
  <2> QED
    BY <1>3, <1>6, <2>1 DEF SnapInv
<1>9. StageInv(q)
  BY <1>1, <1>3, <1>4, <1>5, Zenon DEF StageInv, RequestType
<1>10. /\ TypeOK' /\ ms'.rv <= rev' /\ ms'.uid <= uids'
       /\ Exists(ms') => CRDValid(ms'.spec)
  BY <1>1, <1>2, Zenon DEF Inv, TypeOK, Written
<1>11. ASSUME NEW x \in Requests
       PROVE  /\ StageInv(req'[x])
              /\ SnapInv(req'[x], ms', rev', uids')
              /\ AnswerInv(req'[x])
  <2>1. CASE x = r
    BY <1>1, <1>2, <1>7, <1>8, <1>9, <2>1, Zenon
  <2>2. CASE x # r
    <3>1. req'[x] = req[x]
      BY <1>1, <1>2, <2>2
    <3> QED
      BY <3>1, WrittenSnap, Zenon DEF Inv
  <2> QED
    BY <2>1, <2>2, Zenon
<1> QED
  BY <1>10, <1>11 DEF Inv

\* Removing the object is such a write.
LEMMA RemoveWrites ==
    ASSUME Inv, ms' = NoObject, UNCHANGED <<rev, uids>>
    PROVE  Written
<1>1. rev \in Nat /\ uids \in Nat
  BY DEF Inv, TypeOK
<1>2. NoObject \in ObjectType /\ NoObject.uid = 0 /\ NoObject.rv = 0
  BY BlockTypes DEF NoObject, ObjectType, Markers, Lives
<1>3. ms' \in ObjectType /\ ms'.uid = 0 /\ ms'.rv = 0
  BY <1>2
<1> QED
  BY <1>1, <1>3 DEF Written, Exists

\* Creating it is, with an unused UID and a new resourceVersion.
LEMMA CreateWrites ==
    ASSUME Inv, NEW spec \in SpecType, CRDValid(spec),
           NEW m \in SUBSET Markers,
           ms' = NewObject(spec, m), rev' = rev + 1, uids' = uids + 1
    PROVE  Written
<1>1. rev \in Nat /\ uids \in Nat
  BY DEF Inv, TypeOK
<1>2. /\ ms' \in ObjectType /\ ms'.rv = rev + 1 /\ ms'.uid = uids + 1
      /\ ms'.spec = spec
  BY <1>1 DEF NewObject, ObjectType, Lives
<1>3. ms.uid \in Nat /\ ms.uid <= uids
  BY DEF Inv, TypeOK, ObjectType
<1> QED
  BY <1>1, <1>2, <1>3 DEF Written

\* Changing it is, with the same UID and a new resourceVersion.
LEMMA ChangeWrites ==
    ASSUME Inv, ms' \in ObjectType, ms'.uid = ms.uid, ms'.rv = rev + 1,
           Exists(ms) => CRDValid(ms'.spec),
           ms.life = "deleting" => ms'.life = "deleting",
           rev' = rev + 1, UNCHANGED uids
    PROVE  Written
<1>1. /\ rev \in Nat /\ uids \in Nat /\ ms.uid \in Nat /\ ms.uid <= uids
  BY DEF Inv, TypeOK, ObjectType
<1>2. /\ rev' \in Nat /\ rev <= rev' /\ ms'.rv > rev /\ ms'.rv <= rev'
      /\ uids' \in Nat /\ uids <= uids' /\ ms'.uid <= uids'
  BY <1>1
<1> QED
  BY <1>1, <1>2, Zenon DEF Written, Exists

\* Marking it as being deleted is.
LEMMA CondemnWrites ==
    ASSUME Inv, ms' = Condemned, rev' = rev + 1, UNCHANGED uids
    PROVE  Written /\ ms'.life = "deleting"
<1>1. /\ ms \in ObjectType /\ ms.gen + 1 \in Nat /\ rev + 1 \in Nat
      /\ Exists(ms) => CRDValid(ms.spec)
  BY DEF Inv, TypeOK, ObjectType
<1>2. /\ ms' \in ObjectType /\ ms'.uid = ms.uid /\ ms'.rv = rev + 1
      /\ ms'.spec = ms.spec /\ ms'.life = "deleting"
  BY <1>1, Zenon DEF Condemned, ObjectType, Lives
<1> QED
  BY <1>1, <1>2, ChangeWrites, Zenon

\* The API server refuses, or accepts without a change, the write of r.
LEMMA RefuseStep ==
    ASSUME Inv, NEW r \in Requests,
           NEW outcome \in Outcomes \ {"none", "sent"},
           req[r].call = "sent", Refuse(r, outcome),
           req[r].pc = "write" => outcome # "lost",
           outcome = "Invalid" =>
             Unvalidated(req[r].method, Store(req[r].want)),
           (/\ req[r].method = "DELETE" /\ outcome = "ok"
            /\ ms.uid = req[r].snap.uid) => ms.life = "deleting",
           outcome = "NotFound" => ~Exists(ms)
    PROVE  Inv'
<1>1. Answer(r, outcome) /\ UNCHANGED <<ms, rev, uids>>
  BY DEF Refuse
<1>2. Written
  BY <1>1, Zenon DEF Written
<1>3. req[r].method # "POST" => Exists(req[r].snap)
  BY Zenon DEF Inv, StageInv, SentInv, Mutable
<1>4. (/\ req[r].method = "DELETE" /\ outcome \in {"ok", "NotFound"}
       /\ ms'.uid = req[r].snap.uid) => ms'.life = "deleting"
  BY <1>1, <1>3, Zenon DEF Exists
<1> QED
  BY <1>1, <1>2, <1>4, AnswerStep

\* A step of the API server.
LEMMA ServerStep ==
    ASSUME Inv, NEW r \in Requests, APIServer(r)
    PROVE  Inv'
<1>1. /\ req[r].call = "sent" /\ req[r] \in RequestType
      /\ req[r].want \in SpecType /\ req[r].snap \in ObjectType
      /\ ms \in ObjectType /\ rev \in Nat /\ uids \in Nat
  BY Zenon DEF Inv, TypeOK, RequestType, APIServer, ExecuteCreate, ExecuteUpdate, Updated,
         ExecuteDelete, LoseCall
<1>2. StageInv(req[r]) /\ SentInv(req[r])
  BY <1>1, Zenon DEF Inv, StageInv
<1>3. "ok" \in Outcomes /\ "lost" \in Outcomes /\ "Invalid" \in Outcomes
      /\ "AlreadyExists" \in Outcomes /\ "NotFound" \in Outcomes
      /\ "Conflict" \in Outcomes
  BY DEF Outcomes
<1> DEFINE spec == Store(req[r].want)
<1>4. spec \in SpecType
  BY <1>1, StoreType
<1>5. CASE ExecuteCreate(r)
  <2>1. req[r].method = "POST"
    BY <1>5, Zenon DEF ExecuteCreate
  <2>2. \/ ~CRDValid(spec) /\ Refuse(r, "Invalid")
        \/ Refuse(r, "AlreadyExists")
        \/ /\ CRDValid(spec)
           /\ ms' = NewObject(spec, {}) /\ rev' = rev + 1 /\ uids' = uids + 1
           /\ Answer(r, "ok")
    BY <1>5, Zenon DEF ExecuteCreate
  <2>3. CASE \/ ~CRDValid(spec) /\ Refuse(r, "Invalid")
             \/ Refuse(r, "AlreadyExists")
    <3>1. CRDValid(spec) \/ Unvalidated(req[r].method, spec)
      BY <1>2, <2>1, InputConstants, CreateAdmitted, ZenonT(30) DEF SentInv
    <3> QED
      BY <1>1, <1>3, <2>1, <2>3, <3>1, RefuseStep, ZenonT(30)
  <2>4. CASE /\ CRDValid(spec)
             /\ ms' = NewObject(spec, {}) /\ rev' = rev + 1 /\ uids' = uids + 1
             /\ Answer(r, "ok")
    <3> HIDE DEF spec
    <3>1. Written
      BY <1>4, <2>4, CreateWrites
    <3> QED
      BY <1>1, <1>3, <2>1, <2>4, <3>1, AnswerStep
  <2> QED
    BY Zenon, <2>2, <2>3, <2>4
<1>6. CASE ExecuteUpdate(r)
  <2>1. req[r].method \in {"PUT", "PATCH"}
    BY <1>6 DEF ExecuteUpdate, Updated
  <2>2. \/ Refuse(r, "Conflict") \/ Refuse(r, "ok")
        \/ /\ UpdatePrecondition(req[r].snap)
           /\ ~(CRDValid(spec) /\ CRDTransition(ms.spec, spec))
           /\ Refuse(r, "Invalid")
        \/ /\ CRDValid(spec)
           /\ ms' = [ms EXCEPT !.rv = rev + 1, !.gen = @ + 1,
                               !.markers = req[r].snap.markers, !.spec = spec]
           /\ rev' = rev + 1 /\ Answer(r, "ok") /\ UNCHANGED uids
    BY <1>6, Zenon DEF ExecuteUpdate, Updated
  <2>3. CASE Refuse(r, "Conflict") \/ Refuse(r, "ok")
    BY <1>1, <1>3, <2>1, <2>3, RefuseStep, ZenonT(30)
  <2>4. CASE /\ UpdatePrecondition(req[r].snap)
             /\ ~(CRDValid(spec) /\ CRDTransition(ms.spec, spec))
             /\ Refuse(r, "Invalid")
    <3>1. /\ Mutable(req[r].snap) /\ CRDValid(req[r].snap.spec)
          /\ req[r].snap.spec \in SpecType
      BY <1>1, <1>2, <2>1, ZenonT(30) DEF SentInv, ObjectType
    <3>2. ms = req[r].snap
      BY <2>4, <3>1, Zenon DEF Inv, SnapInv, UpdatePrecondition, Mutable, Exists
    <3>3. /\ CRDValid(spec) \/ Unvalidated(req[r].method, spec)
          /\ CRDTransition(ms.spec, spec)
      <4>1. CASE req[r].method = "PUT"
        <5> DEFINE b == Completed(req[r].body, req[r].snap.spec)
        <5>1. /\ b.backend = BackendOf(req[r].snap.spec.backend)
              /\ ValidateCreateModelService(b)
              /\ req[r].want = applyUpdateRequest(req[r].snap.spec, b)
          BY <1>2, <4>1, ZenonT(30) DEF SentInv, KeepsBackend
        <5>2. b \in BodyType
          BY <1>2, <3>1, <4>1, InputConstants, UpdateType, SMTT(30) DEF SentInv
        <5> HIDE DEF b
        <5> QED
          BY <3>1, <3>2, <4>1, <5>1, <5>2, UpdateAdmitted, ZenonT(30)
      <4>2. CASE req[r].method = "PATCH"
        BY <1>2, <3>1, <3>2, <4>2, InputConstants, PatchAdmitted, Zenon DEF SentInv
      <4> QED
        BY <2>1, <4>1, <4>2, Zenon
    <3> QED
      BY <1>1, <1>3, <2>1, <2>4, <3>3, RefuseStep, SMTT(30)
  <2>5. CASE /\ CRDValid(spec)
             /\ ms' = [ms EXCEPT !.rv = rev + 1, !.gen = @ + 1,
                               !.markers = req[r].snap.markers, !.spec = spec]
             /\ rev' = rev + 1 /\ Answer(r, "ok") /\ UNCHANGED uids
    <3> HIDE DEF spec
    <3>1. /\ ms.gen + 1 \in Nat /\ rev + 1 \in Nat
          /\ req[r].snap.markers \in SUBSET Markers
      BY <1>1 DEF ObjectType
    <3>2. /\ ms' \in ObjectType /\ ms'.uid = ms.uid /\ ms'.rv = rev + 1
          /\ ms'.spec = spec /\ ms'.life = ms.life
      BY <1>1, <1>4, <2>5, <3>1, Zenon DEF ObjectType
    <3>3. Written
      BY <2>5, <3>2, ChangeWrites, Zenon
    <3> QED
      BY <1>1, <1>3, <2>1, <2>5, <3>3, AnswerStep, ZenonT(30)
  <2> QED
    BY <2>2, <2>3, <2>4, <2>5
<1>7. CASE ExecuteDelete(r)
  <2>1. req[r].method = "DELETE"
    BY <1>7, SMTT(30) DEF ExecuteDelete
  <2>2. \/ ~Exists(ms) /\ Refuse(r, "NotFound")
        \/ Refuse(r, "Conflict")
        \/ ms' = NoObject /\ Answer(r, "ok") /\ UNCHANGED <<rev, uids>>
        \/ /\ ms' = Condemned /\ rev' = rev + 1
           /\ Answer(r, "ok") /\ UNCHANGED uids
        \/ ms.life = "deleting" /\ Refuse(r, "ok")
    BY <1>7, ZenonT(30) DEF ExecuteDelete, Refuse
  <2>3. CASE \/ ~Exists(ms) /\ Refuse(r, "NotFound")
             \/ Refuse(r, "Conflict")
             \/ ms.life = "deleting" /\ Refuse(r, "ok")
    BY <1>1, <1>3, <2>1, <2>3, RefuseStep, ZenonT(30)
  <2>4. CASE ms' = NoObject /\ Answer(r, "ok") /\ UNCHANGED <<rev, uids>>
    <3>1. Written
      BY <2>4, RemoveWrites, Zenon
    <3>2. ms'.uid # req[r].snap.uid
      BY <1>2, <2>1, <2>4, ZenonT(30) DEF SentInv, Mutable, Exists, NoObject
    <3> QED
      BY <1>1, <1>3, <2>1, <2>4, <3>1, <3>2, AnswerStep
  <2>5. CASE /\ ms' = Condemned /\ rev' = rev + 1
             /\ Answer(r, "ok") /\ UNCHANGED uids
    <3>1. Written /\ ms'.life = "deleting"
      BY <2>5, CondemnWrites
    <3> QED
      BY <1>1, <1>3, <2>1, <2>5, <3>1, AnswerStep
  <2> QED
    BY <2>2, <2>3, <2>4, <2>5
<1>8. CASE LoseCall(r)
  BY <1>1, <1>3, <1>8, RefuseStep DEF LoseCall
<1> QED
  BY <1>5, <1>6, <1>7, <1>8 DEF APIServer

\* A step of kubectl, Argo CD or the operator.
LEMMA OutsideStep ==
    ASSUME Inv, Outside
    PROVE  Inv'
<1>1. /\ ms \in ObjectType /\ rev \in Nat /\ uids \in Nat
      /\ ms.gen \in Nat /\ ms.gen + 1 \in Nat /\ rev + 1 \in Nat
      /\ Exists(ms) => CRDValid(ms.spec)
  BY SMTT(30) DEF Inv, TypeOK, ObjectType
<1>2. UNCHANGED req
  BY Zenon DEF Outside, OutsideCreate, OutsideEdit, OutsideMark, OutsideDelete,
         OutsideHold, OutsideRelease, OperatorStatus
<1> SUFFICES Written
  <2>1. ASSUME Written
        PROVE  /\ TypeOK' /\ ms'.rv <= rev' /\ ms'.uid <= uids'
               /\ Exists(ms') => CRDValid(ms'.spec)
    BY <1>2, <2>1 DEF Inv, TypeOK, Written
  <2>2. ASSUME Written
        PROVE  \A r \in Requests : SnapInv(req[r], ms', rev', uids')
    BY <2>2, WrittenSnap
  <2> QED
    BY <1>2, <2>1, <2>2, ZenonT(30) DEF Inv
<1>3. CASE OutsideCreate
  BY <1>3, CreateWrites, InputConstants, SMTT(30) DEF OutsideCreate
<1>4. CASE OutsideEdit
  <2>1. PICK spec \in AppliedSpecs :
          ms' = [ms EXCEPT !.rv = rev + 1, !.gen = @ + 1, !.spec = spec]
    BY <1>4, Zenon DEF OutsideEdit
  <2>2. /\ spec \in SpecType /\ CRDValid(spec)
        /\ rev' = rev + 1 /\ UNCHANGED uids
    BY <1>4, InputConstants DEF OutsideEdit
  <2>3. /\ ms' \in ObjectType /\ ms'.uid = ms.uid /\ ms'.rv = rev + 1
        /\ ms'.spec = spec /\ ms'.life = ms.life
    BY <1>1, <2>1, <2>2, Zenon DEF ObjectType
  <2> QED
    BY <2>2, <2>3, ChangeWrites, Zenon
<1>5. CASE OutsideMark
  <2>1. PICK m \in SUBSET Markers :
          ms' = [ms EXCEPT !.rv = rev + 1, !.markers = m]
    BY <1>5, Zenon DEF OutsideMark
  <2>2. rev' = rev + 1 /\ UNCHANGED uids
    BY <1>5 DEF OutsideMark
  <2>3. /\ ms' \in ObjectType /\ ms'.uid = ms.uid /\ ms'.rv = rev + 1
        /\ ms'.spec = ms.spec /\ ms'.life = ms.life
    BY <1>1, <2>1, Zenon DEF ObjectType
  <2> QED
    BY <1>1, <2>2, <2>3, ChangeWrites, Zenon
<1>6. CASE OutsideDelete
  BY <1>6, RemoveWrites, CondemnWrites, Zenon DEF OutsideDelete
<1>7. CASE OperatorStatus
  <2>1. /\ ms' \in ObjectType /\ ms'.uid = ms.uid /\ ms'.rv = rev + 1
        /\ ms'.spec = ms.spec /\ ms'.life = ms.life
    BY <1>1, <1>7, Zenon DEF OperatorStatus, ObjectType
  <2>2. rev' = rev + 1 /\ UNCHANGED uids
    BY <1>7 DEF OperatorStatus
  <2> QED
    BY <1>1, <2>1, <2>2, ChangeWrites, Zenon
<1>8. ASSUME NEW l \in {"free", "held"}, ms.life # "deleting",
             ms' = [ms EXCEPT !.rv = rev + 1, !.life = l],
             rev' = rev + 1, UNCHANGED uids
      PROVE  Written
  <2>1. /\ ms' \in ObjectType /\ ms'.uid = ms.uid /\ ms'.rv = rev + 1
        /\ ms'.spec = ms.spec
    BY <1>1, <1>8, Zenon DEF ObjectType, Lives
  <2> QED
    BY <1>1, <1>8, <2>1, ChangeWrites, Zenon
<1>9. CASE OutsideHold
  BY <1>8, <1>9, Zenon DEF OutsideHold
<1>10. CASE OutsideRelease
  BY <1>8, <1>10, RemoveWrites, Zenon DEF OutsideRelease
<1> QED
  BY <1>3, <1>4, <1>5, <1>6, <1>7, <1>9, <1>10, ZenonT(30) DEF Outside

\* The crash of the platform API.
LEMMA CrashStep ==
    ASSUME Inv, Crash
    PROVE  Inv'
<1>1. req \in [Requests -> RequestType] /\ UNCHANGED <<ms, rev, uids>>
  BY DEF Inv, TypeOK, Crash
<1>2. ASSUME NEW r \in Requests
      PROVE  /\ req'[r] \in RequestType
             /\ StageInv(req'[r])
             /\ SnapInv(req'[r], ms', rev', uids')
             /\ AnswerInv(req'[r])
  <2>1. /\ req[r] \in RequestType /\ StageInv(req[r])
        /\ SnapInv(req[r], ms, rev, uids) /\ AnswerInv(req[r])
    BY <1>1 DEF Inv
  <2>2. CASE req'[r] = req[r]
    BY ZenonT(30), <1>1, <2>1, <2>2
  <2>3. CASE /\ req[r].pc \in {"get", "write"}
             /\ req'[r] = [req[r] EXCEPT !.pc = "gone"]
    <3>1. /\ req'[r] \in RequestType
          /\ req'[r].pc = "gone" /\ req'[r].call = req[r].call
          /\ req'[r].method = req[r].method /\ req'[r].snap = req[r].snap
          /\ req'[r].body = req[r].body /\ req'[r].want = req[r].want
      BY <2>1, <2>3, Zenon DEF RequestType
    <3>2. StageInv(req'[r])
      BY <2>1, <2>3, <3>1, ZenonT(30) DEF StageInv, SentInv
    <3>3. SnapInv(req'[r], ms', rev', uids')
      BY <1>1, <2>1, <3>1, Zenon DEF SnapInv
    <3>4. AnswerInv(req'[r])
      BY <2>1, <3>1, Zenon DEF AnswerInv
    <3> QED
      BY <3>1, <3>2, <3>3, <3>4
  <2> QED
    BY <1>1, <2>2, <2>3 DEF Crash
<1>3. req' \in [Requests -> RequestType]
  BY <1>1, <1>2 DEF Crash
<1> QED
  BY <1>1, <1>2, <1>3 DEF Inv, TypeOK

\* Every step keeps the invariant.
LEMMA NextInv == Inv /\ [Next]_vars => Inv'
<1> SUFFICES ASSUME Inv, [Next]_vars PROVE Inv'
  OBVIOUS
<1>1. CASE Next
  BY <1>1, ReceiveStep, RunStep, ServerStep, CrashStep, OutsideStep DEF Next
<1>2. CASE UNCHANGED vars
  BY <1>2 DEF vars, Inv, TypeOK
<1> QED
  BY <1>1, <1>2

\* The inductive invariant holds in every reachable state.
THEOREM Invariance == Spec => []Inv
  BY InitInv, NextInv, PTL DEF Spec

\* Every variable keeps its type, for every set of requests and of bodies:
\* the conversions of the handlers and of the API server yield specs.
THEOREM TypeCorrectness == Spec => []TypeOK
<1>1. Inv => TypeOK
  BY Zenon DEF Inv
<1> QED
  BY <1>1, Invariance, PTL

\* The status code tells the client what became of its request: in particular
\* a DELETE answered 204 has condemned the object it inspected, whoever holds it
\* and whatever is done to it afterwards.
THEOREM AnswersAreTruthful == Spec => []AnswerTellsEffect
<1>1. Inv => AnswerTellsEffect
  BY SMTT(30) DEF Inv, AnswerTellsEffect, AnswerInv, SnapInv, modelServiceState
<1> QED
  BY <1>1, Invariance, PTL

\* The handlers' validation and the CRD's agree, but for the reasons listed:
\* a write that reaches the API server is never refused for its backend,
\* predictor, image or port, whatever has become of the object meanwhile.
THEOREM ValidationCoversAdmission == Spec => []LateRefusalsExplained
<1>1. Inv => LateRefusalsExplained
  BY Zenon DEF Inv, StageInv, LateRefusalsExplained
<1> QED
  BY <1>1, Invariance, PTL

(***************************************************************************)
(* What a write is applied to                                              *)
(***************************************************************************)

\* Only the API server's own step on r turns a sent write into an applied one.
LEMMA OnlyServerCommits ==
    ASSUME Inv, Next, NEW r \in Requests,
           req[r].call = "sent", req'[r].call = "ok"
    PROVE  ExecuteCreate(r) \/ ExecuteUpdate(r) \/ ExecuteDelete(r)
<1>1. req \in [Requests -> RequestType] /\ req[r] \in RequestType
      /\ req[r].pc \notin {"idle", "get"}
  BY DEF Inv, TypeOK, StageInv
<1>2. ASSUME NEW x \in Requests, Receive(x) PROVE FALSE
  <2>1. req[x].pc = "idle"
    BY <1>2, Zenon DEF Receive, RejectRequest, ReceivePost, ReceivePut, ReceivePatch,
                ReceiveDelete
  <2>2. x # r
    BY <1>1, <2>1, SMTT(30)
  <2>3. req'[r] = req[r]
    BY <1>1, <1>2, <2>2, ZenonT(30) DEF Receive, RejectRequest, ReceivePost, ReceivePut,
                            ReceivePatch, ReceiveDelete
  <2> QED
    BY <2>3, SMTT(30)
<1>3. ASSUME NEW x \in Requests, Handler(x) PROVE FALSE
  <2>1. \/ \E code : Respond(x, code)
        \/ req[x].pc = "get" /\ \E want : Send(x, want)
    <3>1. CASE LoadForPut(x) \/ LoadForPatch(x) \/ LoadForDelete(x)
      BY <3>1 DEF LoadForPut, LoadForPatch, LoadForDelete, Loading
    <3>2. CASE \/ LoadRejected(x) \/ LoadFailed(x) \/ Reply(x)
               \/ WriteTimeout(x)
      BY <3>2, ZenonT(30) DEF LoadRejected, LoadFailed, Reply, WriteTimeout
    <3> QED
      BY <1>3, <3>1, <3>2, ZenonT(30) DEF Handler
  <2>2. req'[r].call = req[r].call
    <3>1. CASE \E code : Respond(x, code)
      BY <1>1, <3>1 DEF Respond, RequestType
    <3>2. CASE req[x].pc = "get" /\ \E want : Send(x, want)
      BY <1>1, <3>2 DEF Send
    <3> QED
      BY <2>1, <3>1, <3>2
  <2> QED
    BY <2>2
<1>4. ASSUME Crash PROVE FALSE
  BY <1>1, <1>4, SMTT(30) DEF Crash, RequestType
<1>5. ASSUME Outside PROVE FALSE
  BY <1>5, Zenon DEF Outside, OutsideCreate, OutsideEdit, OutsideMark, OutsideDelete,
              OutsideHold, OutsideRelease, OperatorStatus
<1>6. ASSUME NEW x \in Requests, APIServer(x)
      PROVE  ExecuteCreate(r) \/ ExecuteUpdate(r) \/ ExecuteDelete(r)
  <2>1. \E outcome : Answer(x, outcome)
    BY <1>6 DEF APIServer, ExecuteCreate, ExecuteUpdate, Updated, ExecuteDelete,
                LoseCall, Refuse
  <2>2. x = r
    BY <1>1, <2>1 DEF Answer
  <2>3. ~LoseCall(r)
    BY <1>1 DEF LoseCall, Refuse, Answer, RequestType
  <2> QED
    BY <1>6, <2>2, <2>3 DEF APIServer
<1> QED
  BY <1>2, <1>3, <1>4, <1>5, <1>6, ZenonT(30) DEF Next

\* An applied PUT, PATCH or DELETE finds the object its handler inspected.
LEMMA CommitFindsSnapshot ==
    ASSUME Inv, Next, NEW r \in Requests, Commits(r)
    PROVE  ms = req[r].snap /\ Mutable(ms)
<1>1. /\ req \in [Requests -> RequestType] /\ req[r] \in RequestType
      /\ SentInv(req[r]) /\ SnapInv(req[r], ms, rev, uids)
  BY Zenon DEF Inv, TypeOK, StageInv, Commits
<1>2. Mutable(req[r].snap)
  BY <1>1, ZenonT(30) DEF SentInv, Commits
<1>3. ExecuteUpdate(r) \/ ExecuteDelete(r)
  BY OnlyServerCommits, ZenonT(30) DEF Commits, ExecuteCreate
<1>4. Exists(ms) /\ ms.rv = req[r].snap.rv
  <2>1. ASSUME NEW outcome, outcome # "ok", Refuse(r, outcome) PROVE FALSE
    BY <1>1, <2>1 DEF Refuse, Answer, RequestType, Commits
  <2>2. CASE ExecuteUpdate(r)
    BY <1>2, <2>1, <2>2, Zenon DEF ExecuteUpdate, UpdatePrecondition, Mutable,
                                   Exists
  <2>3. CASE ExecuteDelete(r)
    BY <2>1, <2>3, ZenonT(30) DEF ExecuteDelete, DeletePreconditions
  <2> QED
    BY <1>3, <2>2, <2>3
<1>5. ms = req[r].snap
  BY <1>1, <1>2, <1>4 DEF SnapInv, Mutable
<1> QED
  BY <1>2, <1>5, Zenon

\* No PUT, PATCH or DELETE is applied to an object that Argo CD manages at
\* that moment, although the handlers check only the object they read.
THEOREM GitOpsRespected == Spec => MutationsRespectGitOps
<1>1. Inv /\ [Next]_vars =>
        [\A r \in Requests : Commits(r) => ~GitOpsManaged(ms)]_vars
  BY CommitFindsSnapshot DEF Mutable
<1> QED
  BY <1>1, Invariance, PTL DEF Spec, MutationsRespectGitOps

\* A PUT, PATCH or DELETE is applied only to the version the handler read.
THEOREM NoLostUpdate == Spec => WritesWhatItInspected
<1>1. Inv /\ [Next]_vars =>
        [\A r \in Requests : Commits(r) => ms = req[r].snap]_vars
  BY CommitFindsSnapshot
<1> QED
  BY <1>1, Invariance, PTL DEF Spec, WritesWhatItInspected

================================================================================
