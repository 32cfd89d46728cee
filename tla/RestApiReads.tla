----------------------------- MODULE RestApiReads -----------------------------
(***************************************************************************)
(* What clients are shown is what they asked for: RestApi's conversions,   *)
(* the encoding of the Kubernetes client and the defaults of the CRD, for  *)
(* every body the handlers accept.  What was applied once can be sent      *)
(* again: it stores what is stored.                                        *)
(***************************************************************************)
EXTENDS RestApiProofs

\* The exposure a reader sees of one that was stored.
ShownExposure(e) ==
    [enabled |-> e.enabled,
     hostname |-> IF e.enabled THEN e.hostname ELSE Empty,
     pathPrefix |-> IF e.enabled THEN e.pathPrefix ELSE Empty]

ShownStorage(s) ==
    [enabled |-> s.enabled,
     size |-> IF s.enabled THEN s.size ELSE Empty,
     mountPath |-> IF s.enabled THEN s.mountPath ELSE Empty]

\* A requested exposure survives storage and defaulting.
LEMMA ExposureShown ==
    ASSUME NEW b \in BodyType, validateExposure(b.exposure), NEW e,
           \/ b.exposure.enabled /\ e = RequestExposure(b.exposure)
           \/ ~b.exposure.enabled /\ e \in ExposureType /\ ~e.enabled
    PROVE  ShownExposure(StoreExposure(e)) = Shown(b).exposure
<1>1. CASE b.exposure.enabled
  <2>1. e \in ExposureType /\ e = RequestExposure(b.exposure)
    BY <1>1, BlockTypes
  <2>2. /\ e.present /\ e.enabled /\ e.hostname = b.exposure.hostname
        /\ e.pathPrefix = OmitEmpty(b.exposure.pathPrefix, Empty, "/")
        /\ e.pathPrefix # Empty
    BY <1>1, <2>1, SpecConstants DEF RequestExposure, OmitEmpty
  <2>3. LET x == StoreExposure(e)
        IN  /\ x.enabled /\ x.hostname = e.hostname
            /\ x.pathPrefix = e.pathPrefix
    BY <2>1, <2>2 DEF StoreExposure, OmitEmpty, ExposureType
  <2> QED
    BY <1>1, <2>2, <2>3 DEF ShownExposure, Shown
<1>2. CASE ~b.exposure.enabled
  <2>1. ~StoreExposure(e).enabled
    BY <1>2 DEF StoreExposure, ExposureType
  <2> QED
    BY <1>2, <2>1 DEF ShownExposure, Shown, BodyType, StoreExposure, ExposureType
<1> QED
  BY <1>1, <1>2

\* A requested storage block survives storage and defaulting.
LEMMA StorageShown ==
    ASSUME NEW b \in BodyType, validateStorage(b.storage), NEW v,
           \/ b.storage.enabled /\ v = RequestStorage(b.storage)
           \/ ~b.storage.enabled /\ v \in StorageType /\ ~v.enabled
    PROVE  ShownStorage(StoreStorage(v)) = Shown(b).storage
<1>1. CASE b.storage.enabled
  <2>1. v \in StorageType /\ v = RequestStorage(b.storage)
    BY <1>1, BlockTypes
  <2>2. /\ v.present /\ v.enabled /\ v.size = b.storage.size
        /\ v.mountPath = b.storage.mountPath
    BY <1>1, <2>1 DEF RequestStorage
  <2>3. v.size # Empty /\ v.mountPath # Empty
    BY <1>1, <2>2, SpecConstants, RequestConstants DEF validateStorage
  <2>4. LET x == StoreStorage(v)
        IN  x.enabled /\ x.size = v.size /\ x.mountPath = v.mountPath
    BY <2>1, <2>2, <2>3 DEF StoreStorage, OmitEmpty, StorageType
  <2> QED
    BY <1>1, <2>2, <2>4 DEF ShownStorage, Shown
<1>2. CASE ~b.storage.enabled
  <2>1. ~StoreStorage(v).enabled
    BY <1>2 DEF StoreStorage, StorageType
  <2> QED
    BY <1>2, <2>1 DEF ShownStorage, Shown, BodyType, StoreStorage, StorageType
<1> QED
  BY <1>1, <1>2

\* What the handlers make sure of before a body is used.
LEMMA Accepted ==
    ASSUME NEW b, ValidateCreateModelService(b)
    PROVE  /\ validateExposure(b.exposure) /\ validateStorage(b.storage)
           /\ b.replicas # 0
           /\ \/ BackendOf(b.backend) = "Deployment" /\ b.port # 0
              \/ BackendOf(b.backend) = "KServe" /\ b.port = 0
<1>1. 0 \notin Ports /\ 0 \notin 1 .. MaxReplicas
  BY RequestConstants DEF Ports
<1>2. b.replicas # 0
  BY <1>1, Zenon DEF ValidateCreateModelService, validateReplicas
<1>3. validateExposure(b.exposure) /\ validateStorage(b.storage)
  BY Zenon DEF ValidateCreateModelService, validateDeploymentRequest,
               validateKServeRequest, validateExposure, validateStorage
<1> QED
  BY <1>1, <1>2, <1>3, Zenon
  DEF ValidateCreateModelService, validateDeploymentRequest,
      validateKServeRequest

\* A reader of a stored spec s sees the body b when s carries the fields of b
\* and b is acceptable.
LEMMA BodyShown ==
    ASSUME NEW b \in BodyType, ValidateCreateModelService(b),
           NEW s \in SpecType,
           s.backend = BackendOf(b.backend),
           s.image = b.image, s.replicas = b.replicas, s.port = b.port,
           s.predictor = b.predictor,
           \/ b.exposure.enabled /\ s.exposure = RequestExposure(b.exposure)
           \/ ~b.exposure.enabled /\ ~s.exposure.enabled,
           \/ b.storage.enabled /\ s.storage = RequestStorage(b.storage)
           \/ ~b.storage.enabled /\ ~s.storage.enabled
    PROVE  modelServiceToResponse(Store(s)) = Shown(b)
<1> DEFINE t == Store(s)
<1>1. /\ validateExposure(b.exposure) /\ validateStorage(b.storage)
      /\ b.replicas # 0
      /\ \/ BackendOf(b.backend) = "Deployment" /\ b.port # 0
         \/ BackendOf(b.backend) = "KServe" /\ b.port = 0
  BY Accepted
<1>2. s.exposure \in ExposureType /\ s.storage \in StorageType
  BY DEF SpecType
<1>3. /\ ShownExposure(t.exposure) = Shown(b).exposure
      /\ ShownStorage(t.storage) = Shown(b).storage
  BY <1>1, <1>2, StoreFields, ExposureShown, StorageShown
<1>4. t.image = b.image /\ t.predictor = b.predictor
  BY StoreFields
<1>5. t.replicas = b.replicas
  BY <1>1, StoreFields DEF OmitEmpty
<1>6. BackendOf(b.backend) = "Deployment" => t.port = b.port
  BY <1>1, StoreFields DEF OmitEmpty
<1>7. "Deployment" # Empty /\ "KServe" # Empty
  BY DEF Empty
<1>8. BackendOf(t.backend) = BackendOf(b.backend)
  BY <1>1, <1>7, StoreFields DEF OmitEmpty, BackendOf
<1> HIDE DEF t
<1> DEFINE image == IF BackendOf(b.backend) = "Deployment" THEN b.image
                    ELSE Empty
<1>9. /\ (IF BackendOf(t.backend) = "Deployment" THEN t.image ELSE Empty) = image
      /\ (IF BackendOf(t.backend) = "Deployment" THEN t.port ELSE 0) = b.port
  BY <1>1, <1>4, <1>6, <1>8
<1>10. modelServiceToResponse(t) =
        [backend |-> BackendOf(b.backend), image |-> image,
         replicas |-> b.replicas, port |-> b.port, predictor |-> b.predictor,
         exposure |-> ShownExposure(t.exposure),
         storage |-> ShownStorage(t.storage)]
  BY <1>4, <1>5, <1>8, <1>9, Zenon
  DEF modelServiceToResponse, ShownExposure, ShownStorage
<1>11. Shown(b) =
        [backend |-> BackendOf(b.backend), image |-> image,
         replicas |-> b.replicas, port |-> b.port, predictor |-> b.predictor,
         exposure |-> Shown(b).exposure, storage |-> Shown(b).storage]
  BY DEF Shown
<1> QED
  BY <1>3, <1>10, <1>11 DEF t

\* A POST is shown as it was asked for.
LEMMA CreateShown ==
    ASSUME NEW b \in BodyType, ValidateCreateModelService(b)
    PROVE  modelServiceToResponse(Store(createRequestToModelService(b)))
             = Shown(b)
<1> DEFINE s == createRequestToModelService(b)
<1>1. s \in SpecType
  BY CreateType
<1>2. /\ s.backend = BackendOf(b.backend)
      /\ s.image = b.image /\ s.replicas = b.replicas
      /\ s.port = b.port /\ s.predictor = b.predictor
      /\ s.exposure = IF b.exposure.enabled
                      THEN RequestExposure(b.exposure) ELSE NoExposure
      /\ s.storage = IF b.storage.enabled
                     THEN RequestStorage(b.storage) ELSE NoStorage
  BY CreateFields
<1>3. ~NoExposure.enabled /\ ~NoStorage.enabled
  BY DEF NoExposure, NoStorage
<1> HIDE DEF s
<1>4. /\ \/ b.exposure.enabled /\ s.exposure = RequestExposure(b.exposure)
         \/ ~b.exposure.enabled /\ ~s.exposure.enabled
      /\ \/ b.storage.enabled /\ s.storage = RequestStorage(b.storage)
         \/ ~b.storage.enabled /\ ~s.storage.enabled
  BY <1>2, <1>3
<1>5. modelServiceToResponse(Store(s)) = Shown(b)
  BY <1>1, <1>2, <1>4, BodyShown
<1> QED
  BY <1>5 DEF s

\* A PUT is shown as it was asked for, with the backend it implied.
LEMMA UpdateShown ==
    ASSUME NEW old \in SpecType, NEW b \in BodyType,
           ValidateCreateModelService(Completed(b, old))
    PROVE  modelServiceToResponse(
               Store(applyUpdateRequest(old, Completed(b, old))))
             = Shown([b EXCEPT !.backend =
                        OmitEmpty(@, Empty, BackendOf(old.backend))])
<1> DEFINE c == Completed(b, old)
           s == applyUpdateRequest(old, c)
<1>1. c \in BodyType
  BY UpdateType
<1>2. s \in SpecType
  BY <1>1, UpdateType
<1>3. c = [b EXCEPT !.backend = OmitEmpty(@, Empty, BackendOf(old.backend))]
  BY Zenon DEF Completed, OmitEmpty
<1>4. BackendOf(c.backend) = c.backend
  <2>1. BackendOf(old.backend) # Empty
    BY DEF BackendOf, Empty
  <2>2. c.backend # Empty
    BY <2>1 DEF Completed, BodyType
  <2> QED
    BY <2>2 DEF BackendOf
<1> HIDE DEF c
<1>5. /\ s.backend = c.backend
      /\ s.image = c.image /\ s.replicas = c.replicas
      /\ s.port = c.port /\ s.predictor = c.predictor
      /\ s.exposure = IF c.exposure.enabled
                      THEN RequestExposure(c.exposure)
                      ELSE [NoExposure EXCEPT !.present = TRUE]
      /\ s.storage = IF c.storage.enabled
                     THEN RequestStorage(c.storage)
                     ELSE [NoStorage EXCEPT !.present = TRUE]
  BY <1>1, UpdateFields, Zenon
<1>6. /\ ~[NoExposure EXCEPT !.present = TRUE].enabled
      /\ ~[NoStorage EXCEPT !.present = TRUE].enabled
  BY DEF NoExposure, NoStorage
<1> HIDE DEF s
<1>7. /\ \/ c.exposure.enabled /\ s.exposure = RequestExposure(c.exposure)
         \/ ~c.exposure.enabled /\ ~s.exposure.enabled
      /\ \/ c.storage.enabled /\ s.storage = RequestStorage(c.storage)
         \/ ~c.storage.enabled /\ ~s.storage.enabled
  BY <1>5, <1>6
<1>8. ValidateCreateModelService(c)
  BY DEF c
<1>9. modelServiceToResponse(Store(s)) = Shown(c)
  BY <1>1, <1>2, <1>4, <1>5, <1>7, <1>8, BodyShown, Zenon
<1> QED
  BY <1>3, <1>9 DEF s, c

\* An accepted PATCH of the exposure shows what it names.
LEMMA ExposurePatchShown ==
    ASSUME NEW old \in ExposureType, NEW p,
           Partial(p, [enabled |-> BOOLEAN, hostname |-> Text,
                       pathPrefix |-> Text]),
           NEW e, e = applyExposurePatch(old, p), e \in ExposureType,
           NEW g \in DOMAIN p
    PROVE  LET x == ShownExposure(StoreExposure(e))
           IN  CASE g = "enabled" -> x.enabled = p.enabled
                 [] g = "pathPrefix" ->
                      x.enabled => x[g] = OmitEmpty(p[g], Empty, "/")
                 [] OTHER -> x.enabled => x[g] = p[g]
<1>1. g \in {"enabled", "hostname", "pathPrefix"}
  BY DEF Partial
<1>2. /\ e.present /\ e.enabled = Patched(old, p, "enabled")
      /\ e.hostname = Patched(old, p, "hostname")
      /\ e.enabled => e.pathPrefix =
             OmitEmpty(Patched(old, p, "pathPrefix"), Empty, "/")
  BY DEF applyExposurePatch, OmitEmpty
<1>3. "/" # Empty
  BY SpecConstants
<1>4. LET x == StoreExposure(e)
      IN  /\ x.enabled = e.enabled /\ x.hostname = e.hostname
          /\ e.pathPrefix # Empty => x.pathPrefix = e.pathPrefix
  BY DEF StoreExposure, ExposureType, OmitEmpty
<1>5. CASE g = "enabled"
  BY <1>2, <1>4, <1>5 DEF ShownExposure, Patched
<1>6. CASE g = "hostname"
  BY <1>2, <1>4, <1>6 DEF ShownExposure, Patched
<1>7. CASE g = "pathPrefix"
  BY <1>2, <1>3, <1>4, <1>7 DEF ShownExposure, Patched, OmitEmpty
<1> QED
  BY <1>1, <1>5, <1>6, <1>7

\* An accepted PATCH of the storage block shows what it names.
LEMMA StoragePatchShown ==
    ASSUME NEW old \in StorageType, NEW p,
           Partial(p, [enabled |-> BOOLEAN, size |-> Text, mountPath |-> Text]),
           NEW v, v = applyStoragePatch(old, p), v \in StorageType,
           validateStorage(v),
           NEW g \in DOMAIN p
    PROVE  LET x == ShownStorage(StoreStorage(v))
           IN  IF g = "enabled" THEN x.enabled = p.enabled
               ELSE x.enabled => x[g] = p[g]
<1>1. g \in {"enabled", "size", "mountPath"}
  BY DEF Partial
<1>2. /\ v.present /\ v.enabled = Patched(old, p, "enabled")
      /\ v.size = Patched(old, p, "size")
      /\ v.mountPath = Patched(old, p, "mountPath")
  BY DEF applyStoragePatch
<1>3. v.enabled => v.size # Empty /\ v.mountPath # Empty
  BY SpecConstants, RequestConstants DEF validateStorage
<1>4. LET x == StoreStorage(v)
      IN  /\ x.enabled = v.enabled
          /\ v.enabled => x.size = v.size /\ x.mountPath = v.mountPath
  BY <1>3 DEF StoreStorage, StorageType, OmitEmpty
<1>5. CASE g = "enabled"
  BY <1>2, <1>4, <1>5 DEF ShownStorage, Patched
<1>6. CASE g = "size"
  BY <1>2, <1>4, <1>6 DEF ShownStorage, Patched
<1>7. CASE g = "mountPath"
  BY <1>2, <1>4, <1>7, SMTT(30) DEF ShownStorage, Patched
<1> QED
  BY <1>1, <1>5, <1>6, <1>7

\* The answer in terms of the blocks a reader sees.
LEMMA ResponseFields ==
    ASSUME NEW t
    PROVE  LET x == modelServiceToResponse(t)
           IN  /\ x.backend = BackendOf(t.backend)
               /\ x.backend = "Deployment" =>
                    x.image = t.image /\ x.port = t.port
               /\ x.replicas = t.replicas /\ x.predictor = t.predictor
               /\ x.exposure = ShownExposure(t.exposure)
               /\ x.storage = ShownStorage(t.storage)
  BY DEF modelServiceToResponse, ShownExposure, ShownStorage

\* An accepted PATCH shows every field it names.
LEMMA PatchShown ==
    ASSUME NEW old \in SpecType, NEW p, IsPatch(p), Nameable(p, old),
           NEW s, s = applyPatchRequest(old, p),
           ValidateCreateModelService(modelServiceToUpdateRequest(s)),
           NEW f \in DOMAIN p
    PROVE  ShowsPatch(modelServiceToResponse(Store(s)), p, f)
<1> DEFINE x == modelServiceToResponse(Store(s))
           u == modelServiceToUpdateRequest(s)
<1>1. s \in SpecType
  BY PatchType
<1>2. /\ s.backend = Patched(old, p, "backend")
      /\ s.predictor = Patched(old, p, "predictor")
      /\ s.image = Patched(old, p, "image")
      /\ s.replicas = Patched(old, p, "replicas")
      /\ s.port = Patched(old, p, "port")
      /\ "exposure" \in DOMAIN p =>
           s.exposure = applyExposurePatch(old.exposure, p.exposure)
      /\ "storage" \in DOMAIN p =>
           s.storage = applyStoragePatch(old.storage, p.storage)
  BY PatchFields
<1>3. /\ BackendOf(s.backend) = BackendOf(old.backend)
      /\ BackendOf(old.backend) # Empty
      /\ "Deployment" # Empty
  <2>1. BackendOf(old.backend) # Empty /\ "Deployment" # Empty
    BY DEF BackendOf, Empty
  <2>2. BackendOf(BackendOf(old.backend)) = BackendOf(old.backend)
    BY <2>1 DEF BackendOf
  <2> QED
    BY <1>2, <2>1, <2>2 DEF Patched, Nameable
<1>4. /\ BackendOf(s.backend) \in {"Deployment", "KServe"}
      /\ s.replicas # 0
      /\ BackendOf(s.backend) = "Deployment" => s.port # 0
      /\ validateStorage(s.storage)
  <2>1. /\ BackendOf(u.backend) = BackendOf(s.backend)
        /\ u.replicas = s.replicas
        /\ BackendOf(s.backend) = "Deployment" => u.port = s.port
        /\ validateStorage(u.storage) => validateStorage(s.storage)
    <3>1. u.backend = BackendOf(s.backend)
      BY DEF modelServiceToUpdateRequest
    <3>2. BackendOf(BackendOf(s.backend)) = BackendOf(s.backend)
      BY <1>3 DEF BackendOf
    <3> QED
      BY <3>1, <3>2 DEF modelServiceToUpdateRequest, validateStorage
  <2>2. /\ validateStorage(u.storage) /\ u.replicas # 0
        /\ \/ BackendOf(u.backend) = "Deployment" /\ u.port # 0
           \/ BackendOf(u.backend) = "KServe"
    BY Accepted, ZenonT(30)
  <2> QED
    BY ZenonT(30), <2>1, <2>2
<1>5. /\ x.backend = BackendOf(s.backend)
      /\ BackendOf(s.backend) = "Deployment" => x.image = s.image /\ x.port = s.port
      /\ x.replicas = s.replicas /\ x.predictor = s.predictor
      /\ x.exposure = ShownExposure(StoreExposure(s.exposure))
      /\ x.storage = ShownStorage(StoreStorage(s.storage))
  <2>1. BackendOf(Store(s).backend) = BackendOf(s.backend)
    BY <1>1, <1>3, StoreFields DEF OmitEmpty, BackendOf
  <2> QED
    BY <1>1, <1>4, <2>1, StoreFields, ResponseFields, SMTT(30) DEF OmitEmpty
<1> HIDE DEF x, u
<1>6. f \in {"backend", "image", "replicas", "port", "predictor", "exposure",
             "storage"}
  BY DEF IsPatch
<1>7. CASE f \notin {"exposure", "storage"}
  <2>1. f \in {"image", "port"} => BackendOf(s.backend) = "Deployment"
    BY <1>3, <1>4 DEF Nameable, DeploymentOnly
  <2>2. x[f] = p[f]
    <3>1. CASE f = "backend"
      BY <1>3, <1>5, <3>1 DEF Nameable
    <3>2. CASE f = "image"
      BY <1>2, <1>5, <2>1, <3>2 DEF Patched
    <3>3. CASE f = "replicas"
      BY <1>2, <1>5, <3>3, SMTT(30) DEF Patched
    <3>4. CASE f = "port"
      BY <1>2, <1>5, <2>1, <3>4, SMTT(30) DEF Patched
    <3>5. CASE f = "predictor"
      BY <1>2, <1>5, <3>5 DEF Patched
    <3> QED
      BY <1>6, <1>7, <3>1, <3>2, <3>3, <3>4, <3>5, SMTT(30)
  <2> QED
    BY <1>7, <2>2 DEF ShowsPatch, x
<1>8. CASE f = "exposure"
  <2>1. /\ old.exposure \in ExposureType /\ s.exposure \in ExposureType
        /\ Partial(p.exposure, [enabled |-> BOOLEAN, hostname |-> Text,
                                pathPrefix |-> Text])
    BY <1>1, <1>8 DEF SpecType, IsPatch
  <2>2. \A g \in DOMAIN p.exposure :
          CASE g = "enabled" -> x.exposure.enabled = p.exposure.enabled
            [] g = "pathPrefix" -> x.exposure.enabled =>
                 x.exposure[g] = OmitEmpty(p.exposure[g], Empty, "/")
            [] OTHER -> x.exposure.enabled => x.exposure[g] = p.exposure[g]
    BY <1>2, <1>5, <1>8, <2>1, ExposurePatchShown
  <2> QED
    BY <1>8, <2>2, Zenon DEF ShowsPatch, x
<1>9. CASE f = "storage"
  <2>1. /\ old.storage \in StorageType /\ s.storage \in StorageType
        /\ Partial(p.storage, [enabled |-> BOOLEAN, size |-> Text,
                               mountPath |-> Text])
    BY <1>1, <1>9, Zenon DEF SpecType, IsPatch
  <2>2. \A g \in DOMAIN p.storage :
          IF g = "enabled" THEN x.storage.enabled = p.storage.enabled
          ELSE x.storage.enabled => x.storage[g] = p.storage[g]
    BY <1>2, <1>4, <1>5, <1>9, <2>1, StoragePatchShown, SMTT(30)
  <2>3. \A g \in DOMAIN p.storage : g # "pathPrefix"
    BY <2>1, SMTT(30) DEF Partial
  <2> QED
    BY <1>9, <2>2, <2>3, Zenon DEF ShowsPatch, x
<1> QED
  BY <1>6, <1>7, <1>8, <1>9

\* The API server stores the spec an applied write carries.
LEMMA AppliedSpec ==
    ASSUME Inv, Next, NEW r \in Requests,
           req[r].call = "sent", req'[r].call = "ok",
           req[r].method # "DELETE"
    PROVE  ms'.spec = Store(req[r].want)
<1>1. req \in [Requests -> RequestType] /\ ms \in ObjectType
  BY DEF Inv, TypeOK
<1>2. ASSUME NEW outcome, outcome # "ok", Refuse(r, outcome) PROVE FALSE
  BY <1>1, <1>2 DEF Refuse, Answer, RequestType
<1>3. CASE ExecuteCreate(r)
  <2>1. ms' = NewObject(Store(req[r].want), {}) /\ req[r].method = "POST"
    BY <1>2, <1>3 DEF ExecuteCreate
  <2> QED
    BY <2>1 DEF NewObject
<1>4. CASE ExecuteUpdate(r)
  <2> DEFINE spec == Store(req[r].want)
  <2>1. /\ req[r].method \in {"PUT", "PATCH"}
        /\ \/ ms.spec = spec /\ UNCHANGED ms
           \/ ms' = [ms EXCEPT !.rv = rev + 1, !.gen = @ + 1,
                               !.markers = req[r].snap.markers, !.spec = spec]
    BY <1>2, <1>4 DEF ExecuteUpdate, Updated, Refuse
  <2> HIDE DEF spec
  <2>2. ms'.spec = spec
    BY <1>1, <2>1, Zenon DEF ObjectType
  <2> QED
    BY <2>1, <2>2 DEF spec
<1> QED
  BY <1>3, <1>4, OnlyServerCommits, Zenon DEF ExecuteDelete

\* Whatever body a client sends, once its write is applied every reader is
\* shown what it asked for: all of a POST or PUT, each field a PATCH names.
THEOREM ReadYourWrites == Spec => ReadsShowWrites
<1>1. ASSUME Inv, Next, NEW r \in Requests,
             req[r].call = "sent", req'[r].call = "ok",
             req[r].method # "DELETE"
      PROVE  LET shown == modelServiceToResponse(ms'.spec)
                 b == req[r].body
             IN  /\ req[r].method = "POST" => shown = Shown(b)
                 /\ req[r].method = "PUT" =>
                      shown = Shown([b EXCEPT !.backend =
                          OmitEmpty(@, Empty, BackendOf(ms.spec.backend))])
                 /\ req[r].method = "PATCH" =>
                      \A f \in DOMAIN b : ShowsPatch(shown, b, f)
  <2>1. SentInv(req[r]) /\ ms.spec \in SpecType
    BY <1>1 DEF Inv, StageInv, TypeOK, ObjectType
  <2>2. ms'.spec = Store(req[r].want)
    BY <1>1, AppliedSpec
  <2>3. req[r].method # "POST" => ms = req[r].snap
    BY <1>1, CommitFindsSnapshot, Zenon DEF Commits
  <2>4. ASSUME req[r].method = "POST"
        PROVE  modelServiceToResponse(ms'.spec) = Shown(req[r].body)
    BY <2>1, <2>2, <2>4, InputConstants, CreateShown DEF SentInv
  <2>5. ASSUME req[r].method = "PUT"
        PROVE  modelServiceToResponse(ms'.spec) =
                 Shown([req[r].body EXCEPT !.backend =
                          OmitEmpty(@, Empty, BackendOf(ms.spec.backend))])
    <3>1. /\ req[r].body \in BodyType
          /\ ValidateCreateModelService(Completed(req[r].body, ms.spec))
          /\ req[r].want = applyUpdateRequest(ms.spec,
                                  Completed(req[r].body, ms.spec))
      BY <2>1, <2>3, <2>5, InputConstants, Zenon DEF SentInv
    <3> QED
      BY <2>1, <2>2, <3>1, UpdateShown, Zenon
  <2>6. ASSUME req[r].method = "PATCH", NEW f \in DOMAIN req[r].body
        PROVE  ShowsPatch(modelServiceToResponse(ms'.spec), req[r].body, f)
    <3>1. /\ IsPatch(req[r].body) /\ Nameable(req[r].body, ms.spec)
          /\ req[r].want = applyPatchRequest(ms.spec, req[r].body)
          /\ ValidateCreateModelService(
                 modelServiceToUpdateRequest(req[r].want))
      BY <2>1, <2>3, <2>6, InputConstants, ZenonT(30) DEF SentInv
    <3> QED
      BY <2>1, <2>2, <2>6, <3>1, PatchShown, Zenon
  <2> QED
    BY <2>4, <2>5, <2>6
<1>2. \A s : LET shown == modelServiceToResponse(s)
                 item == modelServiceToSummary(s)
             IN  /\ item = [backend |-> shown.backend, image |-> shown.image,
                            replicas |-> shown.replicas,
                            hostname |-> shown.exposure.hostname]
                 /\ modelServiceToStatusResponse(s) =
                      [desiredReplicas |-> item.replicas,
                       endpoint |-> item.hostname]
  BY DEF modelServiceToResponse, modelServiceToSummary,
         modelServiceToStatusResponse
<1>3. Inv /\ [Next]_vars =>
        [\A r \in Requests :
           (/\ req[r].method # "DELETE"
            /\ req[r].call = "sent" /\ req'[r].call = "ok") =>
              ShowsRequest(r)]_vars
  BY <1>1, <1>2, Zenon DEF ShowsRequest
<1> QED
  BY <1>3, Invariance, PTL DEF Spec, ReadsShowWrites

\* Defaulting leaves a field that a PATCH does not name as it was stored.
LEMMA UnnamedFieldKept ==
    ASSUME NEW old \in SpecType, Store(old) = old, NEW p, IsPatch(p),
           NEW f \in DOMAIN old, f \notin DOMAIN p
    PROVE  Store(applyPatchRequest(old, p))[f] = old[f]
<1> DEFINE s == applyPatchRequest(old, p)
<1>1. s \in SpecType
  BY PatchType
<1>2. f \in {"backend", "image", "replicas", "port", "predictor", "exposure",
            "storage", "security", "rollout", "podDisruptionBudget",
            "networkPolicy"}
  BY DEF SpecType
<1>3. CASE f \in {"security", "rollout", "podDisruptionBudget",
                  "networkPolicy"}
  <2>1. /\ s.security = old.security /\ s.rollout = old.rollout
        /\ s.podDisruptionBudget = old.podDisruptionBudget
        /\ s.networkPolicy = old.networkPolicy
    BY DEF applyPatchRequest, SpecType
  <2> HIDE DEF s
  <2>2. ASSUME NEW t \in SpecType
        PROVE  /\ Store(t).security = StoreSecurity(t.security)
               /\ Store(t).rollout = StoreRollout(t.rollout)
               /\ Store(t).podDisruptionBudget =
                    StoreBudget(t.podDisruptionBudget)
               /\ Store(t).networkPolicy = StorePolicy(t.networkPolicy)
    BY DEF Store, SpecType
  <2> QED
    BY <1>1, <1>3, <2>1, <2>2 DEF s
<1>4. CASE f \in {"exposure", "storage"}
  <2>1. /\ f = "exposure" => s.exposure = old.exposure
        /\ f = "storage" => s.storage = old.storage
    BY DEF applyPatchRequest, SpecType
  <2> HIDE DEF s
  <2> QED
    BY <1>1, <1>4, <2>1, StoreFields DEF s
<1>5. CASE f \in {"backend", "image", "replicas", "port", "predictor"}
  <2>1. /\ s.backend = Patched(old, p, "backend")
        /\ s.predictor = Patched(old, p, "predictor")
        /\ s.image = Patched(old, p, "image")
        /\ s.replicas = Patched(old, p, "replicas")
        /\ s.port = Patched(old, p, "port")
    BY PatchFields
  <2> HIDE DEF s
  <2>2. s[f] = old[f]
    BY <1>5, <2>1 DEF Patched
  <2> QED
    BY <1>1, <1>5, <2>2, StoreFields DEF s
<1> QED
  BY <1>2, <1>3, <1>4, <1>5

\* Whatever is stored and whatever a PATCH names, an applied PATCH leaves the
\* other fields alone, as long as encoding and defaulting keep what is stored.
THEOREM PatchLeavesTheRest == Spec => PatchKeepsOtherFields
<1>1. ASSUME Inv, Next, NEW r \in Requests, Commits(r),
             req[r].method = "PATCH", Store(ms.spec) = ms.spec,
             NEW f \in DOMAIN ms.spec \ DOMAIN req[r].body
      PROVE  ms'.spec[f] = ms.spec[f]
  <2>1. SentInv(req[r]) /\ ms.spec \in SpecType
    BY <1>1 DEF Inv, StageInv, TypeOK, ObjectType, Commits
  <2>2. ms'.spec = Store(req[r].want)
    BY <1>1, AppliedSpec DEF Commits
  <2>3. ms = req[r].snap
    BY <1>1, CommitFindsSnapshot, Zenon
  <2>4. /\ IsPatch(req[r].body)
        /\ req[r].want = applyPatchRequest(ms.spec, req[r].body)
    BY <1>1, <2>1, <2>3, InputConstants DEF SentInv
  <2> QED
    BY <1>1, <2>1, <2>2, <2>4, UnnamedFieldKept, SMTT(30)
<1>2. Inv /\ [Next]_vars =>
        [\A r \in Requests :
           Commits(r) /\ req[r].method = "PATCH" /\ Store(ms.spec) = ms.spec =>
              \A f \in DOMAIN ms.spec \ DOMAIN req[r].body :
                 ms'.spec[f] = ms.spec[f]]_vars
  BY <1>1, Zenon
<1> QED
  BY <1>2, Invariance, PTL DEF Spec, PatchKeepsOtherFields

(***************************************************************************)
(* Sending a request again                                                 *)
(***************************************************************************)

\* Two specs with the same fields are one.
LEMMA SameSpec ==
    ASSUME NEW s \in SpecType, NEW t \in SpecType,
           s.backend = t.backend, s.image = t.image,
           s.replicas = t.replicas, s.port = t.port,
           s.predictor = t.predictor, s.exposure = t.exposure,
           s.storage = t.storage, s.security = t.security,
           s.rollout = t.rollout,
           s.podDisruptionBudget = t.podDisruptionBudget,
           s.networkPolicy = t.networkPolicy
    PROVE  s = t
  BY DEF SpecType

\* What defaulting makes of the blocks that neither PUT nor PATCH touches.
LEMMA StoreOtherFields ==
    ASSUME NEW s \in SpecType
    PROVE  /\ Store(s).security = StoreSecurity(s.security)
           /\ Store(s).rollout = StoreRollout(s.rollout)
           /\ Store(s).podDisruptionBudget = StoreBudget(s.podDisruptionBudget)
           /\ Store(s).networkPolicy = StorePolicy(s.networkPolicy)
  BY DEF Store, SpecType

\* A block that has been filled with its defaults has no empty field left.
LEMMA BlocksFilledOnce ==
    /\ \A e \in ExposureType :
         StoreExposure(StoreExposure(e)) = StoreExposure(e)
    /\ \A s \in StorageType : StoreStorage(StoreStorage(s)) = StoreStorage(s)
    /\ \A s \in SecurityType :
         StoreSecurity(StoreSecurity(s)) = StoreSecurity(s)
    /\ \A b \in BudgetType : StoreBudget(StoreBudget(b)) = StoreBudget(b)
    /\ \A p \in PolicyType : StorePolicy(StorePolicy(p)) = StorePolicy(p)
<1>1. "/" # Empty /\ "http" # Empty /\ "1Gi" # Empty /\ "/models" # Empty
      /\ "1" # Empty
  BY DEF Empty
<1>2. ASSUME NEW e \in ExposureType
      PROVE  StoreExposure(StoreExposure(e)) = StoreExposure(e)
  BY <1>1, <1>2, Zenon DEF StoreExposure, OmitEmpty, ExposureType
<1>3. ASSUME NEW s \in StorageType
      PROVE  StoreStorage(StoreStorage(s)) = StoreStorage(s)
  BY <1>1, <1>3, Zenon DEF StoreStorage, OmitEmpty, StorageType
<1>4. ASSUME NEW s \in SecurityType
      PROVE  StoreSecurity(StoreSecurity(s)) = StoreSecurity(s)
  BY <1>4, Zenon DEF StoreSecurity, OmitEmpty, SecurityType
<1>5. ASSUME NEW b \in BudgetType
      PROVE  StoreBudget(StoreBudget(b)) = StoreBudget(b)
  BY <1>1, <1>5, Zenon DEF StoreBudget, OmitEmpty, BudgetType
<1>6. ASSUME NEW p \in PolicyType
      PROVE  StorePolicy(StorePolicy(p)) = StorePolicy(p)
  BY <1>6, Zenon DEF StorePolicy, OmitEmpty, PolicyType
<1> QED
  BY <1>2, <1>3, <1>4, <1>5, <1>6

\* The same for the rollout block.
LEMMA RolloutFilledOnce ==
    ASSUME NEW r \in RolloutType
    PROVE  StoreRollout(StoreRollout(r)) = StoreRollout(r)
  BY ZenonT(30) DEF StoreRollout, OmitEmpty, RolloutType

\* A spec that in each field is either what was sent or what was stored of it
\* is stored as it was; of the two blocks a PATCH rewrites, more may differ.
LEMMA StoredAgain ==
    ASSUME NEW v \in SpecType, NEW w \in SpecType,
           \A f \in {"backend", "image", "replicas", "port", "predictor"} :
               w[f] = v[f] \/ w[f] = Store(v)[f],
           StoreExposure(w.exposure) = StoreExposure(v.exposure),
           StoreStorage(w.storage) = StoreStorage(v.storage),
           w.security \in {v.security, Store(v).security},
           w.rollout \in {v.rollout, Store(v).rollout},
           w.podDisruptionBudget \in
               {v.podDisruptionBudget, Store(v).podDisruptionBudget},
           w.networkPolicy \in {v.networkPolicy, Store(v).networkPolicy}
    PROVE  Store(w) = Store(v)
<1>1. Store(v) \in SpecType /\ Store(w) \in SpecType
  BY ZenonT(30), StoreType
<1>2. /\ Store(w).exposure = Store(v).exposure
      /\ Store(w).storage = Store(v).storage
  BY StoreFields
<1>3. "Deployment" # Empty
  BY DEF Empty
<1>4. /\ w.backend = v.backend \/ w.backend = Store(v).backend
      /\ w.image = v.image \/ w.image = Store(v).image
      /\ w.replicas = v.replicas \/ w.replicas = Store(v).replicas
      /\ w.port = v.port \/ w.port = Store(v).port
      /\ w.predictor = v.predictor \/ w.predictor = Store(v).predictor
  OBVIOUS
<1>5. Store(w).backend = Store(v).backend
  BY <1>3, <1>4, StoreFields, SMTT(30) DEF OmitEmpty
<1>6. /\ Store(w).image = Store(v).image
      /\ Store(w).predictor = Store(v).predictor
  BY <1>4, StoreFields, SMTT(30)
<1>7. /\ Store(w).replicas = Store(v).replicas
      /\ Store(w).port = Store(v).port
  BY <1>4, StoreFields DEF OmitEmpty
<1>8. /\ v.security \in SecurityType /\ v.rollout \in RolloutType
      /\ v.podDisruptionBudget \in BudgetType
      /\ v.networkPolicy \in PolicyType
  BY ZenonT(30) DEF SpecType
<1>9. /\ Store(w).security = Store(v).security
      /\ Store(w).rollout = Store(v).rollout
      /\ Store(w).podDisruptionBudget = Store(v).podDisruptionBudget
      /\ Store(w).networkPolicy = Store(v).networkPolicy
  BY <1>8, StoreOtherFields, BlocksFilledOnce, RolloutFilledOnce, SMTT(30)
<1> QED
  BY Zenon, <1>1, <1>2, <1>5, <1>6, <1>7, <1>9, SameSpec

\* The blocks of a spec that the handlers hand through.
LEMMA OtherFieldsKept ==
    ASSUME NEW s \in SpecType, NEW t,
           \/ \E b : t = applyUpdateRequest(s, b)
           \/ \E p : t = applyPatchRequest(s, p)
    PROVE  /\ t.security = s.security /\ t.rollout = s.rollout
           /\ t.podDisruptionBudget = s.podDisruptionBudget
           /\ t.networkPolicy = s.networkPolicy
  BY Zenon DEF applyUpdateRequest, applyPatchRequest, SpecType

\* A PUT on what it has stored itself stores it again.
LEMMA UpdateAgain ==
    ASSUME NEW old \in SpecType, NEW b \in BodyType, KeepsBackend(b, old),
           ValidateCreateModelService(Completed(b, old)),
           NEW s, s = Store(applyUpdateRequest(old, Completed(b, old)))
    PROVE  /\ KeepsBackend(b, s)
           /\ ValidateCreateModelService(Completed(b, s))
           /\ Store(applyUpdateRequest(s, Completed(b, s))) = s
<1> DEFINE c == Completed(b, old)
           v == applyUpdateRequest(old, c)
           w == applyUpdateRequest(s, c)
<1>1. c \in BodyType /\ v \in SpecType /\ s \in SpecType
  BY UpdateType, StoreType
<1>2. w \in SpecType
  BY <1>1, UpdateType
<1>3. BackendOf(s.backend) = BackendOf(old.backend)
  <2>1. c.backend = BackendOf(old.backend) /\ BackendOf(old.backend) # Empty
    BY DEF KeepsBackend, BackendOf, Empty
  <2>2. v.backend = c.backend
    BY <1>1, UpdateFields
  <2>3. s.backend = BackendOf(old.backend)
    BY <1>1, <2>1, <2>2, StoreFields DEF OmitEmpty
  <2> QED
    BY <2>1, <2>3 DEF BackendOf
<1>4. Completed(b, s) = c
  BY <1>3 DEF Completed
<1>5. KeepsBackend(b, s)
  BY <1>3, <1>4 DEF KeepsBackend
<1> HIDE DEF c
<1>6. /\ w.backend = v.backend /\ w.image = v.image
      /\ w.replicas = v.replicas /\ w.port = v.port
      /\ w.predictor = v.predictor
      /\ w.exposure = v.exposure /\ w.storage = v.storage
  BY <1>1, UpdateFields
<1>7. /\ w.security = s.security /\ w.rollout = s.rollout
      /\ w.podDisruptionBudget = s.podDisruptionBudget
      /\ w.networkPolicy = s.networkPolicy
  BY <1>1, OtherFieldsKept
<1>8. s = Store(v)
  BY DEF c
<1> HIDE DEF v, w
<1>9. Store(w) = Store(v)
  BY <1>1, <1>2, <1>6, <1>7, <1>8, StoredAgain
<1> QED
  BY <1>4, <1>5, <1>8, <1>9 DEF w, c

\* A patched exposure, filled with its defaults and patched again.
LEMMA ExposurePatchedAgain ==
    ASSUME NEW old \in ExposureType, NEW p,
           Partial(p, [enabled |-> BOOLEAN, hostname |-> Text,
                       pathPrefix |-> Text]),
           NEW v \in ExposureType, v = applyExposurePatch(old, p),
           NEW w \in ExposureType, w = applyExposurePatch(StoreExposure(v), p)
    PROVE  /\ StoreExposure(w) = StoreExposure(v)
           /\ w.enabled = v.enabled /\ w.hostname = v.hostname
           /\ w.pathPrefix \in {v.pathPrefix, "/"}
<1> DEFINE x == StoreExposure(v)
<1>1. "/" # Empty /\ DefaultGatewaySectionName # Empty
  BY SpecConstants, RequestConstants, ZenonT(30)
<1>2. /\ v.present /\ v.enabled = Patched(old, p, "enabled")
      /\ v.hostname = Patched(old, p, "hostname")
      /\ v.pathPrefix = IF v.enabled /\ Patched(old, p, "pathPrefix") = Empty
                        THEN "/" ELSE Patched(old, p, "pathPrefix")
      /\ v.gatewaySectionName # Empty
  BY <1>1 DEF applyExposurePatch
<1>3. /\ x.present /\ x.enabled = v.enabled /\ x.hostname = v.hostname
      /\ x.pathPrefix = OmitEmpty(v.pathPrefix, Empty, "/")
      /\ x.gatewaySectionName = v.gatewaySectionName
  BY <1>2, Zenon DEF StoreExposure, ExposureType, OmitEmpty
<1> HIDE DEF x
<1>4. /\ w.present /\ w.enabled = Patched(x, p, "enabled")
      /\ w.hostname = Patched(x, p, "hostname")
      /\ w.pathPrefix = IF w.enabled /\ Patched(x, p, "pathPrefix") = Empty
                        THEN "/" ELSE Patched(x, p, "pathPrefix")
      /\ w.gatewaySectionName = x.gatewaySectionName
  BY <1>2, <1>3, ZenonT(30) DEF applyExposurePatch, x
<1>5. w.enabled = v.enabled /\ w.hostname = v.hostname
  BY <1>2, <1>3, <1>4 DEF Patched
<1>6. /\ w.pathPrefix \in {v.pathPrefix, "/"}
      /\ OmitEmpty(w.pathPrefix, Empty, "/") = OmitEmpty(v.pathPrefix, Empty, "/")
  <2>1. CASE "pathPrefix" \in DOMAIN p
    BY <1>2, <1>4, <1>5, <2>1, ZenonT(30) DEF Patched
  <2>2. CASE "pathPrefix" \notin DOMAIN p
    BY <1>1, <1>3, <1>4, <2>2 DEF Patched, OmitEmpty
  <2> QED
    BY <2>1, <2>2, Zenon
<1>7. StoreExposure(w) = StoreExposure(v)
  <2>1. ASSUME NEW e \in ExposureType, e.present
        PROVE  StoreExposure(e) =
                 [present |-> TRUE, enabled |-> e.enabled,
                  hostname |-> e.hostname,
                  pathPrefix |-> OmitEmpty(e.pathPrefix, Empty, "/"),
                  gatewaySectionName |->
                      OmitEmpty(e.gatewaySectionName, Empty, "http")]
    BY <2>1, Zenon DEF StoreExposure, ExposureType
  <2>2. w.gatewaySectionName = v.gatewaySectionName
    BY <1>3, <1>4
  <2> QED
    BY <1>2, <1>4, <1>5, <1>6, <2>1, <2>2, ZenonT(60)
<1> QED
  BY <1>5, <1>6, <1>7

\* A patched storage block, filled with its defaults and patched again.
LEMMA StoragePatchedAgain ==
    ASSUME NEW old \in StorageType, NEW p,
           Partial(p, [enabled |-> BOOLEAN, size |-> Text, mountPath |-> Text]),
           NEW v \in StorageType, v = applyStoragePatch(old, p),
           NEW w \in StorageType, w = applyStoragePatch(StoreStorage(v), p)
    PROVE  /\ StoreStorage(w) = StoreStorage(v)
           /\ w.enabled = v.enabled
           /\ w.size \in {v.size, "1Gi"} /\ w.mountPath \in {v.mountPath, "/models"}
           /\ v.size # Empty => w.size = v.size
           /\ v.mountPath # Empty => w.mountPath = v.mountPath
<1> DEFINE x == StoreStorage(v)
<1>1. "1Gi" # Empty /\ "/models" # Empty
  BY DEF Empty
<1>2. /\ v.present /\ v.enabled = Patched(old, p, "enabled")
      /\ v.size = Patched(old, p, "size")
      /\ v.mountPath = Patched(old, p, "mountPath")
  BY DEF applyStoragePatch
<1>3. /\ x.present /\ x.enabled = v.enabled
      /\ x.size = OmitEmpty(v.size, Empty, "1Gi")
      /\ x.mountPath = OmitEmpty(v.mountPath, Empty, "/models")
  BY <1>2 DEF StoreStorage, StorageType
<1> HIDE DEF x
<1>4. /\ w.present /\ w.enabled = Patched(x, p, "enabled")
      /\ w.size = Patched(x, p, "size")
      /\ w.mountPath = Patched(x, p, "mountPath")
  BY Zenon DEF applyStoragePatch, x
<1>5. w.enabled = v.enabled
  BY <1>2, <1>3, <1>4, Zenon DEF Patched
<1>6. /\ w.size \in {v.size, "1Gi"} /\ (v.size # Empty => w.size = v.size)
      /\ OmitEmpty(w.size, Empty, "1Gi") = OmitEmpty(v.size, Empty, "1Gi")
  BY <1>1, <1>2, <1>3, <1>4, ZenonT(30) DEF Patched, OmitEmpty
<1>7. /\ w.mountPath \in {v.mountPath, "/models"}
      /\ v.mountPath # Empty => w.mountPath = v.mountPath
      /\ OmitEmpty(w.mountPath, Empty, "/models")
           = OmitEmpty(v.mountPath, Empty, "/models")
  BY <1>1, <1>2, <1>3, <1>4 DEF Patched, OmitEmpty
<1>8. StoreStorage(w) = StoreStorage(v)
  <2>1. ASSUME NEW s \in StorageType, s.present
        PROVE  StoreStorage(s) =
                 [present |-> TRUE, enabled |-> s.enabled,
                  size |-> OmitEmpty(s.size, Empty, "1Gi"),
                  mountPath |-> OmitEmpty(s.mountPath, Empty, "/models")]
    BY <2>1, ZenonT(30) DEF StoreStorage, StorageType
  <2> QED
    BY <1>2, <1>4, <1>5, <1>6, <1>7, <2>1, ZenonT(60)
<1> QED
  BY <1>5, <1>6, <1>7, <1>8

\* What a PATCH leaves of the two blocks, and what defaulting adds, is the
\* same the second time.
LEMMA BlocksPatchedAgain ==
    ASSUME NEW old \in SpecType, NEW p, IsPatch(p),
           NEW v, v = applyPatchRequest(old, p),
           NEW w, w = applyPatchRequest(Store(v), p)
    PROVE  /\ StoreExposure(w.exposure) = StoreExposure(v.exposure)
           /\ StoreStorage(w.storage) = StoreStorage(v.storage)
           /\ w.exposure.enabled = v.exposure.enabled
           /\ w.exposure.hostname = v.exposure.hostname
           /\ w.exposure.pathPrefix \in {v.exposure.pathPrefix, "/"}
           /\ w.storage.enabled = v.storage.enabled
           /\ v.storage.size # Empty => w.storage.size = v.storage.size
           /\ v.storage.mountPath # Empty =>
                w.storage.mountPath = v.storage.mountPath
<1>1. v \in SpecType /\ Store(v) \in SpecType /\ w \in SpecType
  BY PatchType, StoreType
<1>2. /\ old.exposure \in ExposureType /\ old.storage \in StorageType
      /\ v.exposure \in ExposureType /\ v.storage \in StorageType
      /\ w.exposure \in ExposureType /\ w.storage \in StorageType
  BY <1>1 DEF SpecType
<1>3. /\ Store(v).exposure = StoreExposure(v.exposure)
      /\ Store(v).storage = StoreStorage(v.storage)
  BY <1>1, StoreFields, SMTT(30)
<1>4. /\ StoreExposure(w.exposure) = StoreExposure(v.exposure)
      /\ w.exposure.enabled = v.exposure.enabled
      /\ w.exposure.hostname = v.exposure.hostname
      /\ w.exposure.pathPrefix \in {v.exposure.pathPrefix, "/"}
  <2>1. CASE "exposure" \in DOMAIN p
    <3>1. /\ v.exposure = applyExposurePatch(old.exposure, p.exposure)
          /\ w.exposure = applyExposurePatch(StoreExposure(v.exposure),
                                             p.exposure)
      BY <1>1, <1>3, <2>1, PatchFields, SMTT(30)
    <3>2. Partial(p.exposure, [enabled |-> BOOLEAN, hostname |-> Text,
                               pathPrefix |-> Text])
      BY <2>1, Zenon DEF IsPatch
    <3> QED
      BY <1>2, <3>1, <3>2, ExposurePatchedAgain, SMTT(30)
  <2>2. CASE "exposure" \notin DOMAIN p
    <3>1. w.exposure = StoreExposure(v.exposure)
      BY <1>1, <1>3, <2>2, SMTT(30) DEF applyPatchRequest, SpecType
    <3>2. StoreExposure(w.exposure) = StoreExposure(v.exposure)
      BY <1>2, <3>1, BlocksFilledOnce
    <3>3. LET x == StoreExposure(v.exposure)
          IN  /\ x.enabled = v.exposure.enabled
              /\ x.hostname = v.exposure.hostname
              /\ x.pathPrefix \in {v.exposure.pathPrefix, "/"}
      BY <1>2, Zenon DEF StoreExposure, ExposureType, OmitEmpty
    <3> QED
      BY <3>1, <3>2, <3>3, ZenonT(30)
  <2> QED
    BY <2>1, <2>2, Zenon
<1>5. /\ StoreStorage(w.storage) = StoreStorage(v.storage)
      /\ w.storage.enabled = v.storage.enabled
      /\ v.storage.size # Empty => w.storage.size = v.storage.size
      /\ v.storage.mountPath # Empty =>
           w.storage.mountPath = v.storage.mountPath
  <2>1. CASE "storage" \in DOMAIN p
    <3>1. /\ v.storage = applyStoragePatch(old.storage, p.storage)
          /\ w.storage = applyStoragePatch(StoreStorage(v.storage), p.storage)
      BY <1>1, <1>3, <2>1, PatchFields, SMTT(30)
    <3>2. Partial(p.storage, [enabled |-> BOOLEAN, size |-> Text,
                              mountPath |-> Text])
      BY <2>1, Zenon DEF IsPatch
    <3> QED
      BY <1>2, <3>1, <3>2, StoragePatchedAgain, SMTT(30)
  <2>2. CASE "storage" \notin DOMAIN p
    <3>1. w.storage = StoreStorage(v.storage)
      BY <1>1, <1>3, <2>2, SMTT(30) DEF applyPatchRequest, SpecType
    <3>2. StoreStorage(w.storage) = StoreStorage(v.storage)
      BY <1>2, <3>1, BlocksFilledOnce
    <3>3. LET x == StoreStorage(v.storage)
          IN  /\ x.enabled = v.storage.enabled
              /\ v.storage.size # Empty => x.size = v.storage.size
              /\ v.storage.mountPath # Empty =>
                   x.mountPath = v.storage.mountPath
      BY <1>2 DEF StoreStorage, StorageType, OmitEmpty
    <3> QED
      BY <3>1, <3>2, <3>3, Zenon
  <2> QED
    BY <2>1, <2>2, Zenon
<1> QED
  BY ZenonT(30), <1>4, <1>5

\* The fields a PATCH replaces as they are.
LEMMA ScalarsPatchedAgain ==
    ASSUME NEW old, NEW p, NEW v, NEW s, NEW w,
           v.replicas = Patched(old, p, "replicas"),
           v.port = Patched(old, p, "port"),
           v.image = Patched(old, p, "image"),
           v.predictor = Patched(old, p, "predictor"),
           w.replicas = Patched(s, p, "replicas"),
           w.port = Patched(s, p, "port"),
           w.image = Patched(s, p, "image"),
           w.predictor = Patched(s, p, "predictor"),
           s.replicas = OmitEmpty(v.replicas, 0, 1),
           s.port = OmitEmpty(v.port, 0, 8080),
           s.image = v.image, s.predictor = v.predictor
    PROVE  /\ v.replicas # 0 => w.replicas = v.replicas
           /\ v.port # 0 => w.port = v.port
           /\ w.image = v.image /\ w.predictor = v.predictor
  BY DEF Patched, OmitEmpty

\* A PATCH on what it has stored itself is accepted and stores it again.
LEMMA PatchAgain ==
    ASSUME NEW old \in SpecType, NEW p, IsPatch(p), Nameable(p, old),
           NEW v, v = applyPatchRequest(old, p),
           ValidateCreateModelService(modelServiceToUpdateRequest(v)),
           NEW s, s = Store(v),
           NEW w, w = applyPatchRequest(s, p)
    PROVE  /\ Nameable(p, s)
           /\ ValidateCreateModelService(modelServiceToUpdateRequest(w))
           /\ Store(w) = s
<1>1. v \in SpecType /\ s \in SpecType /\ w \in SpecType
  BY PatchType, StoreType, Zenon
<1>2. /\ v.backend = Patched(old, p, "backend")
      /\ v.replicas = Patched(old, p, "replicas")
      /\ v.port = Patched(old, p, "port")
      /\ v.image = Patched(old, p, "image")
      /\ v.predictor = Patched(old, p, "predictor")
      /\ w.backend = Patched(s, p, "backend")
      /\ w.replicas = Patched(s, p, "replicas")
      /\ w.port = Patched(s, p, "port")
      /\ w.image = Patched(s, p, "image")
      /\ w.predictor = Patched(s, p, "predictor")
  BY <1>1, PatchFields, SMTT(30)
<1>3. /\ s.backend = OmitEmpty(v.backend, Empty, "Deployment")
      /\ s.replicas = OmitEmpty(v.replicas, 0, 1)
      /\ s.port = OmitEmpty(v.port, 0, 8080)
      /\ s.image = v.image /\ s.predictor = v.predictor
  BY <1>1, StoreFields, SMTT(30)
<1>4. /\ BackendOf(v.backend) = BackendOf(old.backend)
      /\ BackendOf(s.backend) = BackendOf(v.backend)
      /\ BackendOf(w.backend) = BackendOf(v.backend)
  <2>1. /\ BackendOf(old.backend) # Empty
        /\ BackendOf(BackendOf(old.backend)) = BackendOf(old.backend)
        /\ "Deployment" # Empty
    BY Zenon DEF BackendOf, Empty
  <2>2. BackendOf(v.backend) = BackendOf(old.backend)
    BY <1>2, <2>1, SMTT(30) DEF Nameable, Patched
  <2>3. BackendOf(s.backend) = BackendOf(v.backend)
    BY <1>3, <2>1, SMTT(30) DEF BackendOf, OmitEmpty
  <2>4. BackendOf(w.backend) = BackendOf(v.backend)
    BY <1>2, <2>1, <2>2, <2>3, ZenonT(30) DEF Nameable, Patched
  <2> QED
    BY <2>2, <2>3, <2>4
<1>5. Nameable(p, s)
  BY <1>4, ZenonT(30) DEF Nameable
<1>6. /\ v.replicas # 0 => w.replicas = v.replicas
      /\ v.port # 0 => w.port = v.port
      /\ w.image = v.image /\ w.predictor = v.predictor
  BY <1>2, <1>3, ScalarsPatchedAgain
<1>7. /\ StoreExposure(w.exposure) = StoreExposure(v.exposure)
      /\ StoreStorage(w.storage) = StoreStorage(v.storage)
      /\ w.exposure.enabled = v.exposure.enabled
      /\ w.exposure.hostname = v.exposure.hostname
      /\ w.exposure.pathPrefix \in {v.exposure.pathPrefix, "/"}
      /\ w.storage.enabled = v.storage.enabled
      /\ v.storage.size # Empty => w.storage.size = v.storage.size
      /\ v.storage.mountPath # Empty =>
           w.storage.mountPath = v.storage.mountPath
  <2>1. w = applyPatchRequest(Store(v), p)
    BY Zenon
  <2> QED
    BY <2>1, BlocksPatchedAgain
<1>8. Store(w) = s
  <2>1. \A f \in {"backend", "image", "replicas", "port", "predictor"} :
          w[f] = v[f] \/ w[f] = Store(v)[f]
    BY <1>2 DEF Patched
  <2>2. /\ w.security = s.security /\ w.rollout = s.rollout
        /\ w.podDisruptionBudget = s.podDisruptionBudget
        /\ w.networkPolicy = s.networkPolicy
    BY <1>1, OtherFieldsKept, ZenonT(30)
  <2> QED
    BY <1>1, <1>7, <2>1, <2>2, StoredAgain, ZenonT(30)
<1>9. ValidateCreateModelService(modelServiceToUpdateRequest(w))
  <2> DEFINE x == modelServiceToUpdateRequest(v)
             y == modelServiceToUpdateRequest(w)
  <2>1. /\ x.backend = BackendOf(v.backend) /\ y.backend = BackendOf(w.backend)
        /\ x.image = v.image /\ y.image = w.image
        /\ x.replicas = v.replicas /\ y.replicas = w.replicas
        /\ x.predictor = v.predictor /\ y.predictor = w.predictor
        /\ x.port = IF BackendOf(v.backend) = "KServe" THEN 0 ELSE v.port
        /\ y.port = IF BackendOf(w.backend) = "KServe" THEN 0 ELSE w.port
    BY Zenon DEF modelServiceToUpdateRequest
  <2>2. /\ x.exposure = [enabled |-> v.exposure.enabled,
                         hostname |-> v.exposure.hostname,
                         pathPrefix |-> v.exposure.pathPrefix]
        /\ y.exposure = [enabled |-> w.exposure.enabled,
                         hostname |-> w.exposure.hostname,
                         pathPrefix |-> w.exposure.pathPrefix]
        /\ x.storage = [enabled |-> v.storage.enabled, size |-> v.storage.size,
                        mountPath |-> v.storage.mountPath]
        /\ y.storage = [enabled |-> w.storage.enabled, size |-> w.storage.size,
                        mountPath |-> w.storage.mountPath]
    BY Zenon DEF modelServiceToUpdateRequest
  <2> HIDE DEF x, y
  <2>3. /\ ValidateCreateModelService(x)
        /\ x.replicas # 0
        /\ validateExposure(x.exposure) /\ validateStorage(x.storage)
        /\ \/ BackendOf(x.backend) = "Deployment" /\ x.port # 0
           \/ BackendOf(x.backend) = "KServe"
    BY Accepted, Zenon DEF x
  <2>4. y.backend = x.backend /\ y.image = x.image /\ y.predictor = x.predictor
    BY <1>4, <1>6, <2>1, Zenon
  <2>5. y.replicas = x.replicas
    BY <1>6, <2>1, <2>3, Zenon
  <2>6. y.port = x.port
    <3>1. BackendOf(x.backend) = BackendOf(v.backend)
      BY <2>1, Zenon DEF BackendOf, Empty
    <3>2. BackendOf(v.backend) # "KServe" => v.port # 0
      BY <2>1, <2>3, <3>1, Zenon
    <3> QED
      BY <1>4, <1>6, <2>1, <3>2, Zenon
  <2>7. y.exposure.enabled = x.exposure.enabled /\ validateExposure(y.exposure)
    <3>1. "/" \in AbsolutePaths
      BY SpecConstants, ZenonT(60)
    <3>2. /\ y.exposure.enabled = x.exposure.enabled
          /\ y.exposure.hostname = x.exposure.hostname
          /\ y.exposure.pathPrefix \in {x.exposure.pathPrefix, "/"}
      BY <1>7, <2>2
    <3> QED
      BY <2>3, <3>1, <3>2, Zenon DEF validateExposure
  <2>8. y.storage.enabled = x.storage.enabled /\ validateStorage(y.storage)
    <3>1. Empty \notin Quantities /\ Empty \notin AbsolutePaths
      BY SpecConstants, RequestConstants
    <3>2. /\ y.storage.enabled = x.storage.enabled
          /\ x.storage.size # Empty => y.storage.size = x.storage.size
          /\ x.storage.mountPath # Empty =>
               y.storage.mountPath = x.storage.mountPath
      BY <1>7, <2>2
    <3> QED
      BY <2>3, <3>1, <3>2, Zenon DEF validateStorage
  <2>9. ValidateCreateModelService(y)
    BY <2>3, <2>4, <2>5, <2>6, <2>7, <2>8, Zenon
    DEF ValidateCreateModelService, validateDeploymentRequest,
        validateKServeRequest
  <2> QED
    BY <2>9, Zenon DEF y
<1> QED
  BY <1>5, <1>8, <1>9

\* Whatever bodies clients send, a PUT or PATCH that has been applied can be
\* sent again without harm.
THEOREM RetriesHarmless == Spec => RetriesAreHarmless
<1>1. ASSUME Inv, Next, NEW r \in Requests, Commits(r),
             req[r].method # "DELETE"
      PROVE  RepeatChangesNothing(r, ms'.spec)
  <2>1. SentInv(req[r]) /\ ms.spec \in SpecType
    BY <1>1, Zenon DEF Inv, StageInv, TypeOK, ObjectType, Commits
  <2>2. ms'.spec = Store(req[r].want)
    BY <1>1, AppliedSpec, Zenon DEF Commits
  <2>3. ms = req[r].snap
    BY <1>1, CommitFindsSnapshot, Zenon
  <2>4. req[r].method \in {"PUT", "PATCH"}
    <3>1. StageInv(req[r]) /\ req[r].call = "sent" /\ req[r].method # "POST"
      BY <1>1, ZenonT(30) DEF Inv, Commits
    <3>2. req[r].method # "none"
      BY <3>1 DEF StageInv
    <3>3. req[r] \in RequestType
      BY <1>1 DEF Inv, TypeOK
    <3> QED
      BY <1>1, <3>1, <3>2, <3>3, ZenonT(30) DEF RequestType
  <2>5. CASE req[r].method = "PUT"
    <3> DEFINE b == req[r].body
               old == ms.spec
               s == ms'.spec
    <3>1. /\ b \in BodyType /\ KeepsBackend(b, old)
          /\ ValidateCreateModelService(Completed(b, old))
          /\ req[r].want = applyUpdateRequest(old, Completed(b, old))
      BY <2>1, <2>3, <2>5, InputConstants, ZenonT(30) DEF SentInv
    <3>2. old \in SpecType /\ s = Store(applyUpdateRequest(old, Completed(b, old)))
      BY <2>1, <2>2, <3>1, Zenon
    <3> HIDE DEF b, old, s
    <3>3. /\ KeepsBackend(b, s)
          /\ ValidateCreateModelService(Completed(b, s))
          /\ Store(applyUpdateRequest(s, Completed(b, s))) = s
      BY <3>1, <3>2, UpdateAgain, ZenonT(30)
    <3> QED
      BY <2>5, <3>3, Zenon DEF RepeatChangesNothing, b, s
  <2>6. CASE req[r].method = "PATCH"
    <3> DEFINE b == req[r].body
               old == ms.spec
               v == req[r].want
               s == ms'.spec
               w == applyPatchRequest(s, b)
    <3>1. /\ IsPatch(b) /\ Nameable(b, old)
          /\ v = applyPatchRequest(old, b)
          /\ ValidateCreateModelService(modelServiceToUpdateRequest(v))
      BY <2>1, <2>3, <2>6, InputConstants, Zenon DEF SentInv
    <3>2. old \in SpecType /\ s = Store(v) /\ w = applyPatchRequest(s, b)
      BY <2>1, <2>2, Zenon
    <3> HIDE DEF b, old, v, s, w
    <3>3. /\ Nameable(b, s)
          /\ ValidateCreateModelService(modelServiceToUpdateRequest(w))
          /\ Store(w) = s
      BY <3>1, <3>2, PatchAgain
    <3>4. req[r].method # "PUT"
      BY <2>6
    <3> QED
      BY <3>3, <3>4, Zenon DEF RepeatChangesNothing, b, s, w
  <2> QED
    BY <2>4, <2>5, <2>6, ZenonT(30)
<1>2. Inv /\ [Next]_vars =>
        [\A r \in Requests :
           Commits(r) /\ req[r].method # "DELETE" =>
              RepeatChangesNothing(r, ms'.spec)]_vars
  BY <1>1, Zenon
<1> QED
  BY <1>2, Invariance, PTL DEF Spec, RetriesAreHarmless

===============================================================================
