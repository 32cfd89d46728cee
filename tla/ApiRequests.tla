------------------------------ MODULE ApiRequests ------------------------------
(***************************************************************************)
(* The pure part of the REST API's mutating handlers: validation of a      *)
(* request body, and the translation of a body into the ModelService spec  *)
(* that is sent to the API server.                                         *)
(*                                                                         *)
(* A POST or PUT body is a record with every field (absent JSON fields     *)
(* decode to Go zero values; a nil predictor is "").  A PATCH body is a    *)
(* record whose domain is the set of fields present in the JSON.           *)
(***************************************************************************)
EXTENDS ModelServiceSpec

CONSTANTS
    MaxReplicas,               \* MAX_MODEL_REPLICAS
    DefaultGatewaySectionName, \* the platform's Gateway listener
    Quantities,                \* strings resource.ParseQuantity accepts
    ValidHostnames,            \* DNS-1123 subdomains that are no IP address
    Blanks                     \* strings strings.TrimSpace makes empty

ASSUME RequestConstants ==
    /\ MaxReplicas \in Nat \ {0}
    /\ DefaultGatewaySectionName \in Text \ {Empty}
    /\ CRDSizes \subseteq Quantities
    /\ Empty \notin Quantities
    /\ ValidHostnames \subseteq CRDHostnames
    /\ Empty \in Blanks /\ Blanks \subseteq Text

BodyType ==
    [backend : Text, image : Text, replicas : Int, port : Int,
     predictor : Text,
     exposure : [enabled : BOOLEAN, hostname : Text, pathPrefix : Text],
     storage  : [enabled : BOOLEAN, size : Text, mountPath : Text]]

\* A PATCH body gives some fields, and some fields of the nested objects.
Partial(field, type) ==
    \A f \in DOMAIN field : f \in DOMAIN type /\ field[f] \in type[f]

IsPatch(p) ==
    /\ DOMAIN p \subseteq {"backend", "image", "replicas", "port", "predictor",
                           "exposure", "storage"}
    /\ \A f \in DOMAIN p \cap {"backend", "image", "predictor"} :
           p[f] \in Text
    /\ \A f \in DOMAIN p \cap {"replicas", "port"} : p[f] \in Int
    /\ "exposure" \in DOMAIN p =>
           Partial(p.exposure, [enabled |-> BOOLEAN, hostname |-> Text,
                                pathPrefix |-> Text])
    /\ "storage" \in DOMAIN p =>
           Partial(p.storage, [enabled |-> BOOLEAN, size |-> Text,
                               mountPath |-> Text])

(***************************************************************************)
(* Validation                                                              *)
(***************************************************************************)

validateExposure(e) ==
    e.enabled => /\ e.hostname \in ValidHostnames
                 /\ e.pathPrefix \in AbsolutePaths \cup {Empty}

validateStorage(s) ==
    s.enabled => /\ s.size \in Quantities
                 /\ s.mountPath \in AbsolutePaths

validateReplicas(n) == n \in 1 .. MaxReplicas

\* Mutant: a predictor is not noticed in a request for a Deployment.
validateDeploymentAnyPredictor(b) ==
    /\ b.image \notin Blanks
    /\ b.port \in Ports
    /\ validateExposure(b.exposure)
    /\ validateStorage(b.storage)

validateDeploymentRequest(b) ==
    /\ b.image \notin Blanks
    /\ b.port \in Ports
    /\ b.predictor = Empty
    /\ validateExposure(b.exposure)
    /\ validateStorage(b.storage)

validateKServeRequest(b) ==
    /\ b.image \in Blanks
    /\ b.port = 0
    /\ ~b.exposure.enabled
    /\ ~b.storage.enabled
    /\ b.predictor \in ValidPredictors

\* An omitted backend means Deployment.
BackendOf(backend) == IF backend = Empty THEN "Deployment" ELSE backend

\* ValidateUpdateModelService validates the same fields, and nothing else.
ValidateCreateModelService(b) ==
    /\ validateReplicas(b.replicas)
    /\ \/ BackendOf(b.backend) = "Deployment" /\ validateDeploymentRequest(b)
       \/ BackendOf(b.backend) = "KServe" /\ validateKServeRequest(b)

(***************************************************************************)
(* POST and PUT                                                            *)
(***************************************************************************)

\* The exposure block an enabled request becomes.
RequestExposure(e) ==
    [present |-> TRUE, enabled |-> TRUE, hostname |-> e.hostname,
     pathPrefix |-> IF e.pathPrefix = Empty THEN "/" ELSE e.pathPrefix,
     gatewaySectionName |-> DefaultGatewaySectionName]

RequestStorage(s) ==
    [present |-> TRUE, enabled |-> TRUE, size |-> s.size,
     mountPath |-> s.mountPath]

createRequestToModelService(b) ==
    [NoSpec EXCEPT
        !.backend   = BackendOf(b.backend),
        !.image     = b.image,
        !.replicas  = b.replicas,
        !.port      = b.port,
        !.predictor = b.predictor,
        !.exposure  = IF b.exposure.enabled THEN RequestExposure(b.exposure)
                      ELSE NoExposure,
        !.storage   = IF b.storage.enabled THEN RequestStorage(b.storage)
                      ELSE NoStorage]

\* Mutant: a PUT leaves a block it disables as it was.
applyUpdateKeepingBlocks(spec, b) ==
    [spec EXCEPT
        !.backend   = b.backend,
        !.image     = b.image,
        !.replicas  = b.replicas,
        !.port      = b.port,
        !.predictor = b.predictor,
        !.exposure  = IF b.exposure.enabled THEN RequestExposure(b.exposure)
                      ELSE @,
        !.storage   = IF b.storage.enabled THEN RequestStorage(b.storage)
                      ELSE @]

\* A PUT that disables a block replaces it by one with enabled = false and
\* every other field empty; blocks the API does not know are kept.
applyUpdateRequest(spec, b) ==
    [spec EXCEPT
        !.backend   = b.backend,
        !.image     = b.image,
        !.replicas  = b.replicas,
        !.port      = b.port,
        !.predictor = b.predictor,
        !.exposure  = IF b.exposure.enabled THEN RequestExposure(b.exposure)
                      ELSE [NoExposure EXCEPT !.present = TRUE],
        !.storage   = IF b.storage.enabled THEN RequestStorage(b.storage)
                      ELSE [NoStorage EXCEPT !.present = TRUE]]

(***************************************************************************)
(* PATCH                                                                   *)
(***************************************************************************)

hasPatchFields(p) == DOMAIN p # {}

\* The value of field f: the patch's if it gives one, else the old one.
Patched(old, p, f) == IF f \in DOMAIN p THEN p[f] ELSE old[f]

\* Mutant: the platform's listener is given to an exposure that was enabled
\* before the patch, not to one the patch enables.
applyExposurePatchOldState(old, p) ==
    LET enabled    == Patched(old, p, "enabled")
        pathPrefix == Patched(old, p, "pathPrefix")
    IN  [present    |-> TRUE,
         enabled    |-> enabled,
         hostname   |-> Patched(old, p, "hostname"),
         pathPrefix |-> IF enabled /\ pathPrefix = Empty THEN "/" ELSE pathPrefix,
         gatewaySectionName |->
             IF old.enabled THEN DefaultGatewaySectionName
             ELSE old.gatewaySectionName]

applyExposurePatch(old, p) ==
    LET enabled    == Patched(old, p, "enabled")
        pathPrefix == Patched(old, p, "pathPrefix")
    IN  [present    |-> TRUE,
         enabled    |-> enabled,
         hostname   |-> Patched(old, p, "hostname"),
         pathPrefix |-> IF enabled /\ pathPrefix = Empty THEN "/" ELSE pathPrefix,
         gatewaySectionName |->
             IF old.gatewaySectionName = Empty THEN DefaultGatewaySectionName
             ELSE old.gatewaySectionName]

applyStoragePatch(old, p) ==
    [present   |-> TRUE,
     enabled   |-> Patched(old, p, "enabled"),
     size      |-> Patched(old, p, "size"),
     mountPath |-> Patched(old, p, "mountPath")]

\* Mutant: a patch without a storage block switches storage off, as PUT does.
applyPatchLikePut(spec, p) ==
    [spec EXCEPT
        !.image    = Patched(spec, p, "image"),
        !.replicas = Patched(spec, p, "replicas"),
        !.storage  = IF "storage" \in DOMAIN p
                     THEN applyStoragePatch(@, p.storage)
                     ELSE [NoStorage EXCEPT !.present = TRUE]]

applyPatchRequest(spec, p) ==
    [spec EXCEPT
        !.backend   = Patched(spec, p, "backend"),
        !.predictor = Patched(spec, p, "predictor"),
        !.image     = Patched(spec, p, "image"),
        !.replicas  = Patched(spec, p, "replicas"),
        !.port      = Patched(spec, p, "port"),
        !.exposure  = IF "exposure" \in DOMAIN p
                      THEN applyExposurePatch(@, p.exposure) ELSE @,
        !.storage   = IF "storage" \in DOMAIN p
                      THEN applyStoragePatch(@, p.storage) ELSE @]

\* The whole-resource request a patched candidate is validated as.
modelServiceToUpdateRequest(spec) ==
    [backend   |-> BackendOf(spec.backend),
     image     |-> spec.image,
     replicas  |-> spec.replicas,
     port      |-> IF BackendOf(spec.backend) = "KServe" THEN 0 ELSE spec.port,
     predictor |-> spec.predictor,
     exposure  |-> [enabled    |-> spec.exposure.enabled,
                    hostname   |-> spec.exposure.hostname,
                    pathPrefix |-> spec.exposure.pathPrefix],
     storage   |-> [enabled   |-> spec.storage.enabled,
                    size      |-> spec.storage.size,
                    mountPath |-> spec.storage.mountPath]]

(***************************************************************************)
(* Answers                                                                 *)
(***************************************************************************)

\* The body of a GET, POST, PUT or PATCH answer, in the fields of a request:
\* a block that is not enabled shows nothing else, and neither the gateway
\* nor, for KServe, image and port are shown.
modelServiceToResponse(spec) ==
    LET backend == BackendOf(spec.backend)
    IN  [backend   |-> backend,
         image     |-> IF backend = "Deployment" THEN spec.image ELSE Empty,
         replicas  |-> spec.replicas,
         port      |-> IF backend = "Deployment" THEN spec.port ELSE 0,
         predictor |-> spec.predictor,
         exposure  |-> [enabled |-> spec.exposure.enabled,
                        hostname |-> IF spec.exposure.enabled
                                     THEN spec.exposure.hostname ELSE Empty,
                        pathPrefix |-> IF spec.exposure.enabled
                                       THEN spec.exposure.pathPrefix ELSE Empty],
         storage   |-> [enabled |-> spec.storage.enabled,
                        size |-> IF spec.storage.enabled
                                 THEN spec.storage.size ELSE Empty,
                        mountPath |-> IF spec.storage.enabled
                                      THEN spec.storage.mountPath ELSE Empty]]

\* An item of the list.
modelServiceToSummary(spec) ==
    [backend  |-> BackendOf(spec.backend),
     replicas |-> spec.replicas,
     image    |-> IF BackendOf(spec.backend) = "Deployment" THEN spec.image
                  ELSE Empty,
     hostname |-> IF spec.exposure.enabled THEN spec.exposure.hostname
                  ELSE Empty]

\* The part of the status answer that comes from the spec; the endpoint is
\* the external one, and it is the host alone.
modelServiceToStatusResponse(spec) ==
    [desiredReplicas |-> spec.replicas,
     endpoint |-> IF spec.exposure.enabled THEN spec.exposure.hostname
                  ELSE Empty]

================================================================================
