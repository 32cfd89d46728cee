------------------------------- MODULE Rendering -------------------------------
(***************************************************************************)
(* What the operator derives from the spec of a ModelService: which child  *)
(* objects there should be and what they should contain.  Of a child, the  *)
(* fields that depend on the spec are kept; the labels, names, probes and  *)
(* volumes that are the same for every spec are left out, and so are       *)
(* health, resources and the service account token (see ModelServiceSpec). *)
(***************************************************************************)
EXTENDS ModelServiceSpec

\* An older object may have no backend.
backendForModelService(spec) ==
    IF spec.backend = Empty THEN "Deployment" ELSE spec.backend

\* Each of the following resolves one optional block to the values used.
securityForModelService(spec) ==
    IF spec.security.present THEN spec.security
    ELSE [present |-> TRUE, runAsNonRoot |-> TRUE,
          readOnlyRootFilesystem |-> TRUE]

\* A configured zero is used: only a negative value falls back to the default.
rolloutForModelService(spec) ==
    LET OrDefault(value) == IF spec.rollout.present /\ value >= 0
                            THEN value ELSE 5
    IN [preStopDelaySeconds |-> OrDefault(spec.rollout.preStopDelaySeconds),
        minReadySeconds     |-> OrDefault(spec.rollout.minReadySeconds)]

podDisruptionBudgetForModelService(spec) ==
    LET pdb == spec.podDisruptionBudget
    IN [enabled |-> pdb.present => pdb.enabled,
        maxUnavailable |-> IF pdb.present /\ pdb.maxUnavailable # Empty
                           THEN pdb.maxUnavailable ELSE "1"]

networkPolicyForModelService(spec) ==
    LET np == spec.networkPolicy
    IN [enabled |-> np.present => np.enabled,
        allowSameNamespaceIngress |-> np.present => np.allowSameNamespaceIngress,
        allowDNSEgress |-> np.present => np.allowDNSEgress]

exposureForModelService(spec) ==
    LET e == spec.exposure
        OrDefault(value, default) ==
            IF e.present /\ value # Empty THEN value ELSE default
    IN [enabled  |-> e.present /\ e.enabled,
        hostname |-> OrDefault(e.hostname, Empty),
        pathPrefix |-> OrDefault(e.pathPrefix, "/"),
        gatewaySectionName |-> OrDefault(e.gatewaySectionName, "http")]

storageEnabled(spec) == spec.storage.present /\ spec.storage.enabled

\* No peers at all means no ingress rule: every connection is denied.
networkPolicyIngressRules(spec) ==
    LET peers ==
        {p \in {"same namespace", "gateway"} :
            \/ /\ p = "same namespace"
               /\ networkPolicyForModelService(spec).allowSameNamespaceIngress
            \/ /\ p = "gateway"
               /\ exposureForModelService(spec).enabled}
    IN IF peers = {} THEN {} ELSE {[from |-> peers, port |-> spec.port]}

(***************************************************************************)
(* The children                                                            *)
(***************************************************************************)

\* The order in which Reconcile visits the children of the Deployment backend.
ReconcileOrder ==
    <<"ServiceAccount", "Deployment", "Service", "PersistentVolumeClaim",
      "PodDisruptionBudget", "NetworkPolicy", "HTTPRoute">>

AllKinds == {ReconcileOrder[i] : i \in DOMAIN ReconcileOrder}
                \cup {"InferenceService"}

\* Whether spec asks for a child of this kind; the first three always exist.
Enabled(kind, spec) ==
    CASE kind = "InferenceService" -> backendForModelService(spec) = "KServe"
      [] kind = "PersistentVolumeClaim" -> storageEnabled(spec)
      [] kind = "PodDisruptionBudget" ->
             podDisruptionBudgetForModelService(spec).enabled
      [] kind = "NetworkPolicy" -> networkPolicyForModelService(spec).enabled
      [] kind = "HTTPRoute" -> exposureForModelService(spec).enabled
      [] OTHER -> TRUE

desiredDeployment(spec) ==
    [image |-> spec.image, replicas |-> spec.replicas, port |-> spec.port,
     security |-> securityForModelService(spec),
     rollout |-> rolloutForModelService(spec),
     claim |-> storageEnabled(spec),
     mountPath |-> IF storageEnabled(spec) THEN spec.storage.mountPath
                   ELSE Empty]

desiredHTTPRoute(spec) ==
    [route |-> exposureForModelService(spec), port |-> spec.port]

desiredNetworkPolicy(spec) ==
    [ingress |-> networkPolicyIngressRules(spec),
     dnsEgress |-> networkPolicyForModelService(spec).allowDNSEgress]

\* KServe runs at least one replica; minReplicas and maxReplicas are equal.
desiredInferenceServiceSpec(spec) ==
    [predictor |-> spec.predictor,
     minReplicas |-> IF spec.replicas < 1 THEN 1 ELSE spec.replicas]

\* The content the operator gives the child of this kind.
Desired(kind, spec) ==
    CASE kind = "ServiceAccount" -> [automount |-> FALSE]
      [] kind = "Deployment" -> desiredDeployment(spec)
      [] kind = "Service" -> [port |-> spec.port]
      [] kind = "PersistentVolumeClaim" -> [size |-> spec.storage.size]
      [] kind = "PodDisruptionBudget" ->
             [maxUnavailable |->
                podDisruptionBudgetForModelService(spec).maxUnavailable]
      [] kind = "NetworkPolicy" -> desiredNetworkPolicy(spec)
      [] kind = "HTTPRoute" -> desiredHTTPRoute(spec)
      [] kind = "InferenceService" -> desiredInferenceServiceSpec(spec)

\* Errors the operator finds in the spec itself, before it writes the child.
Unrenderable(kind, spec) ==
    \/ /\ kind = "HTTPRoute"
       /\ exposureForModelService(spec).enabled
       /\ exposureForModelService(spec).hostname = Empty
    \/ /\ kind = "InferenceService"
       /\ spec.predictor = Empty

================================================================================
