--------------------------- MODULE ModelServiceSpec ---------------------------
(***************************************************************************)
(* The desired state of a ModelService (api/v1alpha1) and what the trip    *)
(* from a Go struct to the API server does to it.  A Go client encodes the *)
(* struct with encoding/json, where "omitempty" drops every zero value;    *)
(* the API server then fills absent fields with the CRD defaults and       *)
(* checks the result against the schema and the CEL rules.                 *)
(*                                                                         *)
(* An optional block (a Go pointer) is a record with a "present" flag.     *)
(* Left out because nothing here tells their values apart: resources and   *)
(* health (no admissible zero value differs from its default), the user    *)
(* and group ids of security (their minimum is 1), labels.  Of the four    *)
(* gateway fields of exposure, which the code treats alike, one is kept.   *)
(***************************************************************************)
EXTENDS Integers

CONSTANTS
    Text,             \* the strings a field may hold
    ValidPredictors,  \* predictors that satisfy the enums and patterns
    CRDSizes,         \* storage sizes matching ^[0-9]+(Mi|Gi|Ti)$
    AbsolutePaths,    \* strings that begin with "/"
    CRDHostnames      \* strings of 1 to 253 characters

\* The zero value of a Go string; also a nil predictor.
Empty == ""

ASSUME SpecConstants ==
    /\ {Empty, "Deployment", "KServe", "1", "http"} \subseteq Text
    /\ ValidPredictors \subseteq Text \ {Empty}
    /\ CRDSizes \subseteq Text \ {Empty}
    /\ "1Gi" \in CRDSizes
    /\ AbsolutePaths \subseteq Text \ {Empty}
    /\ {"/", "/models"} \subseteq AbsolutePaths
    /\ CRDHostnames \subseteq Text \ {Empty}

ExposureType == [present : BOOLEAN, enabled : BOOLEAN, hostname : Text,
                 pathPrefix : Text, gatewaySectionName : Text]

StorageType == [present : BOOLEAN, enabled : BOOLEAN, size : Text,
                mountPath : Text]

SecurityType == [present : BOOLEAN, runAsNonRoot : BOOLEAN,
                 readOnlyRootFilesystem : BOOLEAN]

RolloutType == [present : BOOLEAN, preStopDelaySeconds : Int,
                minReadySeconds : Int]

BudgetType == [present : BOOLEAN, enabled : BOOLEAN, maxUnavailable : Text]

PolicyType == [present : BOOLEAN, enabled : BOOLEAN,
               allowSameNamespaceIngress : BOOLEAN, allowDNSEgress : BOOLEAN]

SpecType ==
    [backend : Text, image : Text, replicas : Int, port : Int,
     predictor : Text, exposure : ExposureType, storage : StorageType,
     security : SecurityType, rollout : RolloutType,
     podDisruptionBudget : BudgetType, networkPolicy : PolicyType]

NoExposure == [present |-> FALSE, enabled |-> FALSE, hostname |-> Empty,
               pathPrefix |-> Empty, gatewaySectionName |-> Empty]

NoStorage == [present |-> FALSE, enabled |-> FALSE, size |-> Empty,
              mountPath |-> Empty]

NoSecurity == [present |-> FALSE, runAsNonRoot |-> FALSE,
               readOnlyRootFilesystem |-> FALSE]

NoRollout == [present |-> FALSE, preStopDelaySeconds |-> 0,
              minReadySeconds |-> 0]

NoBudget == [present |-> FALSE, enabled |-> FALSE, maxUnavailable |-> Empty]

NoPolicy == [present |-> FALSE, enabled |-> FALSE,
             allowSameNamespaceIngress |-> FALSE, allowDNSEgress |-> FALSE]

NoSpec == [backend |-> Empty, image |-> Empty, replicas |-> 0, port |-> 0,
           predictor |-> Empty, exposure |-> NoExposure, storage |-> NoStorage,
           security |-> NoSecurity, rollout |-> NoRollout,
           podDisruptionBudget |-> NoBudget, networkPolicy |-> NoPolicy]

(***************************************************************************)
(* Encoding and defaulting                                                 *)
(***************************************************************************)

\* A field tagged omitempty is absent from the JSON when it holds the zero
\* value of its Go type, and the API server then stores the CRD default.
OmitEmpty(value, zero, default) == IF value = zero THEN default ELSE value

StoreExposure(e) ==
    IF ~e.present THEN e
    ELSE [e EXCEPT !.pathPrefix         = OmitEmpty(@, Empty, "/"),
                   !.gatewaySectionName = OmitEmpty(@, Empty, "http")]

StoreStorage(s) ==
    IF ~s.present THEN s
    ELSE [s EXCEPT !.size      = OmitEmpty(@, Empty, "1Gi"),
                   !.mountPath = OmitEmpty(@, Empty, "/models")]

StoreSecurity(s) ==
    IF ~s.present THEN s
    ELSE [s EXCEPT !.runAsNonRoot           = OmitEmpty(@, FALSE, TRUE),
                   !.readOnlyRootFilesystem = OmitEmpty(@, FALSE, TRUE)]

StoreRollout(r) ==
    IF ~r.present THEN r
    ELSE [r EXCEPT !.preStopDelaySeconds = OmitEmpty(@, 0, 5),
                   !.minReadySeconds     = OmitEmpty(@, 0, 5)]

StoreBudget(b) ==
    IF ~b.present THEN b
    ELSE [b EXCEPT !.enabled        = OmitEmpty(@, FALSE, TRUE),
                   !.maxUnavailable = OmitEmpty(@, Empty, "1")]

\* networkPolicy.enabled carries no omitempty: an explicit false survives.
StorePolicy(p) ==
    IF ~p.present THEN p
    ELSE [p EXCEPT !.allowSameNamespaceIngress = OmitEmpty(@, FALSE, TRUE),
                   !.allowDNSEgress            = OmitEmpty(@, FALSE, TRUE)]

\* What the API server stores when a Go client sends spec.
Store(spec) ==
    [spec EXCEPT
        !.backend             = OmitEmpty(@, Empty, "Deployment"),
        !.replicas            = OmitEmpty(@, 0, 1),
        !.port                = OmitEmpty(@, 0, 8080),
        !.exposure            = StoreExposure(@),
        !.storage             = StoreStorage(@),
        !.security            = StoreSecurity(@),
        !.rollout             = StoreRollout(@),
        !.podDisruptionBudget = StoreBudget(@),
        !.networkPolicy       = StorePolicy(@)]

(***************************************************************************)
(* Admission                                                               *)
(***************************************************************************)

Ports == 1 .. 65535

\* The schema and the CEL rules a stored spec satisfies.
CRDValid(spec) ==
    /\ spec.backend \in {"Deployment", "KServe"}
    /\ spec.backend = "KServe" => spec.predictor \in ValidPredictors
    /\ spec.backend = "Deployment" => spec.image # Empty /\ spec.predictor = Empty
    /\ spec.replicas \in 1 .. 10
    /\ spec.port \in Ports
    /\ spec.exposure.present =>
         /\ spec.exposure.hostname \in CRDHostnames \cup {Empty}
         /\ spec.exposure.pathPrefix \in AbsolutePaths
    /\ spec.storage.present => /\ spec.storage.size \in CRDSizes
                               /\ spec.storage.mountPath \in AbsolutePaths

\* The transition rule: spec.backend is immutable.
CRDTransition(old, new) == new.backend = old.backend

===============================================================================
