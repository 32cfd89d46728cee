------------------------------- MODULE MCRestApi -------------------------------
(***************************************************************************)
(* RestApi on small instances: two requests, and bodies chosen so that     *)
(* each validation and conversion outcome occurs.                          *)
(***************************************************************************)
EXTENDS RestApi, TLC

MCText == {Empty, " ", "Deployment", "KServe", "1", "http", "fraud-model-https",
           "img1", "img2"}
          \cup {"m1", "m2", "1Gi", "2Gi", "1G", "/", "/models", "/v1",
                "a.local", "b.local"}
MCValidPredictors == {"m1", "m2"}
MCCRDSizes == {"1Gi", "2Gi"}
MCQuantities == {"1Gi", "2Gi", "1G"}
MCAbsolutePaths == {"/", "/models", "/v1"}
MCValidHostnames == {"a.local", "b.local"}
MCBlanks == {Empty, " "}
MCCRDHostnames == MCText \ {Empty}

Body(image, replicas, exposure, storage) ==
    [backend |-> Empty, image |-> image, replicas |-> replicas, port |-> 8080,
     predictor |-> Empty, exposure |-> exposure, storage |-> storage]

ExposureOff == [enabled |-> FALSE, hostname |-> Empty, pathPrefix |-> Empty]
ExposureOn  == [enabled |-> TRUE, hostname |-> "a.local", pathPrefix |-> Empty]
StorageOff  == [enabled |-> FALSE, size |-> Empty, mountPath |-> Empty]
StorageOn(size) == [enabled |-> TRUE, size |-> size, mountPath |-> "/models"]

PlainBody  == Body("img1", 1, ExposureOff, StorageOff)
FullBody   == Body("img2", 2, ExposureOn, StorageOn("1Gi"))
PartBody   == Body("img2", 2, ExposureOn, StorageOff)
BadBody    == Body(" ", 1, ExposureOff, StorageOff)
KServeBody == [PlainBody EXCEPT !.backend = "KServe", !.image = " ", !.port = 0,
                                !.predictor = "m1"]

\* A size that is a Kubernetes quantity and does not match the CRD pattern.
DecimalBody == Body("img1", 1, ExposureOff, StorageOn("1G"))

MCCreateInputs == {PlainBody, FullBody, BadBody, KServeBody, DecimalBody}
MCUpdateInputs == {PartBody, KServeBody}
MCPatchInputs ==
    {[replicas |-> 2, storage |-> [enabled |-> FALSE]],
     [exposure |-> [enabled |-> TRUE, hostname |-> "b.local"]],
     [exposure |-> [enabled |-> FALSE, pathPrefix |-> "http"]],
     [predictor |-> "m2"],
     [x \in {} |-> x]}

\* A spec as kubectl apply leaves it, with explicit values throughout.
Applied(image, flag) ==
    [Store(createRequestToModelService([FullBody EXCEPT !.image = image])) EXCEPT
        !.security = [present |-> TRUE, runAsNonRoot |-> flag,
                      readOnlyRootFilesystem |-> TRUE]]

MCAppliedSpecs == {Applied("img1", TRUE)}

\* kubectl explicitly allows the container to run as root.
MCRootSpecs == {Applied("img1", FALSE)}

\* Disable by PUT, enable by PATCH.
MCDisabling == {PlainBody}
MCEnabling == {[exposure |-> [enabled |-> TRUE, hostname |-> "b.local"]]}

Symmetry == Permutations(Requests)
================================================================================
