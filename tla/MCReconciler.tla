----------------------------- MODULE MCReconciler -----------------------------
(***************************************************************************)
(* Reconciler on small instances.  The specs are what kubectl leaves in    *)
(* the API server; each pair differs in the blocks one run is about.       *)
(***************************************************************************)
EXTENDS Reconciler

MCText == {Empty, "Deployment", "KServe", "1", "http", "url", "img1", "img2",
           "m1", "1Gi", "2Gi", "/", "/models", "/tmp", "a.local"}
MCValidPredictors == {"m1"}
MCCRDSizes == {"1Gi", "2Gi"}
MCAbsolutePaths == {"/", "/models", "/tmp"}
MCCRDHostnames == {"a.local"}
MCGrowth == {<<"1Gi", "2Gi">>}

Plain == [Store(NoSpec) EXCEPT !.image = "img1"]

Claim(spec, size, path) ==
    [spec EXCEPT !.storage = [present |-> TRUE, enabled |-> TRUE,
                              size |-> size, mountPath |-> path]]

Route(spec, hostname) ==
    [spec EXCEPT !.exposure = [present |-> TRUE, enabled |-> TRUE,
                               hostname |-> hostname, pathPrefix |-> "/",
                               gatewaySectionName |-> "http"]]

Bare(spec) ==
    [spec EXCEPT
        !.podDisruptionBudget = [NoBudget EXCEPT !.present = TRUE,
                                                 !.maxUnavailable = "1"],
        !.networkPolicy = [NoPolicy EXCEPT !.present = TRUE]]

KServe == [Store(NoSpec) EXCEPT !.backend = "KServe", !.predictor = "m1"]

Rendered == [Plain EXCEPT !.image = "img2", !.port = 9090]

\* Storage on and off, with a new image and port.
ClaimSpecs == {Plain, Claim(Rendered, "1Gi", "/models")}

\* Passes that cannot be completed: an exposure without a hostname, a claim
\* that may not shrink, a mount at /tmp; and one that can.
BlockedSpecs ==
    {Route(Claim(Plain, "2Gi", "/models"), "a.local"), Route(Rendered, Empty),
     Claim(Rendered, "1Gi", "/models"), Claim(Rendered, "1Gi", "/tmp")}

\* The disruption budget and the network policy on and off.
PolicySpecs == {Plain, Bare(Rendered)}

PlainSpecs == {Plain, Rendered}

\* The two backends.
BackendSpecs == {Plain, KServe, [KServe EXCEPT !.replicas = 2]}
================================================================================
