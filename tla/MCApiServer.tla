------------------------------ MODULE MCApiServer ------------------------------
(* Instances of ApiServer for TLC. *)
EXTENDS ApiServer

In(route, method, token, roles) ==
    [route |-> route, method |-> method, token |-> token, roles |-> roles]

\* Every pattern of the router, every method, every kind of token, and each
\* role where it suffices and where it does not.  (PUT and PATCH, once let
\* through, go the way of POST.)
MCInputs ==
    {In("unmatched", "GET", "none", {}), In("metrics", "GET", "none", {}),
     In("healthz", "GET", "none", {}), In("healthz", "POST", "none", {}),
     In("readyz", "GET", "none", {}),
     In("other", "PUT", "valid", {"deployer"}),
     In("collection", "GET", "valid", {"viewer"}),
     In("collection", "POST", "valid", {"deployer"}),
     In("collection", "POST", "valid", {"viewer"}),
     In("collection", "DELETE", "valid", {"admin"}),
     In("resource", "GET", "valid", {"viewer", "deployer"}),
     In("resource", "PUT", "none", {}),
     In("resource", "PATCH", "invalid", {"deployer"}),
     In("resource", "DELETE", "valid", {"admin"}),
     In("status", "GET", "valid", {"viewer"}),
     In("status", "PUT", "valid", {"viewer"})}

MCStrings == {Unset, " ", "default", "set", "info", "WARN", "warn", "loud", "10",
              " 3", "3", "0", "ten"}
MCTrimSpace == [v \in MCStrings |-> CASE v = " "  -> Unset
                                      [] v = " 3" -> "3"
                                      [] OTHER    -> v]
MCToLower == [v \in MCStrings |-> IF v = "WARN" THEN "warn" ELSE v]
MCAtoi == [v \in {"10", "3", "0"} |-> CASE v = "10" -> 10
                                       [] v = "3"  -> 3
                                       [] v = "0"  -> 0]

Environment(level, limit) ==
    [k \in Keys |-> CASE k = "LOG_LEVEL" -> level
                      [] k = "MAX_MODEL_REPLICAS" -> limit
                      [] k = "OIDC_ISSUER" -> "set"
                      [] k = "MODEL_GATEWAY_SECTION_NAME" -> " "
                      [] OTHER -> Unset]

\* One the process starts with, and one for each reason to refuse.
MCEnvironments ==
    {Environment("WARN", " 3"), Environment("loud", Unset),
     Environment(" ", "ten"), Environment(Unset, "0")}

================================================================================
