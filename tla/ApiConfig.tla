------------------------------- MODULE ApiConfig -------------------------------
(***************************************************************************)
(* The configuration of the platform API (internal/api/config): what       *)
(* config.Load makes of the environment of the container.                  *)
(***************************************************************************)
EXTENDS Integers

CONSTANTS
    Strings,    \* the values a variable or a setting may have
    TrimSpace,  \* strings.TrimSpace, as a function on Strings
    ToLower,    \* strings.ToLower
    Atoi        \* strconv.Atoi, a function on the strings it accepts

\* The environment variables that hold text.
TextKeys ==
    {"HTTP_ADDRESS", "MODEL_SERVICE_NAMESPACE", "OIDC_ISSUER", "OIDC_AUDIENCE",
     "OIDC_CA_FILE", "MODEL_GATEWAY_NAME", "MODEL_GATEWAY_NAMESPACE",
     "MODEL_GATEWAY_SECTION_NAME", "MODEL_GATEWAY_DATAPLANE_NAMESPACE"}

Keys == TextKeys \cup {"LOG_LEVEL", "MAX_MODEL_REPLICAS"}

LogLevels == {"debug", "info", "warn", "error"}

\* The value of a variable that is not set.
Unset == ""

\* The fallbacks in the source, one name for each text.
Fallback(key) ==
    CASE key = "LOG_LEVEL" -> "info"
      [] key = "MAX_MODEL_REPLICAS" -> "10"
      [] OTHER -> "default"

ASSUME ConfigConstants ==
    /\ {Unset, "default", "info", "10"} \subseteq Strings
    /\ TrimSpace \in [Strings -> Strings]
    /\ \A s \in Strings : TrimSpace[TrimSpace[s]] = TrimSpace[s]
    /\ TrimSpace[Unset] = Unset
    /\ TrimSpace["default"] = "default"
    /\ ToLower \in [Strings -> Strings]
    /\ DOMAIN Atoi \subseteq Strings \ {Unset}
    /\ "10" \in DOMAIN Atoi
    /\ \A s \in DOMAIN Atoi : Atoi[s] \in Int

EnvironmentType == [Keys -> Strings]

\* A variable that is unset or blank counts as not given.
envOrDefault(env, key) ==
    IF TrimSpace[env[key]] = Unset THEN Fallback(key) ELSE TrimSpace[env[key]]

ConfigType == [text : [TextKeys -> Strings], LogLevel : Strings,
               MaxModelReplicas : Int]

NoConfig == [text |-> [k \in TextKeys |-> Unset], LogLevel |-> Unset,
             MaxModelReplicas |-> 0]

\* The settings before they are validated; MAX_MODEL_REPLICAS parses.
Settings(env) ==
    [text |-> [k \in TextKeys |-> envOrDefault(env, k)],
     LogLevel |-> ToLower[envOrDefault(env, "LOG_LEVEL")],
     MaxModelReplicas |-> Atoi[envOrDefault(env, "MAX_MODEL_REPLICAS")]]

\* Mutant: a limit of no replicas at all passes.
ValidateNoLimit(c) ==
    /\ \A k \in TextKeys : TrimSpace[c.text[k]] # Unset
    /\ c.LogLevel \in LogLevels

Validate(c) ==
    /\ \A k \in TextKeys : TrimSpace[c.text[k]] # Unset
    /\ c.MaxModelReplicas >= 1
    /\ c.LogLevel \in LogLevels

\* Load returns Settings(env) and no error.
Loads(env) ==
    /\ envOrDefault(env, "MAX_MODEL_REPLICAS") \in DOMAIN Atoi
    /\ Validate(Settings(env))

================================================================================
