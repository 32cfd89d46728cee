------------------------------- MODULE ApiServer -------------------------------
(***************************************************************************)
(* The process of the platform API around its handlers: the life of the    *)
(* server (cmd/platform-api/main.go) and the chain of wrappers every       *)
(* request passes (routes.go, middleware).  The wrappers nest, so a        *)
(* request goes in through the metrics, the authentication, the audit and  *)
(* the role check, and comes out through the audit, the metrics and the    *)
(* request log; the process may die at any point of this.                  *)
(*                                                                         *)
(* A handler is reduced to the one call that changes the cluster and the   *)
(* status code, as in MutatingHandler, which RestApi implements.           *)
(***************************************************************************)
EXTENDS ApiConfig, HandlerAnswers, FiniteSets

CONSTANTS
    Requests,   \* the requests clients send
    Inputs,     \* what a request may carry
    Environments, \* the environments the container is started with
    MaxStarts   \* bound on the starts of the process

VARIABLES
    process,    \* the stage of main
    config,     \* the configuration of the running process
    starts,     \* how often the process was started
    req,        \* the state of each request
    inFlight    \* the gauge HTTPRequestsInFlight of the running process

vars == <<process, config, starts, req, inFlight>>

Methods == {"GET", "POST", "PUT", "PATCH", "DELETE"}

\* viewer, deployer and admin are RoleModelViewer, RoleModelDeployer and
\* RolePlatformAdmin; none includes another.
Roles == {"viewer", "deployer", "admin"}

\* The patterns below /api/v1/, "other" being a path that matches none.
ProtectedRoutes == {"collection", "resource", "status", "other"}

OpenRoutes == {"healthz", "readyz", "metrics", "unmatched"}

InputType == [route : ProtectedRoutes \cup OpenRoutes, method : Methods,
              token : {"none", "invalid", "valid"}, roles : SUBSET Roles]

ASSUME ApiServerConstants ==
    /\ IsFiniteSet(Requests)
    /\ Inputs \subseteq InputType
    /\ Environments \subseteq EnvironmentType
    /\ MaxStarts \in Nat

(***************************************************************************)
(* Where a request is: sent by nobody yet; in the mux; waiting for the     *)
(* verifier; past the authentication; in its handler; answered by it; past *)
(* the audit; finished; or lost with the process.                          *)
(***************************************************************************)
Active == {"routing", "verifying", "identified", "handling", "answered",
           "audited"}

Codes == {0, 200, 201, 204, 400, 401, 403, 404, 405, 409, 413, 415, 503}

Outcomes == {"none", "success", "unauthorized", "denied", "rejected", "error"}

RequestType ==
    [stage : Active \cup {"unsent", "done", "lost"},
     input : InputType,
     identified : BOOLEAN,  \* the context holds an identity
     call : {"none", "outstanding"} \cup Results,
     code : Codes,          \* as the recorders hold it, 0 before WriteHeader
     audit : Outcomes]      \* the outcome in the api_audit record, if any

Unsent ==
    [stage |-> "unsent",
     input |-> [route |-> "unmatched", method |-> "GET", token |-> "none",
                roles |-> {}],
     identified |-> FALSE, call |-> "none", code |-> 0, audit |-> "none"]

InProcess == {r \in Requests : req[r].stage \in Active}

\* RequestMetrics leaves the scrapes of Prometheus out.
Counted(r) == req[r].input.route # "metrics"

Init ==
    /\ process = "down"
    /\ config = NoConfig
    /\ starts = 0
    /\ req = [r \in Requests |-> Unsent]
    /\ inFlight = 0

(***************************************************************************)
(* The process                                                             *)
(***************************************************************************)

\* The listener is open.  Until signal.NotifyContext has been called, after
\* the goroutine of the listener was started, a signal ends the process.
Listening == {"listening", "serving"}

\* The kubelet starts the container, again after every exit.  config.Load
\* reads the environment; a bad one is reported and ends the process.  (A
\* level that Validate lets pass is one logging.New knows.)
Start ==
    /\ process = "down"
    /\ starts < MaxStarts
    /\ starts' = starts + 1
    /\ \E env \in Environments :
         IF Loads(env)
         THEN process' = "discovering" /\ config' = Settings(env)
         ELSE UNCHANGED <<process, config>>
    /\ UNCHANGED <<req, inFlight>>

\* The goroutines of the handlers, their recorders and the metrics end with
\* the process.
Exit ==
    /\ process' = "down"
    /\ config' = NoConfig
    /\ req' = [r \in Requests |->
                 IF r \in InProcess
                 THEN [req[r] EXCEPT !.stage = "lost", !.code = 0] ELSE req[r]]
    /\ inFlight' = 0
    /\ UNCHANGED starts

\* The verifier has read the CA file and the issuer's discovery document, for
\* which it waits without a bound; the Kubernetes client and the server are
\* built and the goroutine of the listener is started.
NewOIDCVerifier ==
    /\ process = "discovering"
    /\ process' = "listening"
    /\ UNCHANGED <<config, starts, req, inFlight>>

\* From here on a signal is noticed by main.
NotifyContext ==
    /\ process = "listening"
    /\ process' = "serving"
    /\ UNCHANGED <<config, starts, req, inFlight>>

\* Mutant: the container has no liveness probe.
LivenessProbeNone == FALSE

\* Nobody answers /healthz while the process starts: the kubelet ends it.
LivenessProbe == process = "discovering" /\ Exit

\* os.Exit(1) while starting or when the listener fails; SIGKILL; SIGTERM
\* before NotifyContext; a panic outside of the handlers.
Crash == process # "down" /\ Exit

\* SIGTERM or SIGINT: Shutdown closes the listener and the idle connections.
Signal ==
    /\ process = "serving"
    /\ process' = "draining"
    /\ UNCHANGED <<config, starts, req, inFlight>>

\* Shutdown returns once no connection is active.
Drained == process = "draining" /\ InProcess = {} /\ Exit

\* Mutant: Shutdown is called with a context that has no deadline.
ShutdownTimeoutNever == FALSE

\* Shutdown gives up after shutdownTimeout; Close, and main returns.
ShutdownTimeout == process = "draining" /\ InProcess # {} /\ Exit

(***************************************************************************)
(* The way in                                                              *)
(***************************************************************************)

\* A new connection or the next request of an idle one; RequestID,
\* RequestLogging and RequestMetrics up to the call of the mux.
Accept(r) ==
    /\ process \in Listening
    /\ req[r].stage = "unsent"
    /\ \E input \in Inputs :
         /\ req' = [req EXCEPT ![r] = [@ EXCEPT !.stage = "routing",
                                            !.input = input]]
         /\ inFlight' = inFlight + IF input.route = "metrics" THEN 0 ELSE 1
    /\ UNCHANGED <<process, config, starts>>

\* Every step of a request leaves the process alone.
Step(r, from) ==
    /\ req[r].stage = from
    /\ UNCHANGED <<process, config, starts>>

\* WriteHeader: the handler is done, the wrappers return one by one.
Respond(r, code) ==
    /\ req' = [req EXCEPT ![r] = [@ EXCEPT !.stage = "answered", !.code = code]]
    /\ UNCHANGED inFlight

MoveTo(r, stage) ==
    /\ req' = [req EXCEPT ![r].stage = stage]
    /\ UNCHANGED inFlight

\* Paths outside /api/v1/, which need no token.
ServeOpen(r) ==
    LET route == req[r].input.route
        get   == req[r].input.method = "GET"
    IN /\ Step(r, "routing")
       /\ route \in OpenRoutes
       /\ \/ route = "unmatched" /\ Respond(r, 404)
          \/ route = "metrics" /\ Respond(r, 200)
          \/ route \in {"healthz", "readyz"} /\ ~get /\ Respond(r, 405)
          \/ route = "healthz" /\ get /\ Respond(r, 200)
          \/ route = "readyz" /\ get /\ MoveTo(r, "handling")

\* Authentication up to the call of Verify.
BearerToken(r) ==
    /\ Step(r, "routing")
    /\ req[r].input.route \in ProtectedRoutes
    /\ IF req[r].input.token = "none" THEN Respond(r, 401)
       ELSE MoveTo(r, "verifying")

\* Verify may need the keys of the issuer: it refuses a valid token when it
\* cannot fetch them, and waits for them as long as the client stays, since
\* its HTTP client has no timeout.
Verify(r) ==
    /\ Step(r, "verifying")
    /\ \/ Respond(r, 401)
       \/ /\ req[r].input.token = "valid"
          /\ req' = [req EXCEPT ![r] = [@ EXCEPT !.stage = "identified",
                                              !.identified = TRUE]]
          /\ UNCHANGED inFlight

\* The methods the handler of a route passes on.
Allowed(route) ==
    CASE route = "collection" -> {"GET", "POST"}
      [] route = "resource" -> {"GET", "PUT", "PATCH", "DELETE"}
      [] route = "status" -> {"GET"}
      [] OTHER -> {}

\* Mutant: the wrapper of the mutating handlers is the one of the readers.
RequiredRoleViewer(input) == "viewer"

\* The role of the RequireAnyRole wrapper around a handler.
RequiredRole(input) ==
    CASE input.route = "status" \/ input.method = "GET" -> "viewer"
      [] input.method = "DELETE" -> "admin"
      [] OTHER -> "deployer"

HasRole(input) == RequiredRole(input) \in input.roles

\* The protected mux.  The handlers of the collection and of a resource look
\* at the method before the role; for the status the role comes first.
Dispatch(r) ==
    LET input == req[r].input
        allowed == input.method \in Allowed(input.route)
    IN /\ Step(r, "identified")
       /\ \/ input.route = "other" /\ Respond(r, 404)
          \/ /\ input.route \in {"collection", "resource"}
             /\ ~allowed
             /\ Respond(r, 405)
          \/ /\ input.route = "status" \/ allowed
             /\ ~HasRole(input)
             /\ Respond(r, 403)
          \/ /\ input.route = "status"
             /\ HasRole(input)
             /\ ~allowed
             /\ Respond(r, 405)
          \/ /\ allowed
             /\ HasRole(input)
             /\ MoveTo(r, "handling")

(***************************************************************************)
(* The handlers                                                            *)
(***************************************************************************)

Reads(r) == req[r].input.method = "GET"

\* The readers ask the API server once and change nothing.
AnswerRead(r, route, codes) ==
    /\ Step(r, "handling")
    /\ Reads(r) /\ req[r].input.route = route
    /\ \E code \in codes : Respond(r, code)

\* Every failure, the timeout included, is 503.
List(r) == AnswerRead(r, "collection", {200, 503})

\* Of the failures, only a missing object is told apart.
Get(r) == AnswerRead(r, "resource", {200, 404, 503})

GetStatus(r) == AnswerRead(r, "status", {200, 404, 503})

\* Ready when the API server answers within readinessTimeout.
Readiness(r) == AnswerRead(r, "readyz", {200, 503})

\* Mutant: a handler whose call was refused reads again and retries.
SendCallRetried(r) ==
    /\ Step(r, "handling")
    /\ ~Reads(r)
    /\ req[r].call \in {"none", "refused"}
    /\ req' = [req EXCEPT ![r].call = "outstanding"]
    /\ UNCHANGED inFlight

\* The handler has decided to write and sends the call.
SendCall(r) ==
    /\ Step(r, "handling")
    /\ ~Reads(r)
    /\ req[r].call = "none"
    /\ req' = [req EXCEPT ![r].call = "outstanding"]
    /\ UNCHANGED inFlight

\* The API server handles the call, be its sender still alive or not.
ServerHandles(r) ==
    /\ req[r].call = "outstanding"
    /\ \E result \in Results :
         req' = [req EXCEPT ![r].call = result]
    /\ UNCHANGED <<process, config, starts, inFlight>>

AnswerMutation(r) ==
    /\ Step(r, "handling")
    /\ ~Reads(r)
    /\ \E code \in AnswerCodes(req[r].input.method, req[r].call) :
         Respond(r, code)

(***************************************************************************)
(* The way out                                                             *)
(***************************************************************************)

isAuditedMutation(method) == method \in {"POST", "PUT", "PATCH", "DELETE"}

\* Mutant: only a 403 and a 503 are told apart from a success.
auditOutcomeCoarse(code) ==
    CASE code = 403 -> "denied" [] code = 503 -> "error" [] OTHER -> "success"

auditOutcome(code) ==
    CASE code \in 200 .. 299 -> "success"
      [] code = 401 -> "unauthorized"
      [] code = 403 -> "denied"
      [] code \in 400 .. 499 \ {401, 403} -> "rejected"
      [] OTHER -> "error"

\* AuditLogging, inside the authentication: a request that did not get past
\* that is never audited, and neither is a read.
AuditLogging(r) ==
    /\ Step(r, "answered")
    /\ req' = [req EXCEPT ![r] =
                 [@ EXCEPT !.stage = "audited",
                           !.audit = IF /\ req[r].identified
                                        /\ isAuditedMutation(req[r].input.method)
                                     THEN auditOutcome(req[r].code)
                                     ELSE "none"]]
    /\ UNCHANGED inFlight

\* Mutant: the gauge is decremented only where an identity was found.
FinishLeaky(r) ==
    /\ Step(r, "audited")
    /\ req' = [req EXCEPT ![r].stage = "done"]
    /\ inFlight' = inFlight - IF req[r].identified THEN 1 ELSE 0

\* RequestMetrics with its deferred Dec, RequestLogging; net/http flushes the
\* response and the connection is idle.
Finish(r) ==
    /\ Step(r, "audited")
    /\ req' = [req EXCEPT ![r].stage = "done"]
    /\ inFlight' = inFlight - IF Counted(r) THEN 1 ELSE 0

Handler(r) ==
    \/ ServeOpen(r) \/ BearerToken(r) \/ Dispatch(r)
    \/ List(r) \/ Get(r) \/ GetStatus(r) \/ Readiness(r)
    \/ SendCall(r) \/ AnswerMutation(r)
    \/ AuditLogging(r) \/ Finish(r)

Next ==
    \/ Start \/ NewOIDCVerifier \/ NotifyContext \/ LivenessProbe
    \/ Crash \/ Signal \/ Drained \/ ShutdownTimeout
    \/ \E r \in Requests :
         Accept(r) \/ Verify(r) \/ ServerHandles(r) \/ Handler(r)

Spec == Init /\ [][Next]_vars

\* The runtime schedules every handler, which waits for the API server no
\* longer than the client's timeout; nothing bounds Verify, and nothing in
\* the process bounds NewOIDCVerifier.  The kubelet probes.  The timer of
\* Shutdown fires.
FairSpec ==
    /\ Spec
    /\ \A r \in Requests : WF_vars(Handler(r))
    /\ WF_vars(NotifyContext) /\ WF_vars(LivenessProbe)
    /\ WF_vars(Drained)
    /\ WF_vars(ShutdownTimeout)

(***************************************************************************)
(* Properties                                                              *)
(***************************************************************************)

\* The types of the variables.
TypeOK ==
    /\ process \in {"down", "discovering", "draining"} \cup Listening
    /\ config \in ConfigType
    /\ starts \in 0 .. MaxStarts
    /\ req \in [Requests -> RequestType]
    /\ inFlight \in Int

\* The gauge HTTPRequestsInFlight is the number of requests in the process,
\* whichever wrapper answered the others and whatever process died before.
GaugeIsExact ==
    inFlight = Cardinality({r \in InProcess : Counted(r)})

\* The operations that change the cluster and the role each asks for.
Authorized(input) ==
    /\ input.token = "valid"
    /\ \/ /\ input.route = "collection" /\ input.method = "POST"
          /\ "deployer" \in input.roles
       \/ /\ input.route = "resource" /\ input.method \in {"PUT", "PATCH"}
          /\ "deployer" \in input.roles
       \/ /\ input.route = "resource" /\ input.method = "DELETE"
          /\ "admin" \in input.roles

\* A call that changes the cluster was made for an authenticated identity
\* with the role of that operation, also when the call outlives its process.
\* (The nesting of Authentication, the mux and RequireAnyRole in newRouter.)
CallsAreAuthorized ==
    \A r \in Requests :
        req[r].call # "none" => req[r].identified /\ Authorized(req[r].input)

AuditFits(q) ==
    q.stage \in {"audited", "done"} =>
        /\ q.call \in {"outstanding", "applied"} =>
               q.audit \in {"success", "error"}
        /\ q.audit = "success" =>
               \/ q.call = "applied"
               \/ q.call = "gone" /\ q.input.method = "DELETE"

\* What the audit log says of a request that left the audit wrapper: a change
\* of the cluster is recorded, as a success or as an error, never as denied
\* or rejected, not even when the API server applies it after the answer; and
\* a recorded success is a change, or a DELETE of what was gone.
\* (AuditLogging sees nothing but the status code of the handler.)
AuditTellsEffect == \A r \in Requests : AuditFits(req[r])

\* Requests are only handled under a configuration the handlers can work
\* with, whatever the environment of the container: at least one replica is
\* allowed and no setting is blank.  (RestApi assumes this of its constants.)
ServesConfigured ==
    process \in Listening \cup {"draining"} =>
        /\ config.MaxModelReplicas >= 1
        /\ \A k \in TextKeys : TrimSpace[config.text[k]] # Unset

\* A request that its wrappers let through to a mutating handler.
LetThrough(q) ==
    /\ q.identified
    /\ q.input.method \in Allowed(q.input.route) \ {"GET"}
    /\ HasRole(q.input)

\* What the sender of a mutation can tell of it, an answer being complete with
\* the flush; any other request is to them a handler that never begins.
Sent(q) ==
    IF ~LetThrough(q)
    THEN [stage |-> "handling", method |-> "none", call |-> q.call, code |-> 0]
    ELSE [stage  |-> CASE q.stage = "done" -> "answered"
                       [] q.stage = "lost" -> "lost"
                       [] OTHER            -> "handling",
          method |-> q.input.method,
          call   |-> q.call,
          code   |-> IF q.stage = "done" THEN q.code ELSE 0]

SentRequests == [r \in Requests |-> Sent(req[r])]

Mutation == INSTANCE MutatingHandler WITH handler <- SentRequests

\* The wrappers add nothing to a mutating handler and take nothing from it:
\* at its far end the client still sees one call at most and one answer, with
\* a code that fits what has become of the call when the answer is flushed,
\* and a request refused on the way in never becomes a call.  It is the
\* outline that RestApi shows of the handlers themselves.
ClientsSeeOutline ==
    Mutation!Init /\ [][UNCHANGED SentRequests \/ Mutation!Next]_vars

\* A start ends, also when the issuer never answers: the process serves, or
\* it is ended and can be started again.
StartEnds == process = "discovering" ~> process \in {"serving", "down"}

\* A shutdown ends, also when a request waits for the issuer of its token.
ShutdownEnds == process = "draining" ~> process = "down"

\* A request with an identity is answered, recorded and finished, or the
\* process dies: no wrapper and no handler waits without a bound.
IdentifiedRequestsEnd ==
    \A r \in Requests :
        req[r].stage = "identified" ~> req[r].stage \in {"done", "lost"}

================================================================================
