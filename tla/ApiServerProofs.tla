---------------------------- MODULE ApiServerProofs ----------------------------
(***************************************************************************)
(* Proofs about ApiServer, for any finite set of requests, any inputs and  *)
(* any number of starts.                                                   *)
(***************************************************************************)
EXTENDS ApiServer, FiniteSetTheorems, TLAPS

Answered == {"answered", "audited", "done"}

Successes == {200, 201, 204}

\* What the stages a request has passed have established about it.
GoodRequest(q) ==
    /\ q.stage \in {"unsent", "routing", "verifying"} =>
         ~q.identified /\ q.call = "none"
    /\ q.stage = "identified" => q.identified /\ q.call = "none"
    /\ q.identified => q.input.token = "valid"
    /\ q.stage = "handling" /\ q.input.method # "GET" =>
         q.identified /\ Authorized(q.input)
    /\ q.call # "none" => q.identified /\ Authorized(q.input)
    /\ q.stage \in Answered /\ q.call \in {"outstanding", "applied"} =>
         q.code \in Successes \cup {503}
    /\ /\ q.stage \in Answered
       /\ q.identified
       /\ q.input.method # "GET"
       /\ q.code \in Successes
       => \/ q.call = "applied"
          \/ q.call = "gone" /\ q.input.method = "DELETE"
    /\ q.stage \in {"audited", "done"} =>
         q.audit = IF q.identified /\ isAuditedMutation(q.input.method)
                   THEN auditOutcome(q.code) ELSE "none"

CountedRequests == {r \in InProcess : Counted(r)}

\* A process that has got past config.Load has a valid configuration.
Configured ==
    process # "down" => /\ config.MaxModelReplicas >= 1
                        /\ \A k \in TextKeys : TrimSpace[config.text[k]] # Unset

\* The inductive invariant.
Inv ==
    /\ TypeOK
    /\ Configured
    /\ GaugeIsExact
    /\ \A r \in Requests : GoodRequest(req[r])

\* A request counts as long as it is in the process.
LEMMA CountedFinite ==
    /\ IsFiniteSet(CountedRequests)
    /\ Cardinality(CountedRequests) \in Nat
<1>1. CountedRequests \subseteq Requests
  BY DEF CountedRequests, InProcess
<1>2. IsFiniteSet(CountedRequests)
  BY <1>1, ApiServerConstants, FS_Subset
<1> QED
  BY <1>2, FS_CardinalityType

\* What config.Load returns is a configuration.
LEMMA ConfigTypes ==
    /\ NoConfig \in ConfigType
    /\ \A env \in EnvironmentType : Loads(env) => Settings(env) \in ConfigType
<1>1. NoConfig \in ConfigType
  BY ConfigConstants DEF NoConfig, ConfigType
<1>2. ASSUME NEW env \in EnvironmentType, NEW key \in Keys
      PROVE  envOrDefault(env, key) \in Strings
  <2>1. env[key] \in Strings
    BY DEF EnvironmentType
  <2>2. TrimSpace[env[key]] \in Strings
    BY <2>1, ConfigConstants
  <2>3. Fallback(key) \in Strings
    BY ConfigConstants DEF Fallback
  <2> QED
    BY <2>2, <2>3 DEF envOrDefault
<1>3. ASSUME NEW env \in EnvironmentType, Loads(env)
      PROVE  Settings(env) \in ConfigType
  <2>1. /\ \A k \in TextKeys : envOrDefault(env, k) \in Strings
        /\ envOrDefault(env, "LOG_LEVEL") \in Strings
    BY <1>2 DEF Keys
  <2>2. ToLower[envOrDefault(env, "LOG_LEVEL")] \in Strings
    BY <2>1, ConfigConstants
  <2>3. Atoi[envOrDefault(env, "MAX_MODEL_REPLICAS")] \in Int
    BY <1>3, ConfigConstants DEF Loads
  <2> QED
    BY <2>1, <2>2, <2>3 DEF Settings, ConfigType
<1> QED
  BY <1>1, <1>3

\* Nothing has been sent at the start.
LEMMA InitInv == Init => Inv
<1> SUFFICES ASSUME Init PROVE Inv
  OBVIOUS
<1>1. Unsent \in RequestType
  BY DEF Unsent, RequestType, InputType, Methods, Roles, ProtectedRoutes,
         OpenRoutes, Active, Codes, Outcomes
<1>2. \A r \in Requests : req[r] = Unsent
  BY DEF Init
<1>3. TypeOK
  BY <1>1, ApiServerConstants, ConfigTypes DEF Init, TypeOK
<1>4. CountedRequests = {}
  BY <1>2 DEF CountedRequests, InProcess, Active, Unsent
<1>5. GaugeIsExact
  BY <1>4, FS_EmptySet DEF GaugeIsExact, CountedRequests, Init
<1>6. GoodRequest(Unsent)
  BY DEF GoodRequest, Unsent, Answered
<1> QED
  BY <1>2, <1>3, <1>5, <1>6 DEF Inv, Configured, Init

\* Request r becomes q and neither enters nor leaves the process.
LEMMA MoveStep ==
    ASSUME Inv, NEW r \in Requests, NEW q \in RequestType,
           req' = [req EXCEPT ![r] = q],
           GoodRequest(q),
           q.stage \in Active <=> req[r].stage \in Active,
           q.input = req[r].input,
           UNCHANGED <<process, config, starts, inFlight>>
    PROVE  Inv'
<1>1. TypeOK'
  BY DEF Inv, TypeOK
<1>2. \A s \in Requests : req'[s] = IF s = r THEN q ELSE req[s]
  BY DEF Inv, TypeOK
<1>3. \A s \in Requests : GoodRequest(req'[s])
  BY <1>2 DEF Inv
<1>4. CountedRequests' = CountedRequests
  BY <1>2 DEF CountedRequests, InProcess, Counted
<1>5. GaugeIsExact'
  BY <1>4, Zenon DEF Inv, GaugeIsExact, CountedRequests
<1>6. Configured'
  BY DEF Inv, Configured
<1> QED
  BY <1>1, <1>3, <1>5, <1>6 DEF Inv

\* A wrapper or handler writes its status code.
LEMMA RespondStep ==
    ASSUME Inv, NEW r \in Requests, NEW code \in Codes,
           Respond(r, code), UNCHANGED <<process, config, starts>>,
           req[r].stage \in Active,
           req[r].call \in {"outstanding", "applied"} =>
               code \in Successes \cup {503},
           req[r].identified /\ req[r].input.method # "GET"
               /\ code \in Successes =>
               \/ req[r].call = "applied"
               \/ req[r].call = "gone" /\ req[r].input.method = "DELETE"
    PROVE  Inv'
<1> DEFINE q == [req[r] EXCEPT !.stage = "answered", !.code = code]
<1>1. req[r] \in RequestType
  BY DEF Inv, TypeOK
<1>g. GoodRequest(req[r])
  BY DEF Inv
<1>2. q \in RequestType
  BY <1>1, ZenonT(30) DEF RequestType, Active
<1>3. req' = [req EXCEPT ![r] = q]
  BY <1>1 DEF Respond, Inv, TypeOK
<1>4. /\ q.stage = "answered" /\ q.code = code
      /\ q.input = req[r].input /\ q.call = req[r].call
      /\ q.identified = req[r].identified
  BY <1>1 DEF RequestType
<1> HIDE DEF q
<1>5. GoodRequest(q)
  BY <1>g, <1>4 DEF GoodRequest
<1>6. q.stage \in Active
  BY <1>4 DEF Active
<1>7. UNCHANGED inFlight
  BY DEF Respond
<1> QED
  BY <1>2, <1>3, <1>4, <1>5, <1>6, <1>7, MoveStep, ZenonT(30)

\* A wrapper passes the request on.
LEMMA MoveToStep ==
    ASSUME Inv, NEW r \in Requests, NEW stage \in {"verifying", "handling"},
           MoveTo(r, stage), UNCHANGED <<process, config, starts>>,
           req[r].stage \in {"routing", "identified"},
           stage = "verifying" => req[r].stage = "routing",
           stage = "handling" /\ req[r].input.method # "GET" =>
               req[r].identified /\ Authorized(req[r].input)
    PROVE  Inv'
<1> DEFINE q == [req[r] EXCEPT !.stage = stage]
<1>1. req[r] \in RequestType
  BY DEF Inv, TypeOK
<1>g. GoodRequest(req[r])
  BY DEF Inv
<1>2. q \in RequestType
  BY <1>1 DEF RequestType, Active
<1>3. req' = [req EXCEPT ![r] = q]
  BY <1>1 DEF MoveTo, Inv, TypeOK
<1>4. /\ q.stage = stage /\ q.code = req[r].code
      /\ q.input = req[r].input /\ q.call = req[r].call
      /\ q.identified = req[r].identified
  BY <1>1 DEF RequestType
<1> HIDE DEF q
<1>5. GoodRequest(q)
  BY <1>g, <1>4 DEF GoodRequest, Answered
<1>6. q.stage \in Active /\ req[r].stage \in Active
  BY <1>4 DEF Active
<1>7. UNCHANGED inFlight
  BY DEF MoveTo
<1> QED
  BY <1>2, <1>3, <1>4, <1>5, <1>6, <1>7, MoveStep, Zenon

\* The end of the process, planned or not.
LEMMA ExitStep == Inv /\ Exit => Inv'
<1> SUFFICES ASSUME Inv, Exit PROVE Inv'
  OBVIOUS
<1> DEFINE Lost(q) == [q EXCEPT !.stage = "lost", !.code = 0]
<1>1. ASSUME NEW r \in Requests, r \in InProcess
      PROVE  /\ req'[r] \in RequestType
             /\ GoodRequest(req'[r])
             /\ req'[r].stage \notin Active
  <2> DEFINE q == Lost(req[r])
  <2>1. req[r] \in RequestType
    BY DEF Inv, TypeOK
  <2>2. GoodRequest(req[r])
    BY SMTT(30) DEF Inv
  <2>3. req'[r] = q
    BY <1>1, Zenon DEF Exit
  <2>a. 0 \in Codes
    BY DEF Codes
  <2>4. q \in RequestType
    BY <2>1, <2>a, ZenonT(30) DEF RequestType
  <2>5. /\ q.stage = "lost" /\ q.input = req[r].input
        /\ q.call = req[r].call /\ q.identified = req[r].identified
    BY <2>1 DEF RequestType
  <2> HIDE DEF q
  <2>6. GoodRequest(q)
    BY <2>2, <2>5 DEF GoodRequest, Answered
  <2> QED
    BY <2>3, <2>4, <2>5, <2>6 DEF Active
<1>2. ASSUME NEW r \in Requests, r \notin InProcess
      PROVE  /\ req'[r] \in RequestType
             /\ GoodRequest(req'[r])
             /\ req'[r].stage \notin Active
  <2>1. req'[r] = req[r]
    BY <1>2, Zenon DEF Exit
  <2> QED
    BY <1>2, <2>1 DEF Inv, TypeOK, InProcess
<1>3. req' \in [Requests -> RequestType]
  BY <1>1, <1>2, Zenon DEF Exit
<1>4. TypeOK'
  <2>1. /\ process' = "down" /\ config' \in ConfigType
        /\ inFlight' = 0 /\ starts' = starts
    BY ConfigTypes, Zenon DEF Exit
  <2> QED
    BY <1>3, <2>1, SMTT(30) DEF Inv, TypeOK
<1>5. CountedRequests' = {}
  BY <1>1, <1>2, SMTT(30) DEF CountedRequests, InProcess
<1>6. GaugeIsExact'
  BY <1>5, FS_EmptySet, ZenonT(30) DEF Exit, GaugeIsExact, CountedRequests
<1>7. Configured'
  BY Zenon DEF Exit, Configured
<1> QED
  BY <1>1, <1>2, <1>4, <1>6, <1>7 DEF Inv

\* The process starts, listens and stops listening.
LEMMA ProcessStep ==
    Inv /\ (Start \/ NewOIDCVerifier \/ NotifyContext \/ Signal) => Inv'
<1> SUFFICES ASSUME Inv, Start \/ NewOIDCVerifier \/ NotifyContext \/ Signal
             PROVE  Inv'
  OBVIOUS
<1>1. UNCHANGED <<req, inFlight>>
  BY DEF Start, NewOIDCVerifier, NotifyContext, Signal
<1>2. TypeOK' /\ Configured'
  <2>1. CASE Start
    <3>1. PICK env \in Environments :
            \/ /\ Loads(env)
               /\ process' = "discovering" /\ config' = Settings(env)
            \/ UNCHANGED <<process, config>>
      BY <2>1 DEF Start
    <3>2. env \in EnvironmentType
      BY ApiServerConstants
    <3>3. starts' \in 0 .. MaxStarts
      BY <2>1, ApiServerConstants DEF Start, Inv, TypeOK
    <3>4. CASE UNCHANGED <<process, config>>
      BY <1>1, <3>3, <3>4 DEF Inv, TypeOK, Configured
    <3>5. CASE /\ Loads(env)
               /\ process' = "discovering" /\ config' = Settings(env)
      <4>1. config' \in ConfigType
        BY <3>2, <3>5, ConfigTypes
      <4>2. Validate(config')
        BY <3>5 DEF Loads
      <4> QED
        BY <1>1, <3>3, <3>5, <4>1, <4>2 DEF Inv, TypeOK, Configured, Validate
    <3> QED
      BY <3>1, <3>4, <3>5
  <2>2. CASE NewOIDCVerifier \/ NotifyContext \/ Signal
    BY <1>1, <2>2
    DEF Inv, TypeOK, Configured, NewOIDCVerifier, NotifyContext, Signal,
        Listening
  <2> QED
    BY <2>1, <2>2
<1>3. GaugeIsExact'
  BY <1>1 DEF Inv, GaugeIsExact, InProcess, Counted
<1> QED
  BY <1>1, <1>2, <1>3 DEF Inv

\* A request enters the process and the gauge.
LEMMA AcceptStep ==
    ASSUME Inv, NEW r \in Requests, Accept(r)
    PROVE  Inv'
<1>1. PICK input \in Inputs :
        /\ req' = [req EXCEPT ![r] = [@ EXCEPT !.stage = "routing",
                                               !.input = input]]
        /\ inFlight' = inFlight + IF input.route = "metrics" THEN 0 ELSE 1
  BY Zenon DEF Accept
<1> DEFINE q == [req[r] EXCEPT !.stage = "routing", !.input = input]
<1>2. req[r] \in RequestType
  BY DEF Inv, TypeOK
<1>3. GoodRequest(req[r]) /\ req[r].stage = "unsent"
  BY DEF Inv, Accept
<1>4. q \in RequestType
  BY <1>2, ApiServerConstants, Zenon DEF RequestType, Active
<1>5. req' = [req EXCEPT ![r] = q]
  BY <1>1
<1>6. /\ q.stage = "routing" /\ q.input = input
      /\ q.call = req[r].call /\ q.identified = req[r].identified
  BY <1>2 DEF RequestType
<1> HIDE DEF q
<1>7. GoodRequest(q)
  BY <1>3, <1>6 DEF GoodRequest, Answered
<1>8. TypeOK'
  BY <1>1, <1>4, <1>5 DEF Inv, TypeOK, Accept
<1>c. Configured'
  BY DEF Inv, Configured, Accept
<1>9. \A s \in Requests : req'[s] = IF s = r THEN q ELSE req[s]
  BY <1>5 DEF Inv, TypeOK
<1>10. r \notin CountedRequests
  BY <1>3 DEF CountedRequests, InProcess, Active
<1>11. CASE input.route = "metrics"
  <2>1. CountedRequests' = CountedRequests
    BY <1>6, <1>9, <1>10, <1>11 DEF CountedRequests, InProcess, Counted
  <2>2. inFlight' = inFlight
    BY <1>1, <1>11 DEF Inv, TypeOK
  <2>3. GaugeIsExact'
    BY <2>1, <2>2 DEF Inv, GaugeIsExact, CountedRequests
  <2> QED
    BY <1>7, <1>8, <1>9, <1>c, <2>3 DEF Inv
<1>12. CASE input.route # "metrics"
  <2>1. CountedRequests' = CountedRequests \cup {r}
    BY <1>6, <1>9, <1>12 DEF CountedRequests, InProcess, Counted, Active
  <2>2. Cardinality(CountedRequests') = Cardinality(CountedRequests) + 1
    BY <1>10, <2>1, CountedFinite, FS_AddElement, Zenon
  <2>3. GaugeIsExact'
    BY <1>1, <1>12, <2>2 DEF Inv, TypeOK, GaugeIsExact, CountedRequests
  <2> QED
    BY <1>7, <1>8, <1>9, <1>c, <2>3 DEF Inv
<1> QED
  BY <1>11, <1>12, SMTT(30)

\* A request leaves the process and the gauge.
LEMMA FinishStep ==
    ASSUME Inv, NEW r \in Requests, Finish(r)
    PROVE  Inv'
<1> DEFINE q == [req[r] EXCEPT !.stage = "done"]
<1>1. req[r] \in RequestType
  BY DEF Inv, TypeOK
<1>2. GoodRequest(req[r]) /\ req[r].stage = "audited"
  BY DEF Inv, Finish, Step
<1>3. q \in RequestType
  BY <1>1 DEF RequestType
<1>4. req' = [req EXCEPT ![r] = q]
  BY <1>1 DEF Finish, Inv, TypeOK
<1>5. /\ q.stage = "done" /\ q.input = req[r].input
      /\ q.call = req[r].call /\ q.identified = req[r].identified
      /\ q.code = req[r].code /\ q.audit = req[r].audit
  BY <1>1 DEF RequestType
<1> HIDE DEF q
<1>6. GoodRequest(q)
  BY <1>2, <1>5 DEF GoodRequest, Answered
<1>7. TypeOK'
  BY <1>3, <1>4 DEF Inv, TypeOK, Finish, Step
<1>c. Configured'
  BY DEF Inv, Configured, Finish, Step
<1>8. \A s \in Requests : req'[s] = IF s = r THEN q ELSE req[s]
  BY <1>4 DEF Inv, TypeOK
<1>9. CASE ~Counted(r)
  <2>1. CountedRequests' = CountedRequests
    BY <1>5, <1>8, <1>9 DEF CountedRequests, InProcess, Counted
  <2>2. GaugeIsExact'
    BY <1>9, <2>1 DEF Inv, TypeOK, GaugeIsExact, CountedRequests, Finish
  <2> QED
    BY <1>6, <1>7, <1>8, <1>c, <2>2 DEF Inv
<1>10. CASE Counted(r)
  <2>1. r \in CountedRequests
    BY <1>2, <1>10 DEF CountedRequests, InProcess, Active
  <2>2. CountedRequests' = CountedRequests \ {r}
    BY <1>5, <1>8 DEF CountedRequests, InProcess, Counted, Active
  <2>3. Cardinality(CountedRequests') = Cardinality(CountedRequests) - 1
    BY <2>1, <2>2, CountedFinite, FS_RemoveElement
  <2>4. GaugeIsExact'
    BY <1>10, <2>3 DEF Inv, TypeOK, GaugeIsExact, CountedRequests, Finish
  <2> QED
    BY <1>6, <1>7, <1>8, <1>c, <2>4 DEF Inv
<1> QED
  BY <1>9, <1>10

\* The mux and the wrappers up to the handler.
LEMMA WayInStep ==
    ASSUME Inv, NEW r \in Requests,
           ServeOpen(r) \/ BearerToken(r) \/ Dispatch(r)
    PROVE  Inv'
<1>1. req[r] \in RequestType
  BY DEF Inv, TypeOK
<1>2. GoodRequest(req[r])
  BY DEF Inv
<1>3. UNCHANGED <<process, config, starts>>
  BY ZenonT(30) DEF ServeOpen, BearerToken, Dispatch, Step
<1>4. /\ req[r].stage \in {"routing", "identified"}
      /\ req[r].call = "none"
      /\ req[r].stage = "routing" => ~req[r].identified
  BY <1>2 DEF ServeOpen, BearerToken, Dispatch, Step, GoodRequest
<1>5. req[r].stage \in Active
  BY <1>4 DEF Active
<1>6. ASSUME NEW code \in {401, 403, 404, 405}, Respond(r, code)
      PROVE  Inv'
  <2>1. code \in Codes /\ code \notin Successes
    BY <1>6 DEF Codes, Successes
  <2> QED
    BY <1>3, <1>4, <1>5, <1>6, <2>1, RespondStep
<1>7. CASE ServeOpen(r)
  <2>1. ~req[r].identified
    BY <1>4, <1>7 DEF ServeOpen, Step
  <2>2. CASE Respond(r, 200)
    BY <1>3, <1>4, <1>5, <2>1, <2>2, RespondStep DEF Codes
  <2>3. CASE MoveTo(r, "handling") /\ req[r].input.method = "GET"
    BY <1>3, <1>4, <2>3, MoveToStep
  <2>4. CASE Respond(r, 404)
    BY <1>6, <2>4
  <2>5. CASE Respond(r, 405)
    BY <1>6, <2>5
  <2> QED
    BY <1>7, <2>2, <2>3, <2>4, <2>5 DEF ServeOpen
<1>8. CASE BearerToken(r)
  <2>1. CASE Respond(r, 401)
    BY <1>6, <2>1
  <2>2. CASE MoveTo(r, "verifying")
    BY <1>3, <1>4, <1>8, <2>2, MoveToStep, ZenonT(30) DEF BearerToken, Step
  <2> QED
    BY <1>8, <2>1, <2>2 DEF BearerToken
<1>9. CASE Dispatch(r)
  <2>1. CASE /\ req[r].input.method \in Allowed(req[r].input.route)
             /\ HasRole(req[r].input)
             /\ MoveTo(r, "handling")
    <3>1. req[r].identified /\ req[r].input.token = "valid"
      BY <1>2, <1>9 DEF Dispatch, Step, GoodRequest
    <3>2. req[r].input \in InputType
      BY <1>1 DEF RequestType
    <3>3. req[r].input.method # "GET" => Authorized(req[r].input)
      BY <2>1, <3>1, <3>2
      DEF Authorized, Allowed, HasRole, RequiredRole, InputType, Methods,
          ProtectedRoutes, OpenRoutes
    <3> QED
      BY <1>3, <1>4, <2>1, <3>1, <3>3, MoveToStep, ZenonT(30)
  <2>2. CASE Respond(r, 403)
    BY <1>6, <2>2
  <2>3. CASE Respond(r, 404)
    BY <1>6, <2>3
  <2>4. CASE Respond(r, 405)
    BY <1>6, <2>4
  <2> QED
    BY <1>9, <2>1, <2>2, <2>3, <2>4 DEF Dispatch
<1> QED
  BY <1>7, <1>8, <1>9

\* The verifier accepts or refuses the token.
LEMMA VerifyStep ==
    ASSUME Inv, NEW r \in Requests, Verify(r)
    PROVE  Inv'
<1>1. req[r] \in RequestType
  BY DEF Inv, TypeOK
<1>2. GoodRequest(req[r]) /\ req[r].stage = "verifying"
  BY DEF Inv, Verify, Step
<1>3. UNCHANGED <<process, config, starts>>
  BY DEF Verify, Step
<1>4. ~req[r].identified /\ req[r].call = "none"
  BY <1>2, SMTT(30) DEF GoodRequest
<1>5. CASE Respond(r, 401)
  BY <1>2, <1>3, <1>4, <1>5, RespondStep DEF Codes, Active
<1>6. CASE /\ req[r].input.token = "valid"
           /\ req' = [req EXCEPT ![r] = [@ EXCEPT !.stage = "identified",
                                                  !.identified = TRUE]]
           /\ UNCHANGED inFlight
  <2> DEFINE q == [req[r] EXCEPT !.stage = "identified", !.identified = TRUE]
  <2>1. q \in RequestType
    BY <1>1, Zenon DEF RequestType, Active
  <2>2. req' = [req EXCEPT ![r] = q]
    BY <1>6
  <2>3. /\ q.stage = "identified" /\ q.input = req[r].input
        /\ q.call = req[r].call /\ q.identified = TRUE
    BY <1>1 DEF RequestType
  <2> HIDE DEF q
  <2>4. GoodRequest(q)
    BY <1>4, <1>6, <2>3 DEF GoodRequest, Answered
  <2>5. q.stage \in Active /\ req[r].stage \in Active
    BY <1>2, <2>3 DEF Active
  <2> QED
    BY <1>3, <1>6, <2>1, <2>2, <2>3, <2>4, <2>5, MoveStep, Zenon
<1> QED
  BY <1>5, <1>6 DEF Verify

\* The readers.
LEMMA ReadStep ==
    ASSUME Inv, NEW r \in Requests,
           List(r) \/ Get(r) \/ GetStatus(r) \/ Readiness(r)
    PROVE  Inv'
<1>1. PICK code \in {200, 404, 503} : Respond(r, code)
  BY DEF List, Get, GetStatus, Readiness, AnswerRead
<1>2. req[r].stage = "handling" /\ req[r].input.method = "GET"
  BY DEF List, Get, GetStatus, Readiness, AnswerRead, Step, Reads
<1>3. UNCHANGED <<process, config, starts>>
  BY SMTT(30) DEF List, Get, GetStatus, Readiness, AnswerRead, Step
<1>4. req[r].call = "none"
  BY <1>2 DEF Inv, GoodRequest, Authorized
<1>5. code \in Codes /\ req[r].stage \in Active
  BY <1>1, <1>2 DEF Codes, Active
<1> QED
  BY <1>1, <1>2, <1>3, <1>4, <1>5, RespondStep

\* The call of a request changes state, at its sender or at the API server.
LEMMA CallStep ==
    ASSUME Inv, NEW r \in Requests,
           NEW result \in {"outstanding", "applied", "refused", "gone"},
           req' = [req EXCEPT ![r].call = result],
           UNCHANGED <<process, config, starts, inFlight>>,
           req[r].identified /\ Authorized(req[r].input),
           req[r].stage \in Answered => req[r].code \notin Successes,
           req[r].stage \in Answered => req[r].code \in Successes \cup {503},
           req[r].stage \notin {"unsent", "routing", "verifying", "identified"}
    PROVE  Inv'
<1> DEFINE q == [req[r] EXCEPT !.call = result]
<1>1. req[r] \in RequestType
  BY DEF Inv, TypeOK
<1>2. GoodRequest(req[r])
  BY DEF Inv
<1>3. q \in RequestType
  BY <1>1 DEF RequestType, Results
<1>4. req' = [req EXCEPT ![r] = q]
  BY <1>1 DEF Inv, TypeOK
<1>5. /\ q.call = result /\ q.stage = req[r].stage
      /\ q.input = req[r].input /\ q.code = req[r].code
      /\ q.identified = req[r].identified /\ q.audit = req[r].audit
  BY <1>1, ZenonT(30) DEF RequestType
<1> HIDE DEF q
<1>6. GoodRequest(q)
  BY <1>2, <1>5 DEF GoodRequest
<1> QED
  BY <1>3, <1>4, <1>5, <1>6, MoveStep, ZenonT(30)

\* The handler sends its call.
LEMMA SendStep ==
    ASSUME Inv, NEW r \in Requests, SendCall(r)
    PROVE  Inv'
<1>1. req[r].stage = "handling" /\ req[r].input.method # "GET"
  BY DEF SendCall, Step, Reads
<1>2. req[r].identified /\ Authorized(req[r].input)
  BY <1>1 DEF Inv, GoodRequest
<1>3. /\ req' = [req EXCEPT ![r].call = "outstanding"]
      /\ UNCHANGED <<process, config, starts, inFlight>>
  BY DEF SendCall, Step
<1> QED
  BY <1>1, <1>2, <1>3, CallStep, Zenon DEF Answered

\* The API server handles a call: a success is never answered before.
LEMMA ServerStep ==
    ASSUME Inv, NEW r \in Requests, ServerHandles(r)
    PROVE  Inv'
<1>1. PICK result \in {"applied", "refused", "gone"} :
        req' = [req EXCEPT ![r].call = result]
  BY Zenon DEF ServerHandles, Results
<1>2. /\ req[r].call = "outstanding"
      /\ UNCHANGED <<process, config, starts, inFlight>>
  BY DEF ServerHandles
<1>3. GoodRequest(req[r])
  BY DEF Inv
<1>4. req[r].identified /\ Authorized(req[r].input)
  BY <1>2, <1>3 DEF GoodRequest
<1>5. req[r].input.method # "GET"
  BY <1>4 DEF Authorized
<1>6. /\ req[r].stage \in Answered => req[r].code \notin Successes
      /\ req[r].stage \in Answered => req[r].code \in Successes \cup {503}
      /\ req[r].stage \notin {"unsent", "routing", "verifying", "identified"}
  BY <1>2, <1>3, <1>4, <1>5 DEF GoodRequest
<1> QED
  BY <1>1, <1>2, <1>4, <1>6, CallStep, ZenonT(30)

\* The code of a mutation fits its call.
LEMMA MutationCodes ==
    ASSUME NEW method \in Methods,
           NEW call \in {"none", "outstanding", "applied", "refused", "gone"},
           NEW code \in AnswerCodes(method, call)
    PROVE  /\ code \in Codes
           /\ call \in {"outstanding", "applied"} =>
                code \in Successes \cup {503}
           /\ code \in Successes =>
                call = "applied" \/ (call = "gone" /\ method = "DELETE")
<1>1. SuccessCode(method) \in Successes
  BY DEF SuccessCode, Successes
<1>2. RejectCodes(method) \subseteq {400, 404, 409, 413, 415}
  BY DEF RejectCodes
<1>3. CASE call = "applied"
  <2>1. code \in {503, SuccessCode(method)}
    BY <1>3 DEF AnswerCodes
  <2>2. code \in {200, 201, 204, 503}
    BY <1>1, <2>1 DEF Successes
  <2> QED
    BY <1>3, <2>2 DEF Codes, Successes
<1>4. CASE call = "none"
  <2>1. code = 503 \/ code \in RejectCodes(method)
    BY <1>4 DEF AnswerCodes
  <2> QED
    BY <1>2, <1>4, <2>1 DEF Codes, Successes
<1>5. CASE call \in {"refused", "outstanding"}
  <2>1. code \in {503, 409} /\ (call = "outstanding" => code = 503)
    BY <1>5 DEF AnswerCodes
  <2> QED
    BY <1>5, <2>1 DEF Codes, Successes
<1>6. CASE call = "gone"
  <2>1. code = 503 \/ (code = 204 /\ method = "DELETE")
    BY <1>6 DEF AnswerCodes
  <2> QED
    BY <1>6, <2>1 DEF Codes, Successes
<1> QED
  BY <1>3, <1>4, <1>5, <1>6

\* The handler of a mutation answers.
LEMMA MutationStep ==
    ASSUME Inv, NEW r \in Requests, AnswerMutation(r)
    PROVE  Inv'
<1>1. PICK code \in AnswerCodes(req[r].input.method, req[r].call) :
        Respond(r, code)
  BY DEF AnswerMutation
<1>2. req[r] \in RequestType
  BY DEF Inv, TypeOK
<1>3. /\ req[r].input.method \in Methods
      /\ req[r].call \in {"none", "outstanding", "applied", "refused", "gone"}
  BY <1>2 DEF RequestType, InputType, Results
<1>4. req[r].stage \in Active /\ UNCHANGED <<process, config, starts>>
  BY DEF AnswerMutation, Step, Active
<1> QED
  BY <1>1, <1>3, <1>4, MutationCodes, RespondStep

\* The audit record is written, or not.
LEMMA AuditStep ==
    ASSUME Inv, NEW r \in Requests, AuditLogging(r)
    PROVE  Inv'
<1> DEFINE outcome == IF /\ req[r].identified
                         /\ isAuditedMutation(req[r].input.method)
                      THEN auditOutcome(req[r].code)
                      ELSE "none"
           q == [req[r] EXCEPT !.stage = "audited", !.audit = outcome]
<1>1. req[r] \in RequestType
  BY DEF Inv, TypeOK
<1>2. GoodRequest(req[r]) /\ req[r].stage = "answered"
  BY DEF Inv, AuditLogging, Step
<1>3. outcome \in Outcomes
  BY DEF Outcomes, auditOutcome
<1>4. req' = [req EXCEPT ![r] = q]
  BY DEF AuditLogging
<1>5. UNCHANGED <<process, config, starts, inFlight>>
  BY DEF AuditLogging, Step
<1>6. outcome = IF /\ req[r].identified
                   /\ isAuditedMutation(req[r].input.method)
                THEN auditOutcome(req[r].code) ELSE "none"
  OBVIOUS
<1> HIDE DEF outcome
<1>7. q \in RequestType
  BY <1>1, <1>3, Zenon DEF RequestType, Active
<1>8. /\ q.stage = "audited" /\ q.audit = outcome
      /\ q.call = req[r].call /\ q.input = req[r].input
      /\ q.code = req[r].code /\ q.identified = req[r].identified
  BY <1>1 DEF RequestType
<1> HIDE DEF q
<1>9. GoodRequest(q)
  BY <1>2, <1>6, <1>8 DEF GoodRequest, Answered
<1>10. q.stage \in Active /\ req[r].stage \in Active
  BY <1>2, <1>8 DEF Active
<1> QED
  BY <1>4, <1>5, <1>7, <1>8, <1>9, <1>10, MoveStep, Zenon

\* Every step keeps the invariant.
LEMMA NextInv == Inv /\ [Next]_vars => Inv'
<1> SUFFICES ASSUME Inv, [Next]_vars PROVE Inv'
  OBVIOUS
<1>1. CASE UNCHANGED vars
  BY <1>1
  DEF vars, Inv, TypeOK, Configured, GaugeIsExact, InProcess, Counted
<1>2. CASE Start \/ NewOIDCVerifier \/ NotifyContext \/ Signal
  BY <1>2, ProcessStep
<1>3. CASE LivenessProbe \/ Crash \/ Drained \/ ShutdownTimeout
  BY <1>3, ExitStep DEF LivenessProbe, Crash, Drained, ShutdownTimeout
<1>4. ASSUME NEW r \in Requests,
             Accept(r) \/ Verify(r) \/ ServerHandles(r) \/ Handler(r)
      PROVE  Inv'
  BY <1>4, AcceptStep, VerifyStep, ServerStep, WayInStep, ReadStep, SendStep,
     MutationStep, AuditStep, FinishStep DEF Handler
<1> QED
  BY <1>1, <1>2, <1>3, <1>4 DEF Next

\* The inductive invariant holds in every reachable state of the process, its
\* wrappers and its handlers.
THEOREM Invariance == Spec => []Inv
<1> QED
  BY InitInv, NextInv, PTL DEF Spec

\* Every variable keeps its type: every status code and audit outcome is one
\* of those the code writes.
THEOREM TypeCorrectness == Spec => []TypeOK
<1>1. Inv => TypeOK
  BY DEF Inv
<1> QED
  BY <1>1, Invariance, PTL

\* The gauge of RequestMetrics is the number of requests in the process.
THEOREM GaugeIsRight == Spec => []GaugeIsExact
<1>1. Inv => GaugeIsExact
  BY DEF Inv
<1> QED
  BY <1>1, Invariance, PTL

\* No call changes the cluster without the role that newRouter asks for.
THEOREM OnlyAuthorizedCalls == Spec => []CallsAreAuthorized
<1>1. Inv => CallsAreAuthorized
  BY ZenonT(30) DEF Inv, GoodRequest, CallsAreAuthorized
<1> QED
  BY <1>1, Invariance, PTL

\* The record AuditLogging writes agrees with what became of the cluster.
THEOREM AuditIsTruthful == Spec => []AuditTellsEffect
<1>1. ASSUME Inv PROVE AuditTellsEffect
  <2> SUFFICES ASSUME NEW r \in Requests,
                      req[r].stage \in {"audited", "done"}
               PROVE  /\ req[r].call \in {"outstanding", "applied"} =>
                           req[r].audit \in {"success", "error"}
                      /\ req[r].audit = "success" =>
                           \/ req[r].call = "applied"
                           \/ /\ req[r].call = "gone"
                              /\ req[r].input.method = "DELETE"
    BY DEF AuditTellsEffect, AuditFits
  <2>1. req[r] \in RequestType
    BY <1>1 DEF Inv, TypeOK
  <2>2. GoodRequest(req[r])
    BY <1>1 DEF Inv
  <2>3. req[r].code \in Codes
    BY <2>1 DEF RequestType
  <2>4. auditOutcome(req[r].code) = "success" => req[r].code \in Successes
    BY <2>3, SMTT(30) DEF auditOutcome, Codes, Successes
  <2>5. req[r].code \in Successes \cup {503} =>
          auditOutcome(req[r].code) \in {"success", "error"}
    BY DEF auditOutcome, Successes
  <2>6. req[r].call # "none" =>
          req[r].identified /\ isAuditedMutation(req[r].input.method)
    BY <2>2 DEF GoodRequest, Authorized, isAuditedMutation
  <2>7. isAuditedMutation(req[r].input.method) => req[r].input.method # "GET"
    BY DEF isAuditedMutation
  <2> QED
    BY <2>2, <2>4, <2>5, <2>6, <2>7 DEF GoodRequest, Answered
<1>2. Inv => AuditTellsEffect
  BY <1>1
<1> QED
  BY <1>2, Invariance, PTL

\* Whatever the environment of the container, requests are only handled with
\* at least one replica allowed and no setting blank.
THEOREM ConfigurationIsUsable == Spec => []ServesConfigured
<1>1. Inv => ServesConfigured
  BY DEF Inv, Configured, ServesConfigured, Listening
<1> QED
  BY <1>1, Invariance, PTL

(***************************************************************************)
(* What the client of a mutation sees at the far end of the wrappers       *)
(***************************************************************************)

\* An answer on its way out of the wrappers fits the call.
Fits(q) ==
    q.stage \in Answered /\ LetThrough(q) =>
        q.code \in AnswerCodes(q.input.method, q.call)

AnswersFit == \A r \in Requests : Fits(req[r])

\* The outline and the handlers answer with the same codes.
LEMMA SameAnswers ==
    /\ Mutation!Results = Results
    /\ \A m, c : Mutation!AnswerCodes(m, c) = AnswerCodes(m, c)
  BY Zenon DEF Mutation!Results, Results, Mutation!AnswerCodes, AnswerCodes,
     Mutation!SuccessCode, SuccessCode, Mutation!RejectCodes, RejectCodes

\* Whether a request is let through depends on its identity and its input.
LEMMA LetThroughSame ==
    ASSUME NEW p, NEW q, q.identified = p.identified, q.input = p.input
    PROVE  LetThrough(q) <=> LetThrough(p)
  BY Zenon DEF LetThrough

\* What the client sees of a request, case by case.
LEMMA SentCases ==
    ASSUME NEW q
    PROVE  /\ ~LetThrough(q) =>
                Sent(q) = [stage |-> "handling", method |-> "none",
                           call |-> q.call, code |-> 0]
           /\ LetThrough(q) /\ q.stage \notin {"done", "lost"} =>
                Sent(q) = [stage |-> "handling", method |-> q.input.method,
                           call |-> q.call, code |-> 0]
           /\ LetThrough(q) /\ q.stage = "done" =>
                Sent(q) = [stage |-> "answered", method |-> q.input.method,
                           call |-> q.call, code |-> q.code]
           /\ LetThrough(q) /\ q.stage = "lost" =>
                Sent(q) = [stage |-> "lost", method |-> q.input.method,
                           call |-> q.call, code |-> 0]
<1>1. ~LetThrough(q) =>
        Sent(q) = [stage |-> "handling", method |-> "none", call |-> q.call,
                   code |-> 0]
  BY Zenon DEF Sent
<1>2. LetThrough(q) =>
        Sent(q) = [stage  |-> CASE q.stage = "done" -> "answered"
                                [] q.stage = "lost" -> "lost"
                                [] OTHER            -> "handling",
                   method |-> q.input.method,
                   call   |-> q.call,
                   code   |-> IF q.stage = "done" THEN q.code ELSE 0]
  BY Zenon DEF Sent
<1> QED
  BY <1>1, <1>2

\* A request that is let through is a mutation.
LEMMA LetThroughMutates ==
    ASSUME NEW q \in RequestType, LetThrough(q)
    PROVE  q.input.method \in {"POST", "PUT", "PATCH", "DELETE"}
<1>1. q.input \in InputType
  BY DEF RequestType
<1> QED
  BY <1>1 DEF LetThrough, InputType, Methods

\* A step of one request changes what one client sees.
LEMMA OneSent ==
    ASSUME Inv, NEW r \in Requests, NEW q, req' = [req EXCEPT ![r] = q]
    PROVE  /\ SentRequests' = [SentRequests EXCEPT ![r] = Sent(q)]
           /\ SentRequests[r] = Sent(req[r])
           /\ Sent(q) = Sent(req[r]) => UNCHANGED SentRequests
<1>1. \A x \in Requests : req'[x] = IF x = r THEN q ELSE req[x]
  BY Zenon DEF Inv, TypeOK
<1>2. SentRequests' = [SentRequests EXCEPT ![r] = Sent(q)]
  BY Zenon DEF Inv, TypeOK, SentRequests
<1>3. SentRequests[r] = Sent(req[r])
  BY Zenon DEF SentRequests
<1> QED
  BY <1>1, <1>2, <1>3, Zenon DEF SentRequests

\* Only the request that takes a step needs to be looked at.
LEMMA OneFits ==
    ASSUME Inv, AnswersFit, NEW r \in Requests, NEW q,
           req' = [req EXCEPT ![r] = q], Fits(q)
    PROVE  AnswersFit'
<1>1. \A x \in Requests : req'[x] = IF x = r THEN q ELSE req[x]
  BY Zenon DEF Inv, TypeOK
<1> QED
  BY <1>1, Zenon DEF AnswersFit, Fits

\* The client does not see how its request passes through the wrappers.
LEMMA Unseen ==
    ASSUME Inv, AnswersFit, NEW r \in Requests, NEW q,
           req' = [req EXCEPT ![r] = q],
           q.input = req[r].input, q.identified = req[r].identified,
           q.call = req[r].call,
           q.stage \notin {"done", "lost"},
           req[r].stage \notin {"done", "lost"},
           Fits(q)
    PROVE  UNCHANGED SentRequests /\ AnswersFit'
<1>1. LetThrough(q) <=> LetThrough(req[r])
  BY LetThroughSame, Zenon
<1>2. Sent(q) = Sent(req[r])
  <2>1. CASE LetThrough(q)
    <3>1. Sent(q) = [stage |-> "handling", method |-> q.input.method,
                     call |-> q.call, code |-> 0]
      BY <2>1, SentCases
    <3>2. Sent(req[r]) = [stage |-> "handling", method |-> req[r].input.method,
                          call |-> req[r].call, code |-> 0]
      BY <1>1, <2>1, SentCases
    <3> QED
      BY <3>1, <3>2, Zenon
  <2>2. CASE ~LetThrough(q)
    <3>1. Sent(q) = [stage |-> "handling", method |-> "none",
                     call |-> q.call, code |-> 0]
      BY <2>2, SentCases
    <3>2. Sent(req[r]) = [stage |-> "handling", method |-> "none",
                          call |-> req[r].call, code |-> 0]
      BY <1>1, <2>2, SentCases
    <3> QED
      BY <3>1, <3>2, Zenon
  <2> QED
    BY <2>1, <2>2
<1> QED
  BY <1>2, OneSent, OneFits, Zenon

\* A request becomes answered with a code and nothing else changes.
LEMMA RespondUnseen ==
    ASSUME Inv, AnswersFit, NEW r \in Requests, NEW code, Respond(r, code),
           req[r].stage \notin {"done", "lost"},
           LetThrough(req[r]) =>
               code \in AnswerCodes(req[r].input.method, req[r].call)
    PROVE  UNCHANGED SentRequests /\ AnswersFit'
<1> DEFINE q == [req[r] EXCEPT !.stage = "answered", !.code = code]
<1>1. req[r] \in RequestType
  BY DEF Inv, TypeOK
<1>2. req' = [req EXCEPT ![r] = q]
  BY Zenon DEF Respond
<1>3. /\ q.stage = "answered" /\ q.code = code
      /\ q.input = req[r].input /\ q.call = req[r].call
      /\ q.identified = req[r].identified
  BY <1>1 DEF RequestType
<1> HIDE DEF q
<1>4. Fits(q)
  BY <1>3, LetThroughSame, Zenon DEF Fits
<1>5. q.stage \notin {"done", "lost"}
  BY <1>3
<1> QED
  BY <1>2, <1>3, <1>4, <1>5, Unseen, Zenon

\* A request is passed on to the next wrapper or to its handler.
LEMMA MoveUnseen ==
    ASSUME Inv, AnswersFit, NEW r \in Requests,
           NEW stage \in {"verifying", "handling"}, MoveTo(r, stage),
           req[r].stage \notin {"done", "lost"}
    PROVE  UNCHANGED SentRequests /\ AnswersFit'
<1> DEFINE q == [req[r] EXCEPT !.stage = stage]
<1>1. req[r] \in RequestType
  BY DEF Inv, TypeOK
<1>2. req' = [req EXCEPT ![r] = q]
  BY <1>1 DEF MoveTo, Inv, TypeOK
<1>3. /\ q.stage = stage
      /\ q.input = req[r].input /\ q.call = req[r].call
      /\ q.identified = req[r].identified
  BY <1>1 DEF RequestType
<1> HIDE DEF q
<1>4. Fits(q) /\ q.stage \notin {"done", "lost"}
  BY <1>3 DEF Fits, Answered
<1> QED
  BY <1>2, <1>3, <1>4, Unseen, Zenon

\* A request that enters the process has no identity yet.
LEMMA AcceptUnseen ==
    ASSUME Inv, AnswersFit, NEW r \in Requests, Accept(r)
    PROVE  UNCHANGED SentRequests /\ AnswersFit'
<1>1. PICK input \in Inputs :
        req' = [req EXCEPT ![r] = [@ EXCEPT !.stage = "routing",
                                            !.input = input]]
  BY Zenon DEF Accept
<1> DEFINE q == [req[r] EXCEPT !.stage = "routing", !.input = input]
<1>2. req[r] \in RequestType
  BY DEF Inv, TypeOK
<1>3. ~req[r].identified
  BY Zenon DEF Inv, Accept, GoodRequest
<1>4. req' = [req EXCEPT ![r] = q]
  BY <1>1
<1>5. /\ q.call = req[r].call /\ q.identified = req[r].identified
  BY <1>2 DEF RequestType
<1> HIDE DEF q
<1>6. ~LetThrough(q) /\ ~LetThrough(req[r])
  BY <1>3, <1>5, Zenon DEF LetThrough
<1>7. /\ Sent(q) = [stage |-> "handling", method |-> "none", call |-> q.call,
                    code |-> 0]
      /\ Sent(req[r]) = [stage |-> "handling", method |-> "none",
                         call |-> req[r].call, code |-> 0]
  BY <1>6, SentCases
<1>8. Sent(q) = Sent(req[r])
  BY <1>5, <1>7, Zenon
<1>9. Fits(q)
  BY <1>6, Zenon DEF Fits
<1> QED
  BY <1>4, <1>8, <1>9, OneSent, OneFits, Zenon

\* A mutation that will be let through begins when its sender is known.
LEMMA VerifySeen ==
    ASSUME Inv, AnswersFit, NEW r \in Requests, Verify(r)
    PROVE  (UNCHANGED SentRequests \/ Mutation!Next) /\ AnswersFit'
<1>1. req[r] \in RequestType
  BY DEF Inv, TypeOK
<1>2. ~req[r].identified /\ req[r].call = "none" /\ req[r].stage = "verifying"
  BY Zenon DEF Inv, Verify, Step, GoodRequest
<1>3. ~LetThrough(req[r])
  BY <1>2, Zenon DEF LetThrough
<1>4. CASE Respond(r, 401)
  <2>1. req[r].stage \notin {"done", "lost"}
    BY <1>2
  <2> QED
    BY <1>3, <1>4, <2>1, RespondUnseen, ZenonT(30)
<1>5. CASE req' = [req EXCEPT ![r] = [@ EXCEPT !.stage = "identified",
                                               !.identified = TRUE]]
  <2> DEFINE q == [req[r] EXCEPT !.stage = "identified", !.identified = TRUE]
  <2>1. req' = [req EXCEPT ![r] = q]
    BY <1>5
  <2>2. q.stage = "identified" /\ q.call = "none" /\ q \in RequestType
    BY <1>1, <1>2, Zenon DEF RequestType, Active
  <2> HIDE DEF q
  <2>3. AnswersFit'
    <3>1. Fits(q)
      BY <2>2 DEF Fits, Answered
    <3> QED
      BY <2>1, <3>1, OneFits, Zenon
  <2>4. Sent(req[r]) = [stage |-> "handling", method |-> "none",
                        call |-> "none", code |-> 0]
    BY <1>2, <1>3, SentCases
  <2>5. CASE LetThrough(q)
    <3>1. Sent(q) = [stage |-> "handling", method |-> q.input.method,
                     call |-> "none", code |-> 0]
      BY <2>2, <2>5, SentCases
    <3>2. /\ SentRequests' = [SentRequests EXCEPT ![r] = Sent(q)]
          /\ SentRequests[r] = Sent(req[r])
      BY <2>1, OneSent, Zenon
    <3>3. /\ SentRequests[r].stage = "handling"
          /\ SentRequests[r].method = "none" /\ SentRequests[r].call = "none"
          /\ SentRequests[r].code = 0
      BY <2>4, <3>2
    <3>4. Mutation!Begin(r, q.input.method)
      BY <3>1, <3>2, <3>3, Zenon
      DEF Mutation!Begin, Mutation!Handles, Mutation!Become
    <3>5. q.input.method \in {"POST", "PUT", "PATCH", "DELETE"}
      BY <2>2, <2>5, LetThroughMutates, Zenon
    <3> QED
      BY <2>3, <3>4, <3>5, Zenon DEF Mutation!Next
  <2>6. CASE ~LetThrough(q)
    <3>1. Sent(q) = Sent(req[r])
      BY <2>2, <2>4, <2>6, SentCases
    <3> QED
      BY <2>1, <2>3, <3>1, OneSent, Zenon
  <2> QED
    BY <2>5, <2>6, Zenon
<1> QED
  BY <1>4, <1>5, Zenon DEF Verify

\* What the wrappers answer on the way in is not for a request that would
\* have been let through.
LEMMA WayInUnseen ==
    ASSUME Inv, AnswersFit, NEW r \in Requests,
           ServeOpen(r) \/ BearerToken(r) \/ Dispatch(r)
    PROVE  UNCHANGED SentRequests /\ AnswersFit'
<1>1. req[r].stage \in {"routing", "identified"}
  BY Zenon DEF ServeOpen, BearerToken, Dispatch, Step
<1>2. req[r].stage \notin {"done", "lost"}
  BY <1>1
<1>3. ASSUME NEW code, Respond(r, code), ~LetThrough(req[r])
      PROVE  UNCHANGED SentRequests /\ AnswersFit'
  BY <1>2, <1>3, RespondUnseen, Zenon
<1>4. ASSUME NEW stage \in {"verifying", "handling"}, MoveTo(r, stage)
      PROVE  UNCHANGED SentRequests /\ AnswersFit'
  BY <1>2, <1>4, MoveUnseen, Zenon
<1>5. CASE ServeOpen(r) \/ BearerToken(r)
  <2>1. req[r].stage = "routing"
    BY <1>5, Zenon DEF ServeOpen, BearerToken, Step
  <2>2. ~LetThrough(req[r])
    BY <2>1, Zenon DEF Inv, GoodRequest, LetThrough
  <2>3. \/ \E code : Respond(r, code)
        \/ \E stage \in {"verifying", "handling"} : MoveTo(r, stage)
    BY <1>5, ZenonT(30) DEF ServeOpen, BearerToken
  <2> QED
    BY <1>3, <1>4, <2>2, <2>3, Zenon
<1>6. CASE Dispatch(r)
  <2> DEFINE input == req[r].input
  <2>1. Allowed("other") = {}
    BY DEF Allowed
  <2>2. \/ (\E code : Respond(r, code)) /\ ~LetThrough(req[r])
        \/ MoveTo(r, "handling")
    <3>1. \/ input.route = "other" /\ Respond(r, 404)
          \/ input.method \notin Allowed(input.route) /\ Respond(r, 405)
          \/ ~HasRole(input) /\ Respond(r, 403)
          \/ MoveTo(r, "handling")
      BY <1>6, ZenonT(30) DEF Dispatch
    <3>2. \/ input.route = "other"
          \/ input.method \notin Allowed(input.route)
          \/ ~HasRole(input)
          => ~LetThrough(req[r])
      BY <2>1, Zenon DEF LetThrough
    <3> QED
      BY <3>1, <3>2, Zenon
  <2> QED
    BY <1>3, <1>4, <2>2, Zenon
<1> QED
  BY <1>5, <1>6

\* The handlers answer: the readers no mutation, the others what fits.
LEMMA AnswerUnseen ==
    ASSUME Inv, AnswersFit, NEW r \in Requests,
           \/ List(r) \/ Get(r) \/ GetStatus(r) \/ Readiness(r)
           \/ AnswerMutation(r)
    PROVE  UNCHANGED SentRequests /\ AnswersFit'
<1>1. req[r].stage = "handling"
  BY Zenon DEF List, Get, GetStatus, Readiness, AnswerRead, AnswerMutation, Step
<1>2. req[r].stage \notin {"done", "lost"}
  BY <1>1
<1>3. PICK code : /\ Respond(r, code)
                  /\ \/ req[r].input.method = "GET"
                     \/ code \in AnswerCodes(req[r].input.method, req[r].call)
  BY ZenonT(30) DEF List, Get, GetStatus, Readiness, AnswerRead, AnswerMutation, Reads
<1>4. req[r].input.method = "GET" => ~LetThrough(req[r])
  BY Zenon DEF LetThrough
<1> QED
  BY <1>2, <1>3, <1>4, RespondUnseen, Zenon

\* The audit wrapper passes the code on.
LEMMA AuditUnseen ==
    ASSUME Inv, AnswersFit, NEW r \in Requests, AuditLogging(r)
    PROVE  UNCHANGED SentRequests /\ AnswersFit'
<1>1. PICK a : req' = [req EXCEPT ![r] = [@ EXCEPT !.stage = "audited",
                                                   !.audit = a]]
  BY Zenon DEF AuditLogging
<1> DEFINE q == [req[r] EXCEPT !.stage = "audited", !.audit = a]
<1>2. req[r] \in RequestType /\ Fits(req[r]) /\ req[r].stage = "answered"
  BY Zenon DEF Inv, TypeOK, AnswersFit, AuditLogging, Step
<1>3. req' = [req EXCEPT ![r] = q]
  BY <1>1
<1>4. /\ q.stage = "audited"
      /\ q.input = req[r].input /\ q.identified = req[r].identified
      /\ q.call = req[r].call /\ q.code = req[r].code
  BY <1>2, Zenon DEF RequestType
<1> HIDE DEF q
<1>5. /\ q.stage \notin {"done", "lost"} /\ req[r].stage \notin {"done", "lost"}
      /\ req[r].stage \in Answered
  BY <1>2, <1>4 DEF Answered
<1>6. Fits(q)
  BY <1>2, <1>4, <1>5, LetThroughSame, Zenon DEF Fits
<1> QED
  BY <1>3, <1>4, <1>5, <1>6, Unseen, Zenon

\* The handler that sends a call was let through.
LEMMA SendSeen ==
    ASSUME Inv, AnswersFit, NEW r \in Requests, SendCall(r)
    PROVE  Mutation!Next /\ AnswersFit'
<1> DEFINE q == [req[r] EXCEPT !.call = "outstanding"]
<1>1. req[r] \in RequestType
  BY DEF Inv, TypeOK
<1>2. /\ req[r].stage = "handling" /\ req[r].call = "none"
      /\ req[r].input.method # "GET"
  BY Zenon DEF SendCall, Step, Reads
<1>3. req' = [req EXCEPT ![r] = q]
  BY <1>1 DEF SendCall, Inv, TypeOK
<1>4. /\ q.stage = "handling" /\ q.call = "outstanding"
      /\ q.input = req[r].input /\ q.identified = req[r].identified
  BY <1>1, <1>2, Zenon DEF RequestType
<1> HIDE DEF q
<1>5. LetThrough(req[r])
  <2>1. req[r].identified /\ Authorized(req[r].input)
    BY <1>2, Zenon DEF Inv, GoodRequest
  <2> QED
    BY <2>1 DEF Authorized, LetThrough, HasRole, RequiredRole, Allowed
<1>6. /\ Sent(q) = [stage |-> "handling", method |-> req[r].input.method,
                    call |-> "outstanding", code |-> 0]
      /\ Sent(req[r]) = [stage |-> "handling", method |-> req[r].input.method,
                         call |-> "none", code |-> 0]
  <2>1. LetThrough(q)
    BY <1>4, <1>5, LetThroughSame, Zenon
  <2> QED
    BY <1>2, <1>4, <1>5, <2>1, SentCases
<1>7. /\ SentRequests' = [SentRequests EXCEPT ![r] = Sent(q)]
      /\ SentRequests[r] = Sent(req[r])
  BY <1>3, OneSent, Zenon
<1>8. /\ SentRequests[r].stage = "handling" /\ SentRequests[r].call = "none"
      /\ SentRequests[r].method = req[r].input.method
      /\ SentRequests[r].code = 0
  BY <1>6, <1>7
<1>9. Mutation!SendCall(r, req[r].input.method)
  BY <1>6, <1>7, <1>8, Zenon
  DEF Mutation!SendCall, Mutation!Handles, Mutation!Become
<1>10. req[r].input.method \in {"POST", "PUT", "PATCH", "DELETE"}
  BY <1>1, <1>5, LetThroughMutates, Zenon
<1>11. Fits(q)
  BY <1>4 DEF Fits, Answered
<1> QED
  BY <1>3, <1>9, <1>10, <1>11, OneFits, Zenon DEF Mutation!Next

\* The API server handles the call of a handler that may have answered, with
\* 503, or may be lost.
LEMMA ServerSeen ==
    ASSUME Inv, AnswersFit, NEW r \in Requests, ServerHandles(r)
    PROVE  Mutation!Next /\ AnswersFit'
<1>1. PICK result \in Results : req' = [req EXCEPT ![r].call = result]
  BY Zenon DEF ServerHandles
<1> DEFINE q == [req[r] EXCEPT !.call = result]
<1>2. req[r] \in RequestType /\ Fits(req[r]) /\ req[r].call = "outstanding"
  BY Zenon DEF Inv, TypeOK, AnswersFit, ServerHandles
<1>3. req' = [req EXCEPT ![r] = q]
  BY <1>1, <1>2 DEF Inv, TypeOK
<1>4. /\ q.stage = req[r].stage /\ q.call = result
      /\ q.input = req[r].input /\ q.identified = req[r].identified
      /\ q.code = req[r].code
  BY <1>2, Zenon DEF RequestType
<1> HIDE DEF q
<1>5. LetThrough(q) <=> LetThrough(req[r])
  BY <1>4, LetThroughSame, Zenon
<1>6. Fits(q)
  <2>1. AnswerCodes(req[r].input.method, "outstanding") = {503}
    BY DEF AnswerCodes
  <2>2. 503 \in AnswerCodes(q.input.method, q.call)
    BY ZenonT(30) DEF AnswerCodes
  <2>3. q.stage \in Answered /\ LetThrough(q) => q.code = 503
    BY <1>2, <1>4, <1>5, <2>1 DEF Fits
  <2> QED
    BY <2>2, <2>3, Zenon DEF Fits
<1>7. /\ Sent(req[r]).call = "outstanding"
      /\ Sent(q) = [stage |-> Sent(req[r]).stage, method |-> Sent(req[r]).method,
                    call |-> result, code |-> Sent(req[r]).code]
  <2>1. CASE ~LetThrough(q)
    <3>1. Sent(q) = [stage |-> "handling", method |-> "none",
                     call |-> result, code |-> 0]
      BY <1>4, <1>5, <2>1, SentCases
    <3>2. Sent(req[r]) = [stage |-> "handling", method |-> "none",
                          call |-> "outstanding", code |-> 0]
      BY <1>2, <1>4, <1>5, <2>1, SentCases
    <3> QED
      BY <3>1, <3>2
  <2>2. CASE LetThrough(q) /\ q.stage \notin {"done", "lost"}
    <3>1. Sent(q) = [stage |-> "handling", method |-> req[r].input.method,
                     call |-> result, code |-> 0]
      BY <1>4, <1>5, <2>2, SentCases
    <3>2. Sent(req[r]) = [stage |-> "handling", method |-> req[r].input.method,
                          call |-> "outstanding", code |-> 0]
      BY <1>2, <1>4, <1>5, <2>2, SentCases
    <3> QED
      BY <3>1, <3>2
  <2>3. CASE LetThrough(q) /\ q.stage = "done"
    <3>1. Sent(q) = [stage |-> "answered", method |-> req[r].input.method,
                     call |-> result, code |-> q.code]
      BY <1>4, <1>5, <2>3, SentCases
    <3>2. Sent(req[r]) = [stage |-> "answered", method |-> req[r].input.method,
                          call |-> "outstanding", code |-> q.code]
      BY <1>2, <1>4, <1>5, <2>3, SentCases, Zenon
    <3> QED
      BY <3>1, <3>2
  <2>4. CASE LetThrough(q) /\ q.stage = "lost"
    <3>1. Sent(q) = [stage |-> "lost", method |-> req[r].input.method,
                     call |-> result, code |-> 0]
      BY <1>4, <1>5, <2>4, SentCases
    <3>2. Sent(req[r]) = [stage |-> "lost", method |-> req[r].input.method,
                          call |-> "outstanding", code |-> 0]
      BY <1>2, <1>4, <1>5, <2>4, SentCases, Zenon
    <3> QED
      BY <3>1, <3>2
  <2> QED
    BY <2>1, <2>2, <2>3, <2>4
<1>8. /\ SentRequests' = [SentRequests EXCEPT ![r] = Sent(q)]
      /\ SentRequests[r] = Sent(req[r])
  BY <1>3, OneSent, Zenon
<1>9. Mutation!ServerHandles(r)
  BY <1>7, <1>8, SameAnswers, Zenon DEF Mutation!ServerHandles, Mutation!Become
<1> QED
  BY <1>3, <1>6, <1>9, OneFits, Zenon DEF Mutation!Next

\* The answer of a mutation is complete when net/http has flushed it.
LEMMA FinishSeen ==
    ASSUME Inv, AnswersFit, NEW r \in Requests, Finish(r)
    PROVE  (UNCHANGED SentRequests \/ Mutation!Next) /\ AnswersFit'
<1> DEFINE q == [req[r] EXCEPT !.stage = "done"]
<1>1. req[r] \in RequestType /\ Fits(req[r]) /\ req[r].stage = "audited"
  BY Zenon DEF Inv, TypeOK, AnswersFit, Finish, Step
<1>2. req' = [req EXCEPT ![r] = q]
  BY <1>1 DEF Finish, Inv, TypeOK
<1>3. /\ q.stage = "done" /\ q.call = req[r].call /\ q.code = req[r].code
      /\ q.input = req[r].input /\ q.identified = req[r].identified
  BY <1>1, Zenon DEF RequestType
<1> HIDE DEF q
<1>4. LetThrough(q) <=> LetThrough(req[r])
  BY <1>3, LetThroughSame, Zenon
<1>5. req[r].stage \in Answered /\ req[r].stage \notin {"done", "lost"}
  BY <1>1 DEF Answered
<1>6. Fits(q)
  BY <1>1, <1>3, <1>4, <1>5, Zenon DEF Fits
<1>7. AnswersFit'
  BY <1>2, <1>6, OneFits, Zenon
<1>8. CASE ~LetThrough(q)
  <2>1. Sent(q) = [stage |-> "handling", method |-> "none",
                   call |-> q.call, code |-> 0]
    BY <1>8, SentCases
  <2>2. Sent(req[r]) = [stage |-> "handling", method |-> "none",
                        call |-> req[r].call, code |-> 0]
    BY <1>4, <1>8, SentCases
  <2>3. Sent(q) = Sent(req[r])
    BY <1>3, <2>1, <2>2, Zenon
  <2> QED
    BY <1>2, <1>7, <2>3, OneSent, Zenon
<1>9. CASE LetThrough(q)
  <2>1. Sent(q) = [stage |-> "answered", method |-> q.input.method,
                   call |-> q.call, code |-> q.code]
    BY <1>3, <1>9, SentCases
  <2>2. Sent(req[r]) = [stage |-> "handling", method |-> req[r].input.method,
                        call |-> req[r].call, code |-> 0]
    BY <1>4, <1>5, <1>9, SentCases
  <2>3. /\ SentRequests' = [SentRequests EXCEPT ![r] = Sent(q)]
        /\ SentRequests[r] = Sent(req[r])
    BY <1>2, OneSent, Zenon
  <2>4. /\ SentRequests[r].stage = "handling"
        /\ SentRequests[r].method = q.input.method
        /\ SentRequests[r].call = q.call
    BY <1>3, <2>2, <2>3
  <2>5. q.code \in Mutation!AnswerCodes(q.input.method, q.call)
    <3>1. q.stage \in Answered
      BY <1>3 DEF Answered
    <3> QED
      BY <1>6, <1>9, <3>1, SameAnswers DEF Fits
  <2>6. Mutation!Answer(r, q.input.method)
    BY <2>1, <2>3, <2>4, <2>5, Zenon
    DEF Mutation!Answer, Mutation!Handles, Mutation!Become
  <2>7. q.input.method \in {"POST", "PUT", "PATCH", "DELETE"}
    BY <1>1, <1>3, <1>4, <1>9, LetThroughMutates, Zenon
  <2> QED
    BY <1>7, <2>6, <2>7, Zenon DEF Mutation!Next
<1> QED
  BY <1>8, <1>9

\* The process dies with every handler that has begun and has not answered.
LEMMA ExitSeen ==
    ASSUME Inv, AnswersFit, Exit
    PROVE  Mutation!Next /\ AnswersFit'
<1>1. ASSUME NEW r \in Requests, r \in InProcess
      PROVE  /\ req'[r].stage = "lost"
             /\ req'[r].call = req[r].call
             /\ req'[r].input = req[r].input
             /\ req'[r].identified = req[r].identified
             /\ req[r].stage \in Active
  <2>1. req'[r] = [req[r] EXCEPT !.stage = "lost", !.code = 0]
    BY <1>1, Zenon DEF Exit
  <2>2. req[r] \in RequestType /\ req[r].stage \in Active
    BY <1>1, Zenon DEF Inv, TypeOK, InProcess
  <2> QED
    BY <2>1, <2>2, Zenon DEF RequestType
<1>2. ASSUME NEW r \in Requests, r \notin InProcess
      PROVE  req'[r] = req[r] /\ req[r].stage \in {"unsent", "done", "lost"}
  <2>1. req'[r] = req[r]
    BY <1>2, Zenon DEF Exit
  <2>2. req[r] \in RequestType
    BY DEF Inv, TypeOK
  <2>3. req[r].stage \in Active \cup {"unsent", "done", "lost"}
    BY <2>2, Zenon DEF RequestType
  <2> QED
    BY <1>2, <2>1, <2>3, Zenon DEF InProcess
<1>3. ASSUME NEW r \in Requests
      PROVE  Sent(req'[r]) =
               IF Sent(req[r]).stage = "handling" /\ Sent(req[r]).method # "none"
               THEN [Sent(req[r]) EXCEPT !.stage = "lost"] ELSE Sent(req[r])
  <2>0. req[r] \in RequestType /\ GoodRequest(req[r])
    BY Zenon DEF Inv, TypeOK
  <2>1. CASE r \in InProcess /\ LetThrough(req[r])
    <3>1. LetThrough(req'[r])
      BY <1>1, <2>1, LetThroughSame, Zenon
    <3>2. Sent(req'[r]) = [stage |-> "lost", method |-> req[r].input.method,
                           call |-> req[r].call, code |-> 0]
      BY <1>1, <2>1, <3>1, SentCases
    <3>3. Sent(req[r]) = [stage |-> "handling", method |-> req[r].input.method,
                          call |-> req[r].call, code |-> 0]
      BY <1>1, <2>1, SentCases DEF Active
    <3>4. req[r].input.method # "none"
      BY <2>0, <2>1, LetThroughMutates
    <3> QED
      BY <3>2, <3>3, <3>4
  <2>2. CASE ~LetThrough(req[r])
    <3>1. ~LetThrough(req'[r]) /\ req'[r].call = req[r].call
      BY <1>1, <1>2, <2>2, LetThroughSame, Zenon
    <3>2. Sent(req'[r]) = [stage |-> "handling", method |-> "none",
                           call |-> req[r].call, code |-> 0]
      BY <3>1, SentCases
    <3>3. Sent(req[r]) = [stage |-> "handling", method |-> "none",
                          call |-> req[r].call, code |-> 0]
      BY <2>2, SentCases
    <3>4. Sent(req[r]).method = "none"
      BY <3>3
    <3> QED
      BY <3>2, <3>3, <3>4, Zenon
  <2>3. CASE r \notin InProcess /\ LetThrough(req[r])
    <3>1. req[r].identified
      BY <2>3, Zenon DEF LetThrough
    <3>2. req[r].stage \in {"done", "lost"} /\ req'[r] = req[r]
      BY <1>2, <2>0, <2>3, <3>1 DEF GoodRequest
    <3>3. Sent(req[r]).stage \in {"answered", "lost"}
      BY <2>3, <3>2, SentCases
    <3>4. Sent(req[r]).stage # "handling"
      BY <3>3
    <3> QED
      BY <3>2, <3>4, Zenon
  <2> QED
    BY <2>1, <2>2, <2>3
<1>4. Mutation!Exit
  <2>1. \A r \in Requests : SentRequests[r] = Sent(req[r])
    BY Zenon DEF SentRequests
  <2>2. SentRequests' = [r \in Requests |-> Sent(req'[r])]
    BY Zenon DEF SentRequests
  <2> QED
    BY <1>3, <2>1, <2>2, Zenon DEF Mutation!Exit
<1>5. AnswersFit'
  <2> SUFFICES ASSUME NEW r \in Requests PROVE Fits(req'[r])
    BY Zenon DEF AnswersFit, Fits
  <2>1. CASE r \in InProcess
    BY <1>1, <2>1 DEF Fits, Answered
  <2>2. CASE r \notin InProcess
    BY <1>2, <2>2, Zenon DEF AnswersFit
  <2> QED
    BY <2>1, <2>2
<1> QED
  BY <1>4, <1>5, Zenon DEF Mutation!Next

\* At the far end of RequestID, logging, metrics, authentication, roles and
\* audit, over any number of restarts, a mutation is still a handler that
\* sends one call at most and is answered once, with a code that fits what
\* has become of the call when the answer is flushed.
THEOREM ClientsSeeHandlers == Spec => ClientsSeeOutline
<1>1. Init => Mutation!Init /\ AnswersFit
  <2> SUFFICES ASSUME Init PROVE Mutation!Init /\ AnswersFit
    OBVIOUS
  <2>1. /\ ~LetThrough(Unsent) /\ Unsent.call = "none"
        /\ Unsent.stage = "unsent"
    BY DEF LetThrough, Unsent
  <2>2. Sent(Unsent) = [stage |-> "handling", method |-> "none",
                        call |-> "none", code |-> 0]
    BY <2>1, SentCases
  <2>3. Fits(Unsent)
    BY <2>1 DEF Fits
  <2>4. \A r \in Requests : req[r] = Unsent
    BY DEF Init
  <2>5. SentRequests = [r \in Requests |->
                          [stage |-> "handling", method |-> "none",
                           call |-> "none", code |-> 0]]
    BY <2>2, <2>4, Zenon DEF SentRequests
  <2> QED
    BY <2>3, <2>4, <2>5, Zenon DEF Mutation!Init, AnswersFit
<1>2. ASSUME Inv, AnswersFit, [Next]_vars
      PROVE  /\ UNCHANGED SentRequests \/ Mutation!Next
             /\ AnswersFit'
  <2>1. CASE UNCHANGED req
    BY <1>2, <2>1, Zenon DEF SentRequests, AnswersFit
  <2>2. CASE LivenessProbe \/ Crash \/ Drained \/ ShutdownTimeout
    BY <1>2, <2>2, ExitSeen, Zenon
    DEF LivenessProbe, Crash, Drained, ShutdownTimeout
  <2>3. ASSUME NEW r \in Requests,
               Accept(r) \/ Verify(r) \/ ServerHandles(r) \/ Handler(r)
        PROVE  /\ UNCHANGED SentRequests \/ Mutation!Next
               /\ AnswersFit'
    <3>1. CASE ServeOpen(r) \/ BearerToken(r) \/ Dispatch(r)
      BY <1>2, <3>1, WayInUnseen, Zenon
    <3>2. CASE \/ List(r) \/ Get(r) \/ GetStatus(r) \/ Readiness(r)
               \/ AnswerMutation(r)
      BY <1>2, <3>2, AnswerUnseen, Zenon
    <3>3. CASE Accept(r) \/ AuditLogging(r)
      BY <1>2, <3>3, AcceptUnseen, AuditUnseen, Zenon
    <3>4. CASE Verify(r) \/ ServerHandles(r)
      BY <1>2, <3>4, VerifySeen, ServerSeen, Zenon
    <3>5. CASE SendCall(r) \/ Finish(r)
      BY <1>2, <3>5, SendSeen, FinishSeen, Zenon
    <3> QED
      BY <2>3, <3>1, <3>2, <3>3, <3>4, <3>5, Zenon DEF Handler
  <2>4. CASE Start \/ NewOIDCVerifier \/ NotifyContext \/ Signal
    BY <2>1, <2>4, Zenon DEF Start, NewOIDCVerifier, NotifyContext, Signal
  <2> QED
    BY <1>2, <2>1, <2>2, <2>3, <2>4, Zenon DEF Next, vars
<1>3. Inv /\ AnswersFit /\ [Next]_vars =>
        AnswersFit' /\ [UNCHANGED SentRequests \/ Mutation!Next]_vars
  BY <1>2
<1> QED
  BY <1>1, <1>3, Invariance, PTL DEF Spec, ClientsSeeOutline

================================================================================
