-------------------------------- MODULE RestApi --------------------------------
(***************************************************************************)
(* The mutating handlers of the platform API (POST, PUT, PATCH and DELETE  *)
(* on one ModelService name) against the Kubernetes API server.            *)
(*                                                                         *)
(* A handler is not atomic.  It reads the object with an uncached client,  *)
(* decides on what it read, and sends a write; between the two anything    *)
(* may happen to the object: another request, Argo CD marking or unmarking *)
(* it, kubectl, the operator's status write.  The write itself is a        *)
(* message: the API server may apply it, the client's timeout may expire   *)
(* before or after that, and the platform API may crash with a write in    *)
(* flight, which the API server may then still apply.                      *)
(***************************************************************************)
EXTENDS ApiRequests

CONSTANTS
    Requests,      \* request identities; each is used once
    CreateInputs,  \* POST bodies
    UpdateInputs,  \* PUT bodies
    PatchInputs,   \* PATCH bodies
    AppliedSpecs,  \* stored specs that kubectl or Argo CD write
    MaxRev         \* bound: no environment write beyond this revision

ASSUME InputConstants ==
    /\ CreateInputs \subseteq BodyType
    /\ UpdateInputs \subseteq BodyType
    /\ \A p \in PatchInputs : IsPatch(p)
    /\ \A s \in AppliedSpecs : s \in SpecType /\ CRDValid(s)
    /\ MaxRev \in Nat

VARIABLES
    ms,    \* the ModelService stored by the API server; uid 0 when absent
    rev,   \* the last resourceVersion handed out
    uids,  \* the last UID handed out
    req    \* the handler of each request

vars == <<ms, rev, uids, req>>

\* The Argo CD tracking annotation and the legacy tracking label.
Markers == {"tracking-id", "instance"}

\* A deletion removes an object nobody holds ("free").  One that carries a
\* finalizer ("held") stays, with a deletionTimestamp ("deleting"), until its
\* finalizers are gone.
Lives == {"free", "held", "deleting"}

ObjectType == [uid : Nat, rv : Nat, gen : Nat, observed : Nat, life : Lives,
               markers : SUBSET Markers, spec : SpecType]

NoObject == [uid |-> 0, rv |-> 0, gen |-> 0, observed |-> 0, life |-> "free",
             markers |-> {}, spec |-> NoSpec]

Exists(object) == object.uid # 0

\* The state that a list shows: that of a deletion, or the reported phase.
modelServiceState(object) ==
    CASE object.life = "deleting"                          -> "Deleting"
      [] object.life # "deleting" /\ object.observed = 0   -> "Pending"
      [] OTHER                                             -> "Phase"

\* Mutant: the legacy tracking label is forgotten.
GitOpsManagedNewOnly(object) == "tracking-id" \in object.markers

\* rejectGitOpsMutation: either marker makes the object GitOps-managed.
GitOpsManaged(object) == object.markers # {}

NoBody == [none |-> TRUE]

Codes == {0, 200, 201, 204, 400, 404, 409, 413, 415, 503}

Outcomes == {"none", "sent", "lost", "ok", "AlreadyExists", "NotFound",
             "Conflict", "Invalid"}

Bodies == CreateInputs \cup UpdateInputs \cup PatchInputs \cup {NoBody}

RequestType ==
    [pc : {"idle", "get", "write", "done", "gone"},
     method : {"none", "POST", "PUT", "PATCH", "DELETE"},
     body : Bodies,
     snap : ObjectType,   \* the object the handler read
     want : SpecType,     \* the spec it asks the API server to store
     call : Outcomes,     \* what became of that write
     resp : Codes]

Idle == [pc |-> "idle", method |-> "none", body |-> NoBody, snap |-> NoObject,
         want |-> NoSpec, call |-> "none", resp |-> 0]

\* The absent object, before the first request.
Init ==
    /\ ms = NoObject
    /\ rev = 0
    /\ uids = 0
    /\ req = [r \in Requests |-> Idle]

(***************************************************************************)
(* The handlers                                                            *)
(***************************************************************************)

\* The handler of r writes its response and returns.
Respond(r, code) ==
    req' = [req EXCEPT ![r].pc = "done", ![r].resp = code]

\* No name, no or several JSON values, an unknown field (400); too large
\* (413); for POST only, a media type other than application/json (415).
RejectCodes(method) == {400, 413} \cup IF method = "POST" THEN {415} ELSE {}

\* A request that is refused before its content is looked at.
RejectRequest(r) ==
    /\ req[r].pc = "idle"
    /\ \E m \in {"POST", "PUT", "PATCH"} : \E code \in RejectCodes(m) :
         req' = [req EXCEPT ![r].pc = "done", ![r].method = m,
                            ![r].resp = code]
    /\ UNCHANGED <<ms, rev, uids>>

ReceivePost(r) ==
    /\ req[r].pc = "idle"
    /\ \E b \in CreateInputs :
         IF ValidateCreateModelService(b)
         THEN req' = [req EXCEPT ![r].pc = "write", ![r].method = "POST",
                                 ![r].body = b,
                                 ![r].want = createRequestToModelService(b),
                                 ![r].call = "sent"]
         ELSE req' = [req EXCEPT ![r].pc = "done", ![r].method = "POST",
                                 ![r].resp = 400]
    /\ UNCHANGED <<ms, rev, uids>>

ReceivePut(r) ==
    /\ req[r].pc = "idle"
    /\ \E b \in UpdateInputs :
         req' = [req EXCEPT ![r].pc = "get", ![r].method = "PUT",
                            ![r].body = b]
    /\ UNCHANGED <<ms, rev, uids>>

\* An empty patch is refused before the object is read.
ReceivePatch(r) ==
    /\ req[r].pc = "idle"
    /\ \E p \in PatchInputs :
         IF hasPatchFields(p)
         THEN req' = [req EXCEPT ![r].pc = "get", ![r].method = "PATCH",
                                 ![r].body = p]
         ELSE req' = [req EXCEPT ![r].pc = "done", ![r].method = "PATCH",
                                 ![r].resp = 400]
    /\ UNCHANGED <<ms, rev, uids>>

ReceiveDelete(r) ==
    /\ req[r].pc = "idle"
    /\ req' = [req EXCEPT ![r].pc = "get", ![r].method = "DELETE"]
    /\ UNCHANGED <<ms, rev, uids>>

\* The handler of r has read ms and sends its write.
Send(r, want) ==
    req' = [req EXCEPT ![r].pc = "write", ![r].snap = ms, ![r].want = want,
                       ![r].call = "sent"]

\* What every handler does with the object it read before it goes on.
Loading(r, method) == req[r].pc = "get" /\ req[r].method = method

LoadRejected(r) ==
    /\ req[r].pc = "get"
    /\ \/ ~Exists(ms) /\ Respond(r, 404)
       \/ Exists(ms) /\ GitOpsManaged(ms) /\ Respond(r, 409)
    /\ UNCHANGED <<ms, rev, uids>>

Mutable(object) == Exists(object) /\ ~GitOpsManaged(object)

LoadForPut(r) ==
    /\ Loading(r, "PUT") /\ Mutable(ms)
    /\ LET old == BackendOf(ms.spec.backend)
           b   == [req[r].body EXCEPT !.backend = IF @ = Empty THEN old ELSE @]
       IN  IF b.backend = old /\ ValidateCreateModelService(b)
           THEN Send(r, applyUpdateRequest(ms.spec, b))
           ELSE Respond(r, 400)
    /\ UNCHANGED <<ms, rev, uids>>

\* The fields PATCH refuses for a KServe ModelService.
DeploymentOnly == {"image", "port", "exposure", "storage"}

LoadForPatch(r) ==
    /\ Loading(r, "PATCH") /\ Mutable(ms)
    /\ LET old       == BackendOf(ms.spec.backend)
           p         == req[r].body
           candidate == applyPatchRequest(ms.spec, p)
       IN  IF /\ "backend" \in DOMAIN p => p.backend = old
              /\ old = "KServe" => DOMAIN p \cap DeploymentOnly = {}
              /\ ValidateCreateModelService(
                     modelServiceToUpdateRequest(candidate))
           THEN Send(r, candidate)
           ELSE Respond(r, 400)
    /\ UNCHANGED <<ms, rev, uids>>

LoadForDelete(r) ==
    /\ Loading(r, "DELETE") /\ Mutable(ms)
    /\ Send(r, NoSpec)
    /\ UNCHANGED <<ms, rev, uids>>

\* The read fails or exceeds the client's two-second timeout.
LoadFailed(r) ==
    /\ req[r].pc = "get"
    /\ Respond(r, 503)
    /\ UNCHANGED <<ms, rev, uids>>

\* Mutant: an unexpected error is passed on as a plain 500.
StatusOfUnmapped(method, call) ==
    CASE call = "ok" -> (CASE method = "POST"   -> 201
                           [] method = "DELETE" -> 204
                           [] OTHER             -> 200)
      [] call = "NotFound" /\ method = "DELETE" -> 204
      [] OTHER                                  -> 500

\* Mutant: DELETE reports success whatever the API server said.
StatusOfBlindDelete(method, call) ==
    CASE method = "DELETE"                    -> 204
      [] method = "POST" /\ call = "ok"       -> 201
      [] method # "POST" /\ call = "ok"       -> 200
      [] call \in {"AlreadyExists", "Conflict"} -> 409
      [] OTHER                                -> 503

\* The status code for the outcome of the write.
StatusOf(method, call) ==
    CASE call = "ok" -> (CASE method = "POST"   -> 201
                           [] method = "DELETE" -> 204
                           [] OTHER             -> 200)
      [] call = "AlreadyExists" /\ method = "POST"          -> 409
      [] call = "Conflict" /\ method # "POST"               -> 409
      [] call = "NotFound" /\ method = "DELETE"             -> 204
      [] OTHER                                              -> 503

\* The API server's answer arrives.
Reply(r) ==
    /\ req[r].pc = "write" /\ req[r].call \notin {"sent", "lost"}
    /\ Respond(r, StatusOf(req[r].method, req[r].call))
    /\ UNCHANGED <<ms, rev, uids>>

\* Mutant: a client without a timeout waits for the API server's answer.
WriteTimeoutNever(r) ==
    /\ req[r].pc = "write" /\ req[r].call # "sent"
    /\ Respond(r, 503)
    /\ UNCHANGED <<ms, rev, uids>>

\* The client gives up on the write, whether or not it has been applied.
WriteTimeout(r) ==
    /\ req[r].pc = "write"
    /\ Respond(r, 503)
    /\ UNCHANGED <<ms, rev, uids>>

\* The platform API process dies; its clients see a broken connection.
Crash ==
    /\ \E r \in Requests : req[r].pc \in {"get", "write"}
    /\ req' = [r \in Requests |->
                 IF req[r].pc \in {"get", "write"}
                 THEN [req[r] EXCEPT !.pc = "gone"] ELSE req[r]]
    /\ UNCHANGED <<ms, rev, uids>>

(***************************************************************************)
(* The API server.  It applies a write at any time after it was sent, also *)
(* when the handler no longer waits for the answer, or never.              *)
(***************************************************************************)

Answer(r, outcome) == req' = [req EXCEPT ![r].call = outcome]

Refuse(r, outcome) == Answer(r, outcome) /\ UNCHANGED <<ms, rev, uids>>

NewObject(spec, markers) ==
    [uid |-> uids + 1, rv |-> rev + 1, gen |-> 1, observed |-> 0,
     life |-> "free", markers |-> markers, spec |-> spec]

ExecuteCreate(r) ==
    /\ req[r].call = "sent" /\ req[r].method = "POST"
    /\ LET spec == Store(req[r].want)
       IN  \/ ~CRDValid(spec) /\ Refuse(r, "Invalid")
           \/ CRDValid(spec) /\ Exists(ms) /\ Refuse(r, "AlreadyExists")
           \/ /\ CRDValid(spec) /\ ~Exists(ms)
              /\ ms' = NewObject(spec, {})
              /\ rev' = rev + 1
              /\ uids' = uids + 1
              /\ Answer(r, "ok")

\* Mutant: a blind update that does not send the resourceVersion.
UpdateUnconditional(snap) == ms.uid = snap.uid

\* Update sends the object as it was read, with its UID and resourceVersion.
UpdatePrecondition(snap) == ms.uid = snap.uid /\ ms.rv = snap.rv

\* Mutant: Update replaces the whole object, as without a status subresource.
UpdatedWhole(spec, markers) ==
    [ms EXCEPT !.rv = rev + 1, !.gen = @ + 1, !.observed = 0,
               !.markers = markers, !.spec = spec]

\* The API server takes all but the status, which is a subresource.
Updated(spec, markers) ==
    [ms EXCEPT !.rv = rev + 1, !.gen = @ + 1,
               !.markers = markers, !.spec = spec]

\* An object that is gone fails the precondition on its UID: Conflict.
ExecuteUpdate(r) ==
    /\ req[r].call = "sent" /\ req[r].method \in {"PUT", "PATCH"}
    /\ LET snap == req[r].snap
           spec == Store(req[r].want)
           fits == CRDValid(spec) /\ CRDTransition(ms.spec, spec)
           same == ms.spec = spec /\ ms.markers = snap.markers
       IN  \/ ~UpdatePrecondition(snap) /\ Refuse(r, "Conflict")
           \/ UpdatePrecondition(snap) /\ ~fits /\ Refuse(r, "Invalid")
           \/ UpdatePrecondition(snap) /\ fits /\ same /\ Refuse(r, "ok")
           \/ /\ UpdatePrecondition(snap) /\ fits /\ ~same
              /\ ms' = Updated(spec, snap.markers)
              /\ rev' = rev + 1
              /\ Answer(r, "ok")
              /\ UNCHANGED uids

\* Mutant: the delete is bound to the UID alone.
DeleteByUID(snap) == ms.uid = snap.uid

\* Delete is bound to the UID and the resourceVersion the handler inspected.
DeletePreconditions(snap) == ms.uid = snap.uid /\ ms.rv = snap.rv

\* The object is marked as being deleted, which is a new generation.
Condemned == [ms EXCEPT !.rv = rev + 1, !.gen = @ + 1, !.life = "deleting"]

\* An accepted deletion removes the object, or marks it, or finds it marked.
ExecuteDelete(r) ==
    /\ req[r].call = "sent" /\ req[r].method = "DELETE"
    /\ LET snap == req[r].snap
       IN  \/ ~Exists(ms) /\ Refuse(r, "NotFound")
           \/ Exists(ms) /\ ~DeletePreconditions(snap) /\ Refuse(r, "Conflict")
           \/ /\ Exists(ms) /\ DeletePreconditions(snap)
              /\ \/ /\ ms.life = "free"
                    /\ ms' = NoObject
                    /\ UNCHANGED rev
                 \/ /\ ms.life = "held"
                    /\ ms' = Condemned
                    /\ rev' = rev + 1
                 \/ ms.life = "deleting" /\ UNCHANGED <<ms, rev>>
              /\ Answer(r, "ok")
              /\ UNCHANGED uids

\* A write nobody waits for any more never reached the API server.
LoseCall(r) ==
    /\ req[r].call = "sent" /\ req[r].pc \in {"done", "gone"}
    /\ Refuse(r, "lost")

(***************************************************************************)
(* Everyone else who writes the object                                     *)
(***************************************************************************)

OutsideCreate ==
    /\ rev < MaxRev /\ ~Exists(ms)
    /\ \E spec \in AppliedSpecs, m \in SUBSET Markers : ms' = NewObject(spec, m)
    /\ rev' = rev + 1
    /\ uids' = uids + 1
    /\ UNCHANGED req

OutsideEdit ==
    /\ rev < MaxRev /\ Exists(ms)
    /\ \E spec \in AppliedSpecs \ {ms.spec} :
         /\ CRDTransition(ms.spec, spec)
         /\ ms' = [ms EXCEPT !.rv = rev + 1, !.gen = @ + 1, !.spec = spec]
    /\ rev' = rev + 1
    /\ UNCHANGED <<uids, req>>

\* Argo CD adopts the object or lets it go.
OutsideMark ==
    /\ rev < MaxRev /\ Exists(ms)
    /\ \E m \in SUBSET Markers \ {ms.markers} :
         ms' = [ms EXCEPT !.rv = rev + 1, !.markers = m]
    /\ rev' = rev + 1
    /\ UNCHANGED <<uids, req>>

\* In the background or, which marks also an object nobody held, in the
\* foreground.
OutsideDelete ==
    /\ rev < MaxRev /\ Exists(ms)
    /\ \/ /\ ms.life = "free"
          /\ ms' = NoObject
          /\ UNCHANGED rev
       \/ /\ ms.life # "deleting"
          /\ ms' = Condemned
          /\ rev' = rev + 1
    /\ UNCHANGED <<uids, req>>

\* Somebody adds a finalizer, which an object being deleted does not admit.
OutsideHold ==
    /\ rev < MaxRev /\ Exists(ms) /\ ms.life = "free"
    /\ ms' = [ms EXCEPT !.rv = rev + 1, !.life = "held"]
    /\ rev' = rev + 1
    /\ UNCHANGED <<uids, req>>

\* The last finalizer is removed, and with it an object being deleted.
OutsideRelease ==
    /\ Exists(ms)
    /\ \/ /\ ms.life = "held" /\ rev < MaxRev
          /\ ms' = [ms EXCEPT !.rv = rev + 1, !.life = "free"]
          /\ rev' = rev + 1
       \/ /\ ms.life = "deleting"
          /\ ms' = NoObject
          /\ UNCHANGED rev
    /\ UNCHANGED <<uids, req>>

\* The operator's status write: a new resourceVersion, the same generation.
OperatorStatus ==
    /\ rev < MaxRev /\ Exists(ms)
    /\ ms' = [ms EXCEPT !.rv = rev + 1, !.observed = ms.gen]
    /\ rev' = rev + 1
    /\ UNCHANGED <<uids, req>>

Handler(r) ==
    \/ LoadRejected(r) \/ LoadForPut(r) \/ LoadForPatch(r) \/ LoadForDelete(r)
    \/ LoadFailed(r) \/ Reply(r) \/ WriteTimeout(r)

Receive(r) ==
    \/ RejectRequest(r) \/ ReceivePost(r) \/ ReceivePut(r) \/ ReceivePatch(r)
    \/ ReceiveDelete(r)

APIServer(r) ==
    ExecuteCreate(r) \/ ExecuteUpdate(r) \/ ExecuteDelete(r) \/ LoseCall(r)

Outside ==
    \/ OutsideCreate \/ OutsideEdit \/ OutsideMark \/ OutsideDelete
    \/ OutsideHold \/ OutsideRelease \/ OperatorStatus

Next ==
    \/ \E r \in Requests : Receive(r) \/ Handler(r) \/ APIServer(r)
    \/ Crash
    \/ Outside

Spec == Init /\ [][Next]_vars

\* A handler that runs is scheduled by the Go runtime, and the client's
\* two-second timeout bounds every call it waits for.
FairSpec == Spec /\ \A r \in Requests : WF_vars(Handler(r))

(***************************************************************************)
(* Properties                                                              *)
(***************************************************************************)

\* The object, its versions and the handlers have their types.
TypeOK ==
    /\ ms \in ObjectType
    /\ rev \in Nat
    /\ uids \in Nat
    /\ req \in [Requests -> RequestType]

\* The API server applies the PUT, PATCH or DELETE of request r.
Commits(r) ==
    /\ req[r].call = "sent" /\ req'[r].call = "ok"
    /\ req[r].method # "POST"

\* rejectGitOpsMutation looks at the object the handler read; the write
\* must not reach an object Argo CD has adopted since.  No PUT, PATCH or
\* DELETE is ever applied to an object that is GitOps-managed at that moment.
MutationsRespectGitOps ==
    [][\A r \in Requests : Commits(r) => ~GitOpsManaged(ms)]_vars

\* "Bind deletion to the exact object and version inspected by the handler"
\* (modelservices.go), and the same for Update: a write is applied only to
\* the very version the handler read, however late it arrives, so that no
\* concurrent change is lost and no recreated object is hit.
WritesWhatItInspected ==
    [][\A r \in Requests : Commits(r) => ms = req[r].snap]_vars

\* What a client may conclude from the status code: 200 and 201 mean that
\* the write was applied, a 4xx that it neither was nor will be, and 204 that
\* the object the handler inspected is gone for good, or is on its way out and
\* listed as Deleting from then on.  Only a 503 leaves it open.
AnswerTellsEffect ==
    \A r \in Requests :
        req[r].pc = "done" =>
            /\ req[r].resp \in {200, 201} => req[r].call = "ok"
            /\ req[r].resp \in 400 .. 499 => req[r].call \notin {"ok", "sent"}
            /\ req[r].resp = 204 /\ ms.uid = req[r].snap.uid =>
                 modelServiceState(ms) = "Deleting"

\* What the handlers' validation lets through and the CRD may refuse: more
\* than ten replicas, a size that is a quantity of another unit, and what a
\* PATCH writes into a block that stays disabled.
Unvalidated(method, spec) ==
    LET e == spec.exposure
        s == spec.storage
    IN  \/ spec.replicas > 10
        \/ s.present /\ s.enabled /\ s.size \notin CRDSizes
        \/ /\ method = "PATCH"
           /\ \/ /\ e.present /\ ~e.enabled
                 /\ \/ e.hostname \notin CRDHostnames \cup {Empty}
                    \/ e.pathPrefix \notin AbsolutePaths
              \/ /\ s.present /\ ~s.enabled
                 /\ \/ s.size \notin CRDSizes
                    \/ s.mountPath \notin AbsolutePaths

\* A write that the CRD refuses is answered 503, as if the API server were
\* down.  A client that sends a backend, predictor, image or port the CRD does
\* not admit, or asks for another backend, is told so by the handler instead:
\* the API server refuses a validated write for the reasons of Unvalidated
\* only, whatever has happened to the object since the handler read it.
LateRefusalsExplained ==
    \A r \in Requests :
        req[r].call = "Invalid" =>
            Unvalidated(req[r].method, Store(req[r].want))

\* A PATCH leaves the fields it does not name alone, provided the stored spec
\* holds no zero value that the client's encoding would drop.
PatchKeepsOtherFields ==
    [][\A r \in Requests :
          Commits(r) /\ req[r].method = "PATCH" /\ Store(ms.spec) = ms.spec =>
              \A f \in DOMAIN ms.spec \ DOMAIN req[r].body :
                  ms'.spec[f] = ms.spec[f]]_vars

\* What a body asks a later reader to be shown: the backend it implies, the
\* path prefix it implies, no image for KServe (a blank one is accepted and
\* ignored), and of a disabled block nothing else.
Shown(b) ==
    LET e == b.exposure
        s == b.storage
    IN  [backend |-> BackendOf(b.backend),
         image |-> IF BackendOf(b.backend) = "Deployment" THEN b.image ELSE Empty,
         replicas |-> b.replicas, port |-> b.port, predictor |-> b.predictor,
         exposure |->
             [enabled |-> e.enabled,
              hostname |-> IF e.enabled THEN e.hostname ELSE Empty,
              pathPrefix |-> IF e.enabled THEN OmitEmpty(e.pathPrefix, Empty, "/")
                             ELSE Empty],
         storage |->
             [enabled |-> s.enabled,
              size |-> IF s.enabled THEN s.size ELSE Empty,
              mountPath |-> IF s.enabled THEN s.mountPath ELSE Empty]]

\* The answer shows what a patch says of the field f of a spec.
ShowsPatch(shown, p, f) ==
    IF f \notin {"exposure", "storage"} THEN shown[f] = p[f]
    ELSE \A g \in DOMAIN p[f] :
           CASE g = "enabled" -> shown[f].enabled = p[f].enabled
             [] g = "pathPrefix" ->
                  shown[f].enabled =>
                      shown[f][g] = OmitEmpty(p[f][g], Empty, "/")
             [] OTHER -> shown[f].enabled => shown[f][g] = p[f][g]

\* The step that stores the spec request r asked for makes every reader see
\* what r asked for.
ShowsRequest(r) ==
    LET shown == modelServiceToResponse(ms'.spec)
        item  == modelServiceToSummary(ms'.spec)
        state == modelServiceToStatusResponse(ms'.spec)
        b     == req[r].body
    IN  /\ req[r].method = "POST" => shown = Shown(b)
        /\ req[r].method = "PUT" =>
             shown = Shown([b EXCEPT !.backend =
                         OmitEmpty(@, Empty, BackendOf(ms.spec.backend))])
        /\ req[r].method = "PATCH" =>
             \A f \in DOMAIN b : ShowsPatch(shown, b, f)
        /\ item = [backend |-> shown.backend, image |-> shown.image,
                   replicas |-> shown.replicas,
                   hostname |-> shown.exposure.hostname]
        /\ state = [desiredReplicas |-> item.replicas,
                    endpoint |-> item.hostname]

\* What a client is shown once its write has been applied, in the answer and
\* in later reads, is what it asked for, although the write went through the
\* handler's conversion, the client's encoding and the CRD's defaults: all of
\* a POST or PUT, every field a PATCH names.  The list and the status endpoint
\* convert the object on their own, and they show the same.
ReadsShowWrites ==
    [][\A r \in Requests :
          (/\ req[r].method # "DELETE"
           /\ req[r].call = "sent" /\ req'[r].call = "ok") =>
              ShowsRequest(r)]_vars

\* The body a PUT is validated and applied as, when it read spec.
Completed(b, spec) ==
    [b EXCEPT !.backend = IF @ = Empty THEN BackendOf(spec.backend) ELSE @]

\* That body does not ask for another backend.
KeepsBackend(b, spec) ==
    Completed(b, spec).backend = BackendOf(spec.backend)

\* What a PATCH may name on an object with that spec.
Nameable(p, spec) ==
    /\ "backend" \in DOMAIN p => p.backend = BackendOf(spec.backend)
    /\ BackendOf(spec.backend) = "KServe" => DOMAIN p \cap DeploymentOnly = {}

\* Request r, received again, is accepted on an object with that spec and
\* leaves it as it is.
RepeatChangesNothing(r, spec) ==
    LET b    == req[r].body
        put  == req[r].method = "PUT"
        want == IF put THEN applyUpdateRequest(spec, Completed(b, spec))
                ELSE applyPatchRequest(spec, b)
    IN  /\ IF put THEN KeepsBackend(b, spec) ELSE Nameable(b, spec)
        /\ ValidateCreateModelService(
               IF put THEN Completed(b, spec)
               ELSE modelServiceToUpdateRequest(want))
        /\ Store(want) = spec

\* A 503 does not tell a client whether its write was applied, so a client
\* sends it again.  Once a PUT or PATCH has been applied, the same request
\* passes every check again and stores what is stored already, through the
\* defaults the first one was filled with: the API server finds nothing to
\* change, and the operator is not given a new generation to roll out.
RetriesAreHarmless ==
    [][\A r \in Requests :
          Commits(r) /\ req[r].method # "DELETE" =>
              RepeatChangesNothing(r, ms'.spec)]_vars

\* Every accepted request is answered, unless the process dies first: the
\* handler never waits for the API server longer than the client's timeout.
EveryRequestAnswered ==
    \A r \in Requests :
        req[r].pc \in {"get", "write"} ~> req[r].pc \in {"done", "gone"}

(***************************************************************************)
(* Properties the repository states and the code does not have             *)
(***************************************************************************)

\* "PATCH is for targeted change" (docs/rest-api/06): a PATCH changes no
\* field it does not name.  The typed round trip through Update drops explicit
\* false and 0 values, and CRD defaulting replaces them.
PatchTouchesOnlyRequestedFields ==
    [][\A r \in Requests :
          Commits(r) /\ req[r].method = "PATCH" =>
              \A f \in DOMAIN ms.spec \ DOMAIN req[r].body :
                  ms'.spec[f] = ms.spec[f]]_vars

\* What the object is to an observer who does not see resourceVersions.
Visible(object) ==
    [uid |-> object.uid, gen |-> object.gen, observed |-> object.observed,
     life |-> object.life, markers |-> object.markers, spec |-> object.spec]

Atomic == INSTANCE AtomicModelService WITH
    object <- Visible(ms), used <- uids,
    applied <- {r \in Requests : req[r].call = "ok"}

\* The read-decide-write handlers, with timeouts, crashes and late writes,
\* implement atomic operations: each request takes effect at most once, as if
\* it had read, checked and written the object in one step.
ImplementsAtomic == Atomic!Spec

\* What the object is to those who share it with the platform API.
SharedPart(object) ==
    [uid |-> object.uid, generation |-> object.gen,
     observed |-> object.observed, spec |-> object.spec]

Shared == INSTANCE SharedModelService WITH
    object <- SharedPart(ms), used <- uids

\* The handlers keep to the users' part of the ModelService: whenever a write
\* lands, it creates, changes or removes the desired state with the status left
\* as it is, although Update sends the whole object.  The operator's write is
\* the one Reconciler shows of the operator.
KeepsItsPart ==
    /\ Shared!Init
    /\ [][IF OperatorStatus THEN Shared!Acknowledge ELSE Shared!Users]_<<
            SharedPart(ms), uids>>

\* A handler as those around it see it: where it is, whether its call has
\* been handled, and its answer.
OutlineStage(pc) ==
    CASE pc = "done" -> "answered" [] pc = "gone" -> "lost"
      [] OTHER -> "handling"

OutlineCall(call) ==
    CASE call = "none"             -> "none"
      [] call \in {"sent", "lost"} -> "outstanding"
      [] call = "ok"               -> "applied"
      [] call = "NotFound"         -> "gone"
      [] OTHER                     -> "refused"

Outline(q) == [stage |-> OutlineStage(q.pc), method |-> q.method,
               call |-> OutlineCall(q.call), code |-> q.resp]

Mutation == INSTANCE MutatingHandler WITH
    handler <- [r \in Requests |-> Outline(req[r])]

\* The handlers keep to what the authentication, the audit log and the metrics
\* around them are built on: one call at most, never after the answer, and an
\* answer that fits what became of it.  So the audit log is right about them.
KeepsToOutline == Mutation!Spec

================================================================================
