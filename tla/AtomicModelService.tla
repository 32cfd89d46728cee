-------------------------- MODULE AtomicModelService --------------------------
(***************************************************************************)
(* What the platform API promises about one ModelService: every request    *)
(* that takes effect does so at one instant, on the object as it is at     *)
(* that instant, at most once, and only if nobody manages it through       *)
(* GitOps.  There are no handlers, messages, snapshots or resource         *)
(* versions here.                                                          *)
(***************************************************************************)
EXTENDS ApiRequests

CONSTANTS Requests, CreateInputs, UpdateInputs, PatchInputs, AppliedSpecs,
          Markers

VARIABLES
    object,  \* [uid, gen, observed, life, markers, spec]; uid 0 when absent
    used,    \* the last UID given to an object
    applied  \* the requests that have taken effect

Absent == [uid |-> 0, gen |-> 0, observed |-> 0, life |-> "free",
           markers |-> {}, spec |-> NoSpec]

Present == object.uid # 0

Unmanaged == Present /\ object.markers = {}

Init == object = Absent /\ used = 0 /\ applied = {}

\* A new incarnation never has the UID of an earlier one.
Born(spec, markers) ==
    /\ ~Present
    /\ object' = [uid |-> used + 1, gen |-> 1, observed |-> 0,
                  life |-> "free", markers |-> markers, spec |-> spec]
    /\ used' = used + 1

\* The desired state becomes spec: a new generation if it differs.
Replaced(spec) ==
    /\ CRDValid(spec)
    /\ CRDTransition(object.spec, spec)
    /\ object' = IF spec = object.spec THEN object
                 ELSE [object EXCEPT !.gen = @ + 1, !.spec = spec]
    /\ UNCHANGED used

Gone == Present /\ object' = Absent /\ UNCHANGED used

\* The object is being deleted, and will be gone when nobody holds it.
Condemned ==
    /\ Present
    /\ object' = [object EXCEPT !.gen = @ + 1, !.life = "deleting"]
    /\ UNCHANGED used

\* Request r takes effect, once.
Once(r) == r \notin applied /\ applied' = applied \cup {r}

Post(r) ==
    /\ Once(r)
    /\ \E b \in CreateInputs :
         /\ ValidateCreateModelService(b)
         /\ CRDValid(Store(createRequestToModelService(b)))
         /\ Born(Store(createRequestToModelService(b)), {})

\* An omitted backend keeps the current one.
Completed(b, spec) ==
    [b EXCEPT !.backend = IF @ = Empty THEN BackendOf(spec.backend) ELSE @]

Put(r) ==
    /\ Once(r) /\ Unmanaged
    /\ \E b \in UpdateInputs :
         LET full == Completed(b, object.spec)
         IN  /\ ValidateCreateModelService(full)
             /\ Replaced(Store(applyUpdateRequest(object.spec, full)))

Patch(r) ==
    /\ Once(r) /\ Unmanaged
    /\ \E p \in PatchInputs :
         LET candidate == applyPatchRequest(object.spec, p)
         IN  /\ hasPatchFields(p)
             /\ ValidateCreateModelService(
                    modelServiceToUpdateRequest(candidate))
             /\ Replaced(Store(candidate))

\* The object is gone if nobody holds it, and being deleted otherwise.
Delete(r) ==
    /\ Once(r) /\ Unmanaged
    /\ \/ object.life = "free" /\ Gone
       \/ object.life = "held" /\ Condemned
       \/ object.life = "deleting" /\ UNCHANGED <<object, used>>

\* kubectl, Argo CD and the operator.
Outside ==
    /\ UNCHANGED applied
    /\ \/ \E spec \in AppliedSpecs, m \in SUBSET Markers : Born(spec, m)
       \/ Present /\ \E spec \in AppliedSpecs : Replaced(spec)
       \/ /\ Present
          /\ \E m \in SUBSET Markers : object' = [object EXCEPT !.markers = m]
          /\ UNCHANGED used
       \/ object.life # "held" /\ Gone
       \/ object.life # "deleting" /\ Condemned
       \/ /\ Present /\ object.life # "deleting"
          /\ \E l \in {"free", "held"} : object' = [object EXCEPT !.life = l]
          /\ UNCHANGED used
       \/ /\ Present
          /\ object' = [object EXCEPT !.observed = object.gen]
          /\ UNCHANGED used

Next == \/ \E r \in Requests : Post(r) \/ Put(r) \/ Patch(r) \/ Delete(r)
        \/ Outside

Spec == Init /\ [][Next]_<<object, used, applied>>

===============================================================================
