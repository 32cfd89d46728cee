--------------------------- MODULE RestApiRefinement ---------------------------
(***************************************************************************)
(* RestApi implements AtomicModelService, for any set of requests, any     *)
(* bodies and any number of writes by others: the object without its       *)
(* resourceVersion, the UIDs handed out and the requests whose write was   *)
(* applied behave as if every request took effect at one instant.          *)
(* It also implements MutatingHandler, the outline of a mutating handler   *)
(* that ApiServer runs in the place of the handlers, and the users' part   *)
(* of SharedModelService, the object as API and operator share it.         *)
(***************************************************************************)
EXTENDS RestApiProofs

(***************************************************************************)
(* The abstract specification converts and validates requests as RestApi   *)
(* does: both modules build on ApiRequests.                                *)
(***************************************************************************)

\* What the API server admits and stores.
LEMMA SameAdmission ==
    /\ \A s : Atomic!CRDValid(s) <=> CRDValid(s)
    /\ \A s, t : Atomic!CRDTransition(s, t) <=> CRDTransition(s, t)
    /\ \A s : Atomic!Store(s) = Store(s)
    /\ Atomic!Ports = Ports
<1>1. Atomic!Ports = Ports
  BY DEF Atomic!Ports, Ports
<1>2. /\ \A s : Atomic!CRDValid(s) <=> CRDValid(s)
      /\ \A s, t : Atomic!CRDTransition(s, t) <=> CRDTransition(s, t)
  BY <1>1, ZenonT(60) DEF Atomic!CRDValid, CRDValid, Atomic!CRDTransition,
                     CRDTransition, Atomic!Empty, Empty
<1>3. \A s : Atomic!Store(s) = Store(s)
  BY Zenon DEF Atomic!Store, Store, Atomic!OmitEmpty, OmitEmpty,
               Atomic!StoreExposure, StoreExposure, Atomic!StoreStorage,
               StoreStorage, Atomic!StoreSecurity, StoreSecurity,
               Atomic!StoreRollout, StoreRollout, Atomic!StoreBudget,
               StoreBudget, Atomic!StorePolicy, StorePolicy, Atomic!Empty,
               Empty
<1> QED
  BY <1>1, <1>2, <1>3

\* What the handlers accept.
LEMMA SameValidation ==
    \A b : Atomic!ValidateCreateModelService(b) <=> ValidateCreateModelService(b)
  BY SameAdmission, Zenon
  DEF Atomic!ValidateCreateModelService, ValidateCreateModelService,
      Atomic!BackendOf, BackendOf, Atomic!validateDeploymentRequest,
      validateDeploymentRequest, Atomic!validateKServeRequest,
      validateKServeRequest, Atomic!validateReplicas, validateReplicas,
      Atomic!validateStorage, validateStorage, Atomic!validateExposure,
      validateExposure, Atomic!Empty, Empty

\* What a POST makes of its body.
LEMMA SameCreation ==
    /\ Atomic!NoSpec = NoSpec
    /\ \A b : Atomic!createRequestToModelService(b) =
             createRequestToModelService(b)
  BY Zenon
  DEF Atomic!createRequestToModelService, createRequestToModelService,
      Atomic!RequestExposure, RequestExposure, Atomic!RequestStorage,
      RequestStorage, Atomic!BackendOf, BackendOf, Atomic!NoSpec, NoSpec,
      Atomic!NoExposure, NoExposure, Atomic!NoStorage, NoStorage,
      Atomic!NoSecurity, NoSecurity, Atomic!NoRollout, NoRollout,
      Atomic!NoBudget, NoBudget, Atomic!NoPolicy, NoPolicy, Atomic!Empty, Empty

\* What a PUT makes of its body and of the object it read.
LEMMA SameUpdate ==
    \A s, b : /\ Atomic!applyUpdateRequest(s, b) = applyUpdateRequest(s, b)
             /\ Atomic!Completed(b, s) = Completed(b, s)
  BY Zenon
  DEF Atomic!applyUpdateRequest, applyUpdateRequest, Atomic!Completed,
      Completed, Atomic!RequestExposure, RequestExposure,
      Atomic!RequestStorage, RequestStorage, Atomic!BackendOf, BackendOf,
      Atomic!NoExposure, NoExposure, Atomic!NoStorage, NoStorage, Atomic!Empty,
      Empty

\* What a PATCH makes of its body and of the object it read.
LEMMA SamePatch ==
    \A s, p : /\ Atomic!applyPatchRequest(s, p) = applyPatchRequest(s, p)
             /\ Atomic!modelServiceToUpdateRequest(s) =
                  modelServiceToUpdateRequest(s)
             /\ (Atomic!hasPatchFields(p) <=> hasPatchFields(p))
  BY ZenonT(60)
  DEF Atomic!applyPatchRequest, applyPatchRequest, Atomic!Patched, Patched,
      Atomic!applyExposurePatch, applyExposurePatch, Atomic!applyStoragePatch,
      applyStoragePatch, Atomic!hasPatchFields, hasPatchFields,
      Atomic!modelServiceToUpdateRequest, modelServiceToUpdateRequest,
      Atomic!BackendOf, BackendOf, Atomic!Empty, Empty

(***************************************************************************)
(* Steps nobody outside sees                                               *)
(***************************************************************************)

\* The requests that have taken effect.
Done == {r \in Requests : req[r].call = "ok"}

\* What a step leaves alone when no atomic operation happens.
AtomicStutter == /\ UNCHANGED <<ms, uids>>
                 /\ \A r \in Requests : req'[r].call = "ok" <=> req[r].call = "ok"

\* Such a step is a stuttering step of the abstract specification.
LEMMA StutterMaps ==
    ASSUME AtomicStutter
    PROVE  UNCHANGED <<Visible(ms), uids, Done>>
  BY DEF AtomicStutter, Visible, Done

\* A handler's own steps, and those of requests that arrive, are invisible.
LEMMA HandlersStutter ==
    ASSUME Inv, NEW r \in Requests, Receive(r) \/ Handler(r)
    PROVE  AtomicStutter
<1>1. req \in [Requests -> RequestType] /\ req[r] \in RequestType
      /\ (req[r].pc \in {"idle", "get"} => req[r].call = "none")
  BY DEF Inv, TypeOK, StageInv
<1>2. CASE Receive(r)
  <2>1. req[r].pc = "idle" /\ UNCHANGED <<ms, uids>>
    BY <1>2, Zenon DEF Receive, RejectRequest, ReceivePost, ReceivePut, ReceivePatch,
                ReceiveDelete
  <2>2. CASE RejectRequest(r)
    BY <1>1, <2>1, <2>2 DEF RejectRequest, RequestType, AtomicStutter
  <2>3. CASE ReceivePost(r)
    <3>1. PICK b \in CreateInputs :
            \/ req' = [req EXCEPT ![r].pc = "write", ![r].method = "POST",
                                  ![r].body = b,
                                  ![r].want = createRequestToModelService(b),
                                  ![r].call = "sent"]
            \/ req' = [req EXCEPT ![r].pc = "done", ![r].method = "POST",
                                  ![r].resp = 400]
      BY <2>3, ZenonT(30) DEF ReceivePost
    <3> QED
      BY <1>1, <2>1, <3>1 DEF RequestType, AtomicStutter
  <2>4. CASE ReceivePut(r) \/ ReceivePatch(r) \/ ReceiveDelete(r)
    <3>1. CASE \E m, b : req' = [req EXCEPT ![r].pc = "get",
                                            ![r].method = m, ![r].body = b]
      <4>1. PICK m, b : req' = [req EXCEPT ![r].pc = "get", ![r].method = m,
                                           ![r].body = b]
        BY <3>1, Zenon
      <4>2. \A x \in Requests : req'[x].call = req[x].call
        BY <1>1, <4>1 DEF RequestType
      <4> QED
        BY <2>1, <4>2 DEF AtomicStutter
    <3>2. CASE req' = [req EXCEPT ![r].pc = "get", ![r].method = "DELETE"]
      BY <1>1, <2>1, <3>2 DEF RequestType, AtomicStutter
    <3>3. CASE req' = [req EXCEPT ![r].pc = "done", ![r].method = "PATCH",
                                  ![r].resp = 400]
      BY <1>1, <2>1, <3>3 DEF RequestType, AtomicStutter
    <3> QED
      BY <2>4, <3>1, <3>2, <3>3, ZenonT(30) DEF ReceivePut, ReceivePatch, ReceiveDelete
  <2> QED
    BY <1>2, <2>2, <2>3, <2>4 DEF Receive
<1>3. CASE Handler(r)
  <2>1. UNCHANGED <<ms, uids>>
    BY <1>3 DEF Handler, LoadRejected, LoadForPut, LoadForPatch, LoadForDelete,
                LoadFailed, Reply, WriteTimeout
  <2>2. \/ \E code : Respond(r, code)
        \/ req[r].pc = "get" /\ \E want : Send(r, want)
    <3>1. CASE LoadForPut(r) \/ LoadForPatch(r) \/ LoadForDelete(r)
      BY <3>1 DEF LoadForPut, LoadForPatch, LoadForDelete, Loading
    <3>2. CASE \/ LoadRejected(r) \/ LoadFailed(r) \/ Reply(r)
               \/ WriteTimeout(r)
      BY <3>2 DEF LoadRejected, LoadFailed, Reply, WriteTimeout
    <3> QED
      BY <1>3, <3>1, <3>2 DEF Handler
  <2>3. CASE \E code : Respond(r, code)
    BY <1>1, <2>1, <2>3 DEF Respond, RequestType, AtomicStutter
  <2>4. CASE req[r].pc = "get" /\ \E want : Send(r, want)
    BY <1>1, <2>1, <2>4 DEF Send, RequestType, AtomicStutter
  <2> QED
    BY <2>2, <2>3, <2>4
<1> QED
  BY <1>2, <1>3

\* A crash forgets the handlers and no write.
LEMMA CrashStutters ==
    ASSUME Inv, Crash
    PROVE  AtomicStutter
  BY DEF Inv, TypeOK, Crash, RequestType, AtomicStutter

\* A write the API server refuses, or that is lost, has no effect.
LEMMA RefusedStutters ==
    ASSUME Inv, NEW r \in Requests, req[r].call = "sent", NEW outcome,
           outcome # "ok", Refuse(r, outcome)
    PROVE  AtomicStutter
  BY DEF Inv, TypeOK, Refuse, Answer, RequestType, AtomicStutter

\* The request whose write is applied takes effect, for the first time.
LEMMA AppliedOnce ==
    ASSUME Inv, NEW r \in Requests, req[r].call = "sent", Answer(r, "ok")
    PROVE  r \notin Done /\ Done' = Done \cup {r}
  BY DEF Inv, TypeOK, Answer, RequestType, Done

(***************************************************************************)
(* Every effect is one atomic operation                                    *)
(***************************************************************************)

\* A POST that creates the object.
LEMMA CreateMaps ==
    ASSUME Inv, NEW r \in Requests, ExecuteCreate(r)
    PROVE  AtomicStutter \/ Atomic!Post(r)
<1> DEFINE spec == Store(req[r].want)
<1>1. req[r].call = "sent" /\ req[r].method = "POST"
  BY DEF ExecuteCreate
<1>2. PICK b \in CreateInputs :
        /\ ValidateCreateModelService(b)
        /\ spec = Store(createRequestToModelService(b))
  BY <1>1 DEF Inv, StageInv, SentInv
<1>3. CASE Refuse(r, "Invalid") \/ Refuse(r, "AlreadyExists")
  BY <1>1, <1>3, RefusedStutters
<1>4. CASE /\ CRDValid(spec) /\ ~Exists(ms) /\ ms' = NewObject(spec, {})
           /\ uids' = uids + 1 /\ Answer(r, "ok")
  <2>1. r \notin Done /\ Done' = Done \cup {r}
    BY <1>1, <1>4, AppliedOnce
  <2>2. Visible(ms)' = [uid |-> uids + 1, gen |-> 1, observed |-> 0,
                        life |-> "free", markers |-> {}, spec |-> spec]
    BY <1>4 DEF Visible, NewObject
  <2>3. Atomic!Born(spec, {})
    BY <1>4, <2>2 DEF Atomic!Born, Atomic!Present, Visible, Exists
  <2> QED
    BY <1>2, <1>4, <2>1, <2>3, SameAdmission, SameValidation,
       SameCreation DEF Atomic!Post, Atomic!Once, Done
<1> QED
  BY <1>3, <1>4 DEF ExecuteCreate

\* A PUT or PATCH whose object is still the one its handler read.
LEMMA UpdateMaps ==
    ASSUME Inv, NEW r \in Requests, ExecuteUpdate(r)
    PROVE  AtomicStutter \/ Atomic!Put(r) \/ Atomic!Patch(r)
<1> DEFINE spec == Store(req[r].want)
           snap == req[r].snap
           fits == CRDValid(spec) /\ CRDTransition(ms.spec, spec)
<1>1. req[r].call = "sent" /\ req[r].method \in {"PUT", "PATCH"}
  BY DEF ExecuteUpdate, Updated
<1>2. SentInv(req[r]) /\ SnapInv(req[r], ms, rev, uids) /\ ms \in ObjectType
  BY <1>1 DEF Inv, StageInv, TypeOK
<1>3. CASE Refuse(r, "Conflict") \/ Refuse(r, "Invalid")
  BY <1>1, <1>3, RefusedStutters
<1>4. CASE /\ UpdatePrecondition(snap) /\ fits
           /\ Answer(r, "ok") /\ UNCHANGED uids
           /\ \/ ms.spec = spec /\ UNCHANGED ms
              \/ /\ ~(ms.spec = spec /\ ms.markers = snap.markers)
                 /\ ms' = [ms EXCEPT !.rv = rev + 1, !.gen = @ + 1,
                                     !.markers = snap.markers, !.spec = spec]
  <2>1. ms = snap /\ Mutable(ms)
    BY <1>1, <1>2, <1>4 DEF SentInv, SnapInv, UpdatePrecondition, Mutable, Exists
  <2>2. r \notin Done /\ Done' = Done \cup {r}
    BY <1>1, <1>4, AppliedOnce
  <2>3. Visible(ms)' = IF spec = ms.spec THEN Visible(ms)
                       ELSE [Visible(ms) EXCEPT !.gen = @ + 1, !.spec = spec]
    BY <1>2, <1>4, <2>1, Zenon DEF Visible, ObjectType
  <2>4. Visible(ms).spec = ms.spec /\ Visible(ms).markers = ms.markers
        /\ Visible(ms).uid = ms.uid
    BY DEF Visible
  <2>5. Atomic!Replaced(spec)
    BY <1>4, <2>3, <2>4, SameAdmission DEF Atomic!Replaced
  <2>6. Atomic!Once(r) /\ Atomic!Unmanaged
    BY <2>1, <2>2, <2>4 DEF Atomic!Once, Atomic!Unmanaged, Atomic!Present, Done,
                            Mutable, Exists, GitOpsManaged
  <2>7. CASE req[r].method = "PUT"
    <3>1. /\ req[r].body \in UpdateInputs
          /\ ValidateCreateModelService(Completed(req[r].body, ms.spec))
          /\ spec = Store(applyUpdateRequest(ms.spec,
                                             Completed(req[r].body, ms.spec)))
      BY <1>2, <2>1, <2>7 DEF SentInv
    <3> QED
      BY ZenonT(30), <2>4, <2>5, <2>6, <3>1, SameAdmission, SameValidation, SameUpdate
      DEF Atomic!Put
  <2>8. CASE req[r].method = "PATCH"
    <3>1. /\ req[r].body \in PatchInputs /\ hasPatchFields(req[r].body)
          /\ ValidateCreateModelService(modelServiceToUpdateRequest(req[r].want))
          /\ req[r].want = applyPatchRequest(ms.spec, req[r].body)
      BY <1>2, <2>1, <2>8 DEF SentInv
    <3>2. Atomic!applyPatchRequest(Visible(ms).spec, req[r].body) = req[r].want
      BY <2>4, <3>1, SamePatch
    <3>3. /\ Atomic!hasPatchFields(req[r].body)
          /\ Atomic!ValidateCreateModelService(
                 Atomic!modelServiceToUpdateRequest(req[r].want))
          /\ Atomic!Replaced(Atomic!Store(req[r].want))
      BY <2>5, <3>1, SameAdmission, SameValidation, SamePatch
    <3> QED
      BY <2>6, <3>1, <3>2, <3>3, SMTT(30) DEF Atomic!Patch
  <2> QED
    BY <1>1, <2>7, <2>8
<1> QED
  BY <1>3, <1>4 DEF ExecuteUpdate, Updated, Refuse

\* The end of an object, and its announcement, are the same in both.
LEMMA RemovedInBoth ==
    ASSUME ms.uid # 0, ms' = NoObject, UNCHANGED uids
    PROVE  Atomic!Gone
<1>1. Visible(ms)' = Atomic!Absent
  BY SameCreation DEF Visible, NoObject, Atomic!Absent
<1>2. Visible(ms).uid # 0
  BY DEF Visible
<1> QED
  BY <1>1, <1>2 DEF Atomic!Gone, Atomic!Present

LEMMA CondemnedInBoth ==
    ASSUME Inv, ms.uid # 0, ms' = Condemned, UNCHANGED uids
    PROVE  Atomic!Condemned
<1>1. ms \in ObjectType
  BY DEF Inv, TypeOK
<1> DEFINE seen == Visible(ms)
<1>2. Visible(ms)' = [seen EXCEPT !.gen = @ + 1, !.life = "deleting"]
  <2>1. Visible(ms)' = [uid |-> seen.uid, gen |-> seen.gen + 1,
                        observed |-> seen.observed, life |-> "deleting",
                        markers |-> seen.markers, spec |-> seen.spec]
    BY <1>1, Zenon DEF Condemned, Visible, ObjectType
  <2>2. seen \in [uid : Nat, gen : Nat, observed : Nat, life : Lives,
                  markers : SUBSET Markers, spec : SpecType]
    BY <1>1, Zenon DEF Visible, ObjectType
  <2> HIDE DEF seen
  <2>3. ASSUME NEW g, g = [seen EXCEPT !.gen = @ + 1, !.life = "deleting"]
        PROVE  g = [uid |-> seen.uid, gen |-> seen.gen + 1,
                    observed |-> seen.observed, life |-> "deleting",
                    markers |-> seen.markers, spec |-> seen.spec]
    BY <2>2, <2>3, Zenon
  <2> QED
    BY <2>1, <2>3, Zenon
<1>3. seen.uid # 0
  BY DEF Visible
<1> QED
  BY <1>2, <1>3, Zenon DEF Atomic!Condemned, Atomic!Present

\* A DELETE whose object is still the one its handler inspected.
LEMMA DeleteMaps ==
    ASSUME Inv, NEW r \in Requests, ExecuteDelete(r)
    PROVE  AtomicStutter \/ Atomic!Delete(r)
<1>1. req[r].call = "sent" /\ req[r].method = "DELETE"
  BY DEF ExecuteDelete
<1>2. SentInv(req[r]) /\ SnapInv(req[r], ms, rev, uids)
  BY <1>1 DEF Inv, StageInv
<1>3. CASE Refuse(r, "NotFound") \/ Refuse(r, "Conflict")
  BY <1>1, <1>3, RefusedStutters
<1>4. CASE /\ Exists(ms) /\ DeletePreconditions(req[r].snap)
           /\ \/ ms.life = "free" /\ ms' = NoObject
              \/ ms.life = "held" /\ ms' = Condemned
              \/ ms.life = "deleting" /\ UNCHANGED ms
           /\ Answer(r, "ok") /\ UNCHANGED uids
  <2>1. Mutable(ms) /\ ms \in ObjectType
    BY <1>1, <1>2, <1>4 DEF Inv, TypeOK, SentInv, SnapInv, DeletePreconditions,
                            Mutable
  <2>2. r \notin Done /\ Done' = Done \cup {r}
    BY <1>1, <1>4, AppliedOnce
  <2>3. Visible(ms).markers = {} /\ Visible(ms).uid # 0
        /\ Visible(ms).life = ms.life
    BY <2>1 DEF Visible, Mutable, Exists, GitOpsManaged
  <2>4. Atomic!Once(r) /\ Atomic!Unmanaged
    BY <2>2, <2>3 DEF Atomic!Once, Atomic!Unmanaged, Atomic!Present, Done
  <2>5. CASE ms.life = "free" /\ ms' = NoObject
    BY <1>4, <2>3, <2>4, <2>5, RemovedInBoth, Zenon DEF Atomic!Delete, Exists
  <2>6. CASE ms.life = "held" /\ ms' = Condemned
    BY <1>4, <2>3, <2>4, <2>6, CondemnedInBoth, Zenon DEF Atomic!Delete, Exists
  <2>7. CASE ms.life = "deleting" /\ UNCHANGED ms
    <3>1. UNCHANGED Visible(ms)
      BY <2>7 DEF Visible
    <3> QED
      BY <1>4, <2>3, <2>4, <2>7, <3>1, Zenon DEF Atomic!Delete
  <2> QED
    BY <1>4, <2>5, <2>6, <2>7
<1> QED
  BY <1>3, <1>4, Zenon DEF ExecuteDelete

\* kubectl, Argo CD and the operator write at one instant in both.
LEMMA OutsideMaps ==
    ASSUME Inv, Outside
    PROVE  Atomic!Outside
<1>1. UNCHANGED req /\ ms \in ObjectType
  BY Zenon DEF Inv, TypeOK, Outside, OutsideCreate, OutsideEdit, OutsideMark,
         OutsideDelete, OutsideHold, OutsideRelease, OperatorStatus
<1>2. UNCHANGED Done
  BY <1>1 DEF Done
<1>3. /\ Visible(ms).spec = ms.spec /\ Visible(ms).uid = ms.uid
      /\ Visible(ms).gen = ms.gen /\ Visible(ms).life = ms.life
  BY DEF Visible
<1>4. CASE OutsideCreate
  <2>1. PICK spec \in AppliedSpecs, m \in SUBSET Markers :
          ms' = NewObject(spec, m)
    BY <1>4 DEF OutsideCreate
  <2>2. Visible(ms)' = [uid |-> uids + 1, gen |-> 1, observed |-> 0,
                        life |-> "free", markers |-> m, spec |-> spec]
    BY <2>1 DEF Visible, NewObject
  <2>3. Atomic!Born(spec, m)
    BY <1>3, <1>4, <2>2 DEF OutsideCreate, Atomic!Born, Atomic!Present, Exists
  <2> QED
    BY <1>2, <2>3 DEF Atomic!Outside, Done
<1>5. CASE OutsideEdit
  <2>1. PICK spec \in AppliedSpecs \ {ms.spec} :
          /\ CRDTransition(ms.spec, spec)
          /\ ms' = [ms EXCEPT !.rv = rev + 1, !.gen = @ + 1, !.spec = spec]
    BY <1>5, Zenon DEF OutsideEdit
  <2>2. spec \in SpecType /\ spec # ms.spec
    BY InputConstants
  <2>4. Visible(ms)' = IF spec = ms.spec THEN Visible(ms)
                       ELSE [Visible(ms) EXCEPT !.gen = @ + 1, !.spec = spec]
    BY <1>1, <2>1, <2>2, Zenon DEF Visible, ObjectType
  <2>3. CRDValid(spec)
    BY InputConstants
  <2>5. Atomic!Present /\ Atomic!Replaced(spec)
    BY <1>3, <1>5, <2>1, <2>3, <2>4, SameAdmission
    DEF OutsideEdit, Atomic!Replaced, Atomic!Present, Exists
  <2> QED
    BY <1>2, <2>5, SMTT(30) DEF Atomic!Outside, Done
<1>6. CASE OutsideMark
  <2>1. PICK m \in SUBSET Markers :
          ms' = [ms EXCEPT !.rv = rev + 1, !.markers = m]
    BY <1>6, Zenon DEF OutsideMark
  <2>2. Visible(ms)' = [Visible(ms) EXCEPT !.markers = m]
    BY <1>1, <2>1 DEF Visible, ObjectType
  <2>3. Atomic!Present /\ UNCHANGED uids
    BY <1>3, <1>6 DEF OutsideMark, Atomic!Present, Exists
  <2> QED
    BY <1>2, <2>2, <2>3, Zenon DEF Atomic!Outside, Done
<1>7. CASE OutsideDelete
  <2>1. \/ ms.life = "free" /\ Atomic!Gone
        \/ ms.life # "deleting" /\ Atomic!Condemned
    BY <1>7, RemovedInBoth, CondemnedInBoth, Zenon DEF OutsideDelete, Exists
  <2>2. ms.life = "free" => ms.life # "held"
    OBVIOUS
  <2> QED
    BY <1>2, <1>3, <2>1, <2>2, Zenon DEF Atomic!Outside, Done
<1>8. CASE OperatorStatus
  <2>1. Visible(ms)' = [Visible(ms) EXCEPT !.observed = Visible(ms).gen]
    BY <1>1, <1>3, <1>8 DEF OperatorStatus, Visible, ObjectType
  <2>2. Atomic!Present /\ UNCHANGED uids
    BY <1>3, <1>8 DEF OperatorStatus, Atomic!Present, Exists
  <2> QED
    BY <1>2, <2>1, <2>2 DEF Atomic!Outside, Done
<1>9. ASSUME NEW l \in {"free", "held"}, Exists(ms), ms.life # "deleting",
             ms' = [ms EXCEPT !.rv = rev + 1, !.life = l], UNCHANGED uids
      PROVE  Atomic!Outside
  <2>1. Visible(ms)' = [Visible(ms) EXCEPT !.life = l]
    BY <1>1, <1>9 DEF Visible, ObjectType
  <2>2. Atomic!Present /\ Visible(ms).life # "deleting"
    BY <1>3, <1>9 DEF Atomic!Present, Exists
  <2> QED
    BY <1>2, <1>9, <2>1, <2>2, Zenon DEF Atomic!Outside, Done
<1>10. CASE OutsideHold
  BY <1>9, <1>10, Zenon DEF OutsideHold
<1>11. CASE OutsideRelease
  <2>1. CASE ms.life = "held"
    BY <1>9, <1>11, <2>1 DEF OutsideRelease
  <2>2. CASE ms.life = "deleting"
    <3>1. Atomic!Gone
      BY <1>11, <2>2, RemovedInBoth DEF OutsideRelease, Exists
    <3>2. Visible(ms).life # "held"
      BY <1>3, <2>2
    <3> QED
      BY <1>2, <3>1, <3>2, Zenon DEF Atomic!Outside, Done
  <2> QED
    BY <1>11, <2>1, <2>2 DEF OutsideRelease
<1> QED
  BY <1>4, <1>5, <1>6, <1>7, <1>8, <1>10, <1>11, Zenon DEF Outside

\* The read-decide-write handlers, with their timeouts and crashes and with
\* writes that arrive late or never, implement atomic operations: whatever a
\* client does, the object changes as if each request read, checked and wrote
\* it at one instant, at most once, and never while GitOps manages it.
THEOREM Refinement == Spec => ImplementsAtomic
<1>1. Init => Atomic!Init
  BY SameCreation
  DEF Init, Atomic!Init, Visible, NoObject, Atomic!Absent, Idle
<1>2. Inv /\ [Next]_vars =>
        [Atomic!Next]_<<Visible(ms), uids, {r \in Requests : req[r].call = "ok"}>>
  <2> SUFFICES ASSUME Inv, [Next]_vars
               PROVE  Atomic!Next \/ UNCHANGED <<Visible(ms), uids, Done>>
    BY DEF Done
  <2>1. ASSUME NEW r \in Requests, Receive(r) \/ Handler(r)
        PROVE  UNCHANGED <<Visible(ms), uids, Done>>
    BY <2>1, HandlersStutter, StutterMaps
  <2>2. ASSUME NEW r \in Requests, APIServer(r)
        PROVE  Atomic!Next \/ UNCHANGED <<Visible(ms), uids, Done>>
    <3>1. CASE LoseCall(r)
      BY <3>1, RefusedStutters, StutterMaps DEF LoseCall
    <3>2. CASE ExecuteCreate(r) \/ ExecuteUpdate(r) \/ ExecuteDelete(r)
      <4>1. \/ AtomicStutter
            \/ Atomic!Post(r) \/ Atomic!Put(r) \/ Atomic!Patch(r)
            \/ Atomic!Delete(r)
        BY <3>2, CreateMaps, UpdateMaps, DeleteMaps
      <4> QED
        BY <4>1, StutterMaps DEF Atomic!Next
    <3> QED
      BY <2>2, <3>1, <3>2 DEF APIServer
  <2>3. CASE Crash
    BY <2>3, CrashStutters, StutterMaps
  <2>4. CASE Outside
    BY <2>4, OutsideMaps DEF Atomic!Next
  <2>5. CASE UNCHANGED vars
    BY <2>5 DEF vars, Visible, Done
  <2> QED
    BY <2>1, <2>2, <2>3, <2>4, <2>5 DEF Next
<1> QED
  BY <1>1, <1>2, Invariance, PTL DEF Spec, ImplementsAtomic, Atomic!Spec

(***************************************************************************)
(* RestApi implements MutatingHandler, which ApiServer puts in the place   *)
(* of the handlers                                                         *)
(***************************************************************************)

\* The handlers as MutatingHandler sees them.
Outlines == [r \in Requests |-> Outline(req[r])]

\* A step of one handler changes one outline.
LEMMA OneOutline ==
    ASSUME Inv, NEW r \in Requests, NEW q, req' = [req EXCEPT ![r] = q]
    PROVE  Outlines' = [Outlines EXCEPT ![r] = Outline(q)]
  BY Zenon DEF Inv, TypeOK, Outlines

\* The stages and outcomes of the handlers in the terms of an outline.
LEMMA OutlineTerms ==
    /\ OutlineStage("idle") = "handling" /\ OutlineStage("get") = "handling"
    /\ OutlineStage("write") = "handling" /\ OutlineStage("done") = "answered"
    /\ OutlineStage("gone") = "lost"
    /\ OutlineCall("none") = "none" /\ OutlineCall("sent") = "outstanding"
    /\ OutlineCall("lost") = "outstanding" /\ OutlineCall("ok") = "applied"
    /\ OutlineCall("NotFound") = "gone" /\ OutlineCall("Conflict") = "refused"
    /\ OutlineCall("AlreadyExists") = "refused"
    /\ OutlineCall("Invalid") = "refused"
  BY DEF OutlineStage, OutlineCall

\* The fields of an outline.
LEMMA OutlineFields ==
    ASSUME NEW q
    PROVE  /\ Outline(q).stage = OutlineStage(q.pc)
           /\ Outline(q).method = q.method
           /\ Outline(q).call = OutlineCall(q.call)
           /\ Outline(q).code = q.resp
  BY DEF Outline

\* A handler takes up its request.
LEMMA BeginMaps ==
    ASSUME Inv, NEW r \in Requests, NEW q \in RequestType,
           req' = [req EXCEPT ![r] = q],
           req[r].pc = "idle", q.pc = "get", q.call = req[r].call,
           q.resp = req[r].resp
    PROVE  Mutation!Begin(r, q.method)
<1>1. /\ Outlines' = [Outlines EXCEPT ![r] = Outline(q)]
      /\ Outlines[r] = Outline(req[r])
  BY OneOutline, Zenon DEF Outlines
<1>2. req[r].method = "none"
  BY DEF Inv, StageInv
<1>3. Mutation!Handles(r, q.method)
  BY <1>1, <1>2, OutlineFields, OutlineTerms DEF Mutation!Handles, Outlines
<1>4. Outline(q) = [stage |-> "handling", method |-> q.method,
                    call |-> Outlines[r].call, code |-> Outlines[r].code]
  BY <1>1, OutlineFields, OutlineTerms DEF Outline
<1> QED
  BY <1>1, <1>3, <1>4 DEF Mutation!Begin, Mutation!Become, Outlines

\* A handler sends its call.
LEMMA SendMaps ==
    ASSUME Inv, NEW r \in Requests, NEW q \in RequestType,
           req' = [req EXCEPT ![r] = q],
           req[r].pc \in {"idle", "get"}, q.pc = "write", q.call = "sent",
           q.resp = req[r].resp, req[r].method \in {"none", q.method}
    PROVE  Mutation!SendCall(r, q.method)
<1>1. /\ Outlines' = [Outlines EXCEPT ![r] = Outline(q)]
      /\ Outlines[r] = Outline(req[r])
  BY OneOutline, Zenon DEF Outlines
<1>2. req[r].call = "none"
  BY DEF Inv, StageInv
<1>3. Mutation!Handles(r, q.method) /\ Outlines[r].call = "none"
  BY <1>1, <1>2, OutlineFields, OutlineTerms DEF Mutation!Handles, Outlines
<1>4. Outline(q) = [stage |-> "handling", method |-> q.method,
                    call |-> "outstanding", code |-> Outlines[r].code]
  BY <1>1, OutlineFields, OutlineTerms DEF Outline
<1> QED
  BY <1>1, <1>3, <1>4 DEF Mutation!SendCall, Mutation!Become, Outlines

\* A handler answers, with a code its outline allows.
LEMMA AnswerMaps ==
    ASSUME Inv, NEW r \in Requests, NEW q \in RequestType,
           req' = [req EXCEPT ![r] = q],
           req[r].pc \in {"idle", "get", "write"}, q.pc = "done",
           req[r].method \in {"none", q.method}, q.call = req[r].call,
           q.resp \in Mutation!AnswerCodes(q.method, OutlineCall(req[r].call))
    PROVE  Mutation!Answer(r, q.method)
<1>1. /\ Outlines' = [Outlines EXCEPT ![r] = Outline(q)]
      /\ Outlines[r] = Outline(req[r])
  BY OneOutline, Zenon DEF Outlines
<1>2. OutlineStage(req[r].pc) = "handling"
  BY OutlineTerms
<1>3. Mutation!Handles(r, q.method)
  BY <1>1, <1>2, OutlineFields DEF Mutation!Handles, Outlines
<1>4. Outlines[r].call = OutlineCall(req[r].call)
  BY <1>1, OutlineFields
<1>5. Outline(q) = [stage |-> "answered", method |-> q.method,
                    call |-> Outlines[r].call, code |-> q.resp]
  BY <1>4, OutlineTerms DEF Outline
<1> QED
  BY ZenonT(60), <1>1, <1>3, <1>4, <1>5 DEF Mutation!Answer, Mutation!Become, Outlines

\* The API server handles a call, or it is lost and nobody can tell.
LEMMA OutcomeMaps ==
    ASSUME Inv, NEW r \in Requests, req[r].call = "sent",
           NEW outcome \in Outcomes \ {"none", "sent"}, Answer(r, outcome)
    PROVE  Mutation!ServerHandles(r) \/ UNCHANGED Outlines
<1> DEFINE q == [req[r] EXCEPT !.call = outcome]
<1>1. req \in [Requests -> RequestType] /\ req[r] \in RequestType
  BY DEF Inv, TypeOK
<1>2. req' = [req EXCEPT ![r] = q]
  BY <1>1 DEF Answer
<1>3. /\ q.pc = req[r].pc /\ q.method = req[r].method /\ q.resp = req[r].resp
      /\ q.call = outcome
  BY <1>1 DEF RequestType
<1> HIDE DEF q
<1>4. /\ Outlines' = [Outlines EXCEPT ![r] = Outline(q)]
      /\ Outlines[r] = Outline(req[r])
  BY <1>2, OneOutline, Zenon DEF Outlines
<1>5. /\ Outline(q) = [stage |-> Outlines[r].stage,
                       method |-> Outlines[r].method,
                       call |-> OutlineCall(outcome),
                       code |-> Outlines[r].code]
      /\ Outlines[r].call = "outstanding"
  BY <1>3, <1>4, OutlineFields, OutlineTerms DEF Outline
<1>6. CASE outcome = "lost"
  <2>1. Outline(q) = Outline(req[r])
    BY <1>3, <1>6, OutlineTerms DEF Outline
  <2>2. UNCHANGED Outlines
    BY <1>4, <2>1, Zenon DEF Outlines
  <2> QED
    BY <2>2
<1>7. CASE outcome # "lost"
  <2>1. OutlineCall(outcome) \in Mutation!Results
    BY <1>7, OutlineTerms DEF Outcomes, Mutation!Results
  <2> QED
    BY <1>4, <1>5, <2>1, Zenon
    DEF Mutation!ServerHandles, Mutation!Become, Outlines
<1> QED
  BY <1>6, <1>7

\* The death of the process.
LEMMA ExitMaps ==
    ASSUME Inv, Crash
    PROVE  Mutation!Exit
<1>1. ASSUME NEW r \in Requests
      PROVE  Outline(req'[r]) =
               IF /\ Outline(req[r]).stage = "handling"
                  /\ Outline(req[r]).method # "none"
               THEN [Outline(req[r]) EXCEPT !.stage = "lost"]
               ELSE Outline(req[r])
  <2>1. req[r] \in RequestType /\ (req[r].pc = "idle" <=> req[r].method = "none")
    BY DEF Inv, TypeOK, StageInv
  <2>2. /\ Outline(req[r]).stage = OutlineStage(req[r].pc)
        /\ Outline(req[r]).method = req[r].method
    BY DEF Outline
  <2>3. CASE req[r].pc \in {"get", "write"}
    <3>1. req'[r] = [req[r] EXCEPT !.pc = "gone"]
      BY <2>3 DEF Crash
    <3>2. Outline(req'[r]) = [Outline(req[r]) EXCEPT !.stage = "lost"]
      BY <2>1, <3>1, OutlineTerms DEF Outline, RequestType
    <3> QED
      BY <2>1, <2>2, <2>3, <3>2, OutlineTerms
  <2>4. CASE req[r].pc \notin {"get", "write"}
    <3>1. req'[r] = req[r]
      BY <2>4 DEF Crash
    <3>2. req[r].pc \in {"idle", "done", "gone"}
      BY <2>1, <2>4 DEF RequestType
    <3> QED
      BY <2>1, <2>2, <3>1, <3>2, OutlineTerms
  <2> QED
    BY <2>3, <2>4
<1> QED
  BY <1>1 DEF Mutation!Exit

\* The status codes of the handlers are among those their outlines allow.
LEMMA FittingCodes ==
    /\ \A m, c : 503 \in Mutation!AnswerCodes(m, c)
    /\ \A m \in {"POST", "PUT", "PATCH"} :
         RejectCodes(m) \subseteq Mutation!AnswerCodes(m, "none")
    /\ \A m : 400 \in Mutation!AnswerCodes(m, "none")
    /\ \A m \in {"PUT", "PATCH", "DELETE"} :
         {404, 409} \subseteq Mutation!AnswerCodes(m, "none")
    /\ \A m, c : c \in Outcomes \ {"none", "sent", "lost"} =>
         StatusOf(m, c) \in Mutation!AnswerCodes(m, OutlineCall(c))
<1>1. \A m, c : 503 \in Mutation!AnswerCodes(m, c)
  BY DEF Mutation!AnswerCodes
<1>2. \A m : Mutation!RejectCodes(m) \subseteq Mutation!AnswerCodes(m, "none")
  BY DEF Mutation!AnswerCodes
<1>3. /\ \A m \in {"POST", "PUT", "PATCH"} :
           RejectCodes(m) \subseteq Mutation!RejectCodes(m)
      /\ \A m : 400 \in Mutation!RejectCodes(m)
      /\ \A m \in {"PUT", "PATCH", "DELETE"} :
           {404, 409} \subseteq Mutation!RejectCodes(m)
  BY DEF RejectCodes, Mutation!RejectCodes
<1>4. ASSUME NEW m, NEW c \in Outcomes \ {"none", "sent", "lost"}
      PROVE  StatusOf(m, c) \in Mutation!AnswerCodes(m, OutlineCall(c))
  <2>1. CASE c = "ok"
    <3>1. StatusOf(m, c) = Mutation!SuccessCode(m)
      BY <2>1 DEF StatusOf, Mutation!SuccessCode
    <3> QED
      BY <2>1, <3>1, OutlineTerms DEF Mutation!AnswerCodes
  <2>2. CASE c = "NotFound"
    <3>1. OutlineCall(c) = "gone"
      BY <2>2, OutlineTerms
    <3>2. CASE m = "DELETE"
      <4>1. StatusOf(m, c) = 204
        BY <2>2, <3>2 DEF StatusOf
      <4>2. 204 \in Mutation!AnswerCodes(m, "gone")
        BY <3>2 DEF Mutation!AnswerCodes
      <4> QED
        BY <3>1, <4>1, <4>2
    <3>3. CASE m # "DELETE"
      <4>1. StatusOf(m, c) = 503
        BY <2>2, <3>3 DEF StatusOf
      <4> QED
        BY <1>1, <4>1
    <3> QED
      BY <3>2, <3>3
  <2>3. CASE c \in {"AlreadyExists", "Conflict", "Invalid"}
    <3>1. StatusOf(m, c) \in {409, 503} /\ OutlineCall(c) = "refused"
      BY <2>3, OutlineTerms DEF StatusOf
    <3> QED
      BY <3>1 DEF Mutation!AnswerCodes
  <2> QED
    BY <2>1, <2>2, <2>3 DEF Outcomes
<1> QED
  BY <1>1, <1>2, <1>3, <1>4

\* The arrival of a request.
LEMMA ReceiveMaps ==
    ASSUME Inv, NEW r \in Requests, Receive(r)
    PROVE  \E m \in {"POST", "PUT", "PATCH", "DELETE"} :
             \/ Mutation!Begin(r, m) \/ Mutation!SendCall(r, m)
             \/ Mutation!Answer(r, m)
<1>1. req \in [Requests -> RequestType] /\ req[r] \in RequestType
  BY SMTT(30) DEF Inv, TypeOK
<1>2. /\ req[r].pc = "idle" /\ req[r].call = "none" /\ req[r].method = "none"
  BY Zenon DEF Inv, StageInv, Receive, RejectRequest, ReceivePost, ReceivePut,
         ReceivePatch, ReceiveDelete
<1>3. ASSUME NEW m \in {"POST", "PUT", "PATCH"},
             NEW code \in Codes, code \in Mutation!AnswerCodes(m, "none"),
             req' = [req EXCEPT ![r].pc = "done", ![r].method = m,
                                ![r].resp = code]
      PROVE  Mutation!Answer(r, m)
  <2> DEFINE q == [req[r] EXCEPT !.pc = "done", !.method = m, !.resp = code]
  <2>1. q \in RequestType /\ req' = [req EXCEPT ![r] = q]
    BY <1>1, <1>3, ZenonT(30) DEF RequestType
  <2>2. /\ q.pc = "done" /\ q.method = m /\ q.resp = code
        /\ q.call = req[r].call
    BY <1>1 DEF RequestType
  <2> HIDE DEF q
  <2>3. q.resp \in Mutation!AnswerCodes(q.method, OutlineCall(req[r].call))
    BY <1>2, <1>3, <2>2, OutlineTerms
  <2> QED
    BY <1>2, <2>1, <2>2, <2>3, AnswerMaps, Zenon
<1>4. ASSUME NEW m \in {"PUT", "PATCH", "DELETE"}, NEW b \in Bodies,
             req' = [req EXCEPT ![r].pc = "get", ![r].method = m,
                                ![r].body = b]
      PROVE  Mutation!Begin(r, m)
  <2> DEFINE q == [req[r] EXCEPT !.pc = "get", !.method = m, !.body = b]
  <2>1. q \in RequestType /\ req' = [req EXCEPT ![r] = q]
    BY <1>1, <1>4, Zenon DEF RequestType
  <2>2. /\ q.pc = "get" /\ q.method = m /\ q.resp = req[r].resp
        /\ q.call = req[r].call
    BY <1>1 DEF RequestType
  <2> HIDE DEF q
  <2> QED
    BY <1>2, <2>1, <2>2, BeginMaps, Zenon
<1>5. CASE RejectRequest(r)
  <2>1. PICK m \in {"POST", "PUT", "PATCH"} : \E code \in RejectCodes(m) :
          req' = [req EXCEPT ![r].pc = "done", ![r].method = m,
                             ![r].resp = code]
    BY <1>5, Zenon DEF RejectRequest
  <2>2. PICK code \in RejectCodes(m) :
          req' = [req EXCEPT ![r].pc = "done", ![r].method = m,
                             ![r].resp = code]
    BY <2>1, ZenonT(30)
  <2>3. code \in Codes
    BY DEF RejectCodes, Codes
  <2>4. code \in Mutation!AnswerCodes(m, "none")
    BY FittingCodes
  <2>5. Mutation!Answer(r, m)
    BY <1>3, <2>2, <2>3, <2>4, Zenon
  <2> QED
    BY <2>5
<1>6. CASE ReceivePost(r)
  <2>1. PICK b \in CreateInputs :
          \/ req' = [req EXCEPT ![r].pc = "write", ![r].method = "POST",
                                ![r].body = b,
                                ![r].want = createRequestToModelService(b),
                                ![r].call = "sent"]
          \/ req' = [req EXCEPT ![r].pc = "done", ![r].method = "POST",
                                ![r].resp = 400]
    BY <1>6, Zenon DEF ReceivePost
  <2>2. CASE req' = [req EXCEPT ![r].pc = "done", ![r].method = "POST",
                                ![r].resp = 400]
    <3>1. 400 \in Codes
      BY DEF Codes
    <3>2. Mutation!Answer(r, "POST")
      BY ZenonT(60), <1>3, <2>2, <3>1, FittingCodes
    <3> QED
      BY <3>2
  <2>3. CASE req' = [req EXCEPT ![r].pc = "write", ![r].method = "POST",
                                ![r].body = b,
                                ![r].want = createRequestToModelService(b),
                                ![r].call = "sent"]
    <3> DEFINE want == createRequestToModelService(b)
    <3>1. want \in SpecType
      BY CreateType, InputConstants
    <3> HIDE DEF want
    <3> DEFINE q == [req[r] EXCEPT !.pc = "write", !.method = "POST",
                                   !.body = b, !.want = want, !.call = "sent"]
    <3>2. q \in RequestType
      BY <1>1, <3>1, Zenon DEF RequestType, Outcomes, Bodies
    <3>3. req' = [req EXCEPT ![r] = q]
      BY <1>1, <2>3, Zenon DEF want
    <3>4. /\ q.pc = "write" /\ q.call = "sent" /\ q.method = "POST"
          /\ q.resp = req[r].resp
      BY <1>1 DEF RequestType
    <3> HIDE DEF q
    <3>5. Mutation!SendCall(r, "POST")
      BY <1>2, <3>2, <3>3, <3>4, SendMaps, Zenon
    <3> QED
      BY <3>5
  <2> QED
    BY <2>1, <2>2, <2>3, Zenon
<1>7. CASE ReceivePut(r)
  BY <1>4, <1>7, Zenon DEF ReceivePut, Bodies
<1>8. CASE ReceivePatch(r)
  <2>1. PICK p \in PatchInputs :
          \/ req' = [req EXCEPT ![r].pc = "get", ![r].method = "PATCH",
                                ![r].body = p]
          \/ req' = [req EXCEPT ![r].pc = "done", ![r].method = "PATCH",
                                ![r].resp = 400]
    BY <1>8 DEF ReceivePatch
  <2>2. 400 \in Codes
    BY DEF Codes
  <2>3. 400 \in Mutation!AnswerCodes("PATCH", "none") /\ p \in Bodies
    BY FittingCodes, SMTT(30) DEF Bodies
  <2>4. Mutation!Begin(r, "PATCH") \/ Mutation!Answer(r, "PATCH")
    BY <1>3, <1>4, <2>1, <2>2, <2>3, ZenonT(30)
  <2> QED
    BY <2>4
<1>9. CASE ReceiveDelete(r)
  <2>1. req' = [req EXCEPT ![r].pc = "get", ![r].method = "DELETE",
                           ![r].body = req[r].body]
    BY <1>1, <1>9, Zenon DEF ReceiveDelete, RequestType
  <2>2. req[r].body \in Bodies
    BY <1>1 DEF RequestType
  <2>3. Mutation!Begin(r, "DELETE")
    BY <1>4, <2>1, <2>2, ZenonT(30)
  <2> QED
    BY <2>3
<1> QED
  BY <1>5, <1>6, <1>7, <1>8, <1>9 DEF Receive

\* A handler at work: it answers or sends its call.
LEMMA HandlerMaps ==
    ASSUME Inv, Inv', NEW r \in Requests, Handler(r)
    PROVE  \E m \in {"POST", "PUT", "PATCH", "DELETE"} :
             Mutation!SendCall(r, m) \/ Mutation!Answer(r, m)
<1> DEFINE m == req[r].method
<1>1. /\ req \in [Requests -> RequestType] /\ req[r] \in RequestType
      /\ req' \in [Requests -> RequestType] /\ req'[r] \in RequestType
  BY DEF Inv, TypeOK
<1>2. /\ req[r].pc \in {"get", "write"}
      /\ m \in {"POST", "PUT", "PATCH", "DELETE"}
  <2>1. req[r].pc \in {"get", "write"}
    BY ZenonT(30) DEF Handler, LoadRejected, LoadForPut, LoadForPatch, LoadForDelete,
           LoadFailed, Reply, WriteTimeout, Loading
  <2>2. req[r].pc = "idle" <=> m = "none"
    BY Zenon DEF Inv, StageInv
  <2> QED
    BY <1>1, <2>1, <2>2 DEF RequestType
<1>3. req[r].pc = "get" =>
        req[r].call = "none" /\ m \in {"PUT", "PATCH", "DELETE"}
  BY DEF Inv, StageInv
<1>4. ASSUME NEW code \in Mutation!AnswerCodes(m, OutlineCall(req[r].call)),
             Respond(r, code)
      PROVE  Mutation!Answer(r, m)
  <2> DEFINE q == [req[r] EXCEPT !.pc = "done", !.resp = code]
  <2>1. req' = [req EXCEPT ![r] = q]
    BY <1>1, <1>4, Zenon DEF Respond
  <2>2. q \in RequestType
    BY <1>1, <2>1
  <2>3. /\ q.pc = "done" /\ q.method = m /\ q.resp = code
        /\ q.call = req[r].call
    BY <1>1 DEF RequestType
  <2> HIDE DEF q
  <2> QED
    BY <1>2, <1>4, <2>1, <2>2, <2>3, AnswerMaps, Zenon
<1>5. ASSUME NEW want, req[r].pc = "get", Send(r, want)
      PROVE  Mutation!SendCall(r, m)
  <2> DEFINE q == [req[r] EXCEPT !.pc = "write", !.snap = ms, !.want = want,
                                 !.call = "sent"]
  <2>1. req' = [req EXCEPT ![r] = q]
    BY <1>1, <1>5, Zenon DEF Send
  <2>2. q \in RequestType
    BY <1>1, <2>1
  <2>3. /\ q.pc = "write" /\ q.method = m /\ q.resp = req[r].resp
        /\ q.call = "sent"
    BY <1>1 DEF RequestType
  <2> HIDE DEF q
  <2> QED
    BY <1>5, <2>1, <2>2, <2>3, SendMaps, Zenon
<1>6. /\ 503 \in Mutation!AnswerCodes(m, OutlineCall(req[r].call))
      /\ req[r].pc = "get" =>
           {400, 404, 409} \subseteq
             Mutation!AnswerCodes(m, OutlineCall(req[r].call))
  BY <1>3, FittingCodes, OutlineTerms
<1>7. Mutation!SendCall(r, m) \/ Mutation!Answer(r, m)
  <2>1. CASE LoadRejected(r)
    BY <1>4, <1>6, <2>1, SMTT(30) DEF LoadRejected
  <2>2. CASE LoadForPut(r)
    <3>1. req[r].pc = "get" /\ ((\E want : Send(r, want)) \/ Respond(r, 400))
      BY <2>2, ZenonT(30) DEF LoadForPut, Loading
    <3> QED
      BY <1>4, <1>5, <1>6, <3>1
  <2>3. CASE LoadForPatch(r)
    <3>1. req[r].pc = "get" /\ ((\E want : Send(r, want)) \/ Respond(r, 400))
      BY <2>3 DEF LoadForPatch, Loading
    <3> QED
      BY <1>4, <1>5, <1>6, <3>1
  <2>4. CASE LoadForDelete(r)
    BY <1>5, <2>4, SMTT(30) DEF LoadForDelete, Loading
  <2>5. CASE LoadFailed(r)
    BY <1>4, <1>6, <2>5 DEF LoadFailed
  <2>6. CASE Reply(r)
    <3>1. req[r].call \in Outcomes \ {"none", "sent", "lost"}
      <4>1. req[r].pc = "write" /\ req[r].call \notin {"sent", "lost"}
        BY <2>6, ZenonT(60) DEF Reply
      <4>2. req[r].pc = "write" => req[r].call # "none"
        BY DEF Inv, StageInv
      <4> QED
        BY <1>1, <4>1, <4>2 DEF RequestType
    <3>2. Respond(r, StatusOf(m, req[r].call))
      BY <2>6 DEF Reply
    <3>3. StatusOf(m, req[r].call)
            \in Mutation!AnswerCodes(m, OutlineCall(req[r].call))
      BY <3>1, FittingCodes
    <3> QED
      BY <1>4, <3>2, <3>3
  <2>7. CASE WriteTimeout(r)
    BY <1>4, <1>6, <2>7 DEF WriteTimeout
  <2> QED
    BY <2>1, <2>2, <2>3, <2>4, <2>5, <2>6, <2>7, ZenonT(30) DEF Handler
<1> QED
  BY <1>2, <1>7

\* The API server handles a call, or the call is lost.
LEMMA ServerMaps ==
    ASSUME Inv, NEW r \in Requests, APIServer(r)
    PROVE  Mutation!ServerHandles(r) \/ UNCHANGED Outlines
<1>1. /\ req[r].call = "sent"
      /\ \E outcome \in Outcomes \ {"none", "sent"} : Answer(r, outcome)
  BY DEF APIServer, ExecuteCreate, ExecuteUpdate, Updated, ExecuteDelete, LoseCall,
         Refuse, Outcomes
<1> QED
  BY <1>1, OutcomeMaps

\* ApiServer puts the outline of MutatingHandler in the place of the mutating
\* handlers.  The handlers of RestApi keep to it: one answer, one call to the
\* API server at most, a status code that fits what became of the call, and
\* an outcome that may still arrive after the handler has given up or died.
THEOREM HandlersKeepToOutline == Spec => KeepsToOutline
<1>1. Init => Mutation!Init
  <2> SUFFICES ASSUME Init PROVE Mutation!Init
    OBVIOUS
  <2>1. \A r \in Requests : Outline(req[r]) =
          [stage |-> "handling", method |-> "none", call |-> "none", code |-> 0]
    BY OutlineTerms DEF Init, Idle, Outline
  <2> QED
    BY <2>1 DEF Mutation!Init
<1>2. Inv /\ Inv' /\ [Next]_vars => [Mutation!Next]_Outlines
  <2> SUFFICES ASSUME Inv, Inv', [Next]_vars
               PROVE  Mutation!Next \/ UNCHANGED Outlines
    OBVIOUS
  <2>1. ASSUME NEW r \in Requests, Receive(r)
        PROVE  Mutation!Next
    BY <2>1, ReceiveMaps DEF Mutation!Next
  <2>2. ASSUME NEW r \in Requests, Handler(r)
        PROVE  Mutation!Next
    BY <2>2, HandlerMaps DEF Mutation!Next
  <2>3. ASSUME NEW r \in Requests, APIServer(r)
        PROVE  Mutation!Next \/ UNCHANGED Outlines
    BY <2>3, ServerMaps DEF Mutation!Next
  <2>4. CASE Crash
    BY <2>4, ExitMaps DEF Mutation!Next
  <2>5. CASE Outside \/ UNCHANGED vars
    <3>1. UNCHANGED req
      BY <2>5, Zenon DEF Outside, OutsideCreate, OutsideEdit, OutsideMark,
                  OutsideDelete, OutsideHold, OutsideRelease, OperatorStatus,
                  vars
    <3> QED
      BY <3>1, SMTT(30) DEF Outlines
  <2> QED
    BY <2>1, <2>2, <2>3, <2>4, <2>5 DEF Next
<1> QED
  BY <1>1, <1>2, Invariance, PTL
  DEF Spec, KeepsToOutline, Mutation!Spec, Outlines

(***************************************************************************)
(* The handlers keep to the users' part of the object the operator shares  *)
(***************************************************************************)

\* An absent object leaves nothing behind.
AbsentClean == ~Exists(ms) => ms = NoObject

\* What a step other than the operator's may make of the object.
Creation ==
    /\ ~Exists(ms) /\ uids' = uids + 1
    /\ \E spec, m : CRDValid(spec) /\ ms' = NewObject(spec, m)

Change ==
    /\ Exists(ms) /\ UNCHANGED uids
    /\ CRDValid(ms'.spec) /\ CRDTransition(ms.spec, ms'.spec)
    /\ ms'.uid = ms.uid /\ ms'.gen = ms.gen + 1 /\ ms'.observed = ms.observed

\* Another set of markers or of finalizers.
Marking ==
    /\ Exists(ms) /\ UNCHANGED uids
    /\ ms'.uid = ms.uid /\ ms'.gen = ms.gen /\ ms'.observed = ms.observed
    /\ ms'.spec = ms.spec

Removal == Exists(ms) /\ UNCHANGED uids /\ ms' = NoObject

\* An applied PUT or PATCH changes the spec of the object and leaves the
\* status.
LEMMA UpdateChanges ==
    ASSUME Inv, NEW r \in Requests, ExecuteUpdate(r)
    PROVE  UNCHANGED <<ms, uids>> \/ Change
<1> DEFINE spec == Store(req[r].want)
           snap == req[r].snap
           fits == CRDValid(spec) /\ CRDTransition(ms.spec, spec)
<1>1. req[r].call = "sent" /\ req[r].method \in {"PUT", "PATCH"}
  BY DEF ExecuteUpdate
<1>2. SentInv(req[r]) /\ SnapInv(req[r], ms, rev, uids) /\ ms \in ObjectType
  BY <1>1 DEF Inv, StageInv, TypeOK
<1>3. CASE \E outcome : Refuse(r, outcome)
  BY <1>3 DEF Refuse
<1>4. CASE /\ UpdatePrecondition(snap) /\ fits
           /\ ms' = Updated(spec, snap.markers) /\ UNCHANGED uids
  <2>1. Exists(ms)
    BY <1>1, <1>2, <1>4 DEF SentInv, UpdatePrecondition, Mutable, Exists
  <2>2. /\ ms'.uid = ms.uid /\ ms'.gen = ms.gen + 1
        /\ ms'.observed = ms.observed /\ ms'.spec = spec
    BY <1>2, <1>4, Zenon DEF Updated, ObjectType
  <2> QED
    BY <1>4, <2>1, <2>2, Zenon DEF Change
<1> QED
  BY <1>3, <1>4, Zenon DEF ExecuteUpdate

\* Marking the object as being deleted is a new generation of the same spec.
LEMMA CondemnChanges ==
    ASSUME Inv, Exists(ms), ms' = Condemned, UNCHANGED uids
    PROVE  Change
<1>1. ms \in ObjectType /\ CRDValid(ms.spec)
  BY DEF Inv, TypeOK
<1>2. /\ ms'.uid = ms.uid /\ ms'.gen = ms.gen + 1
      /\ ms'.observed = ms.observed /\ ms'.spec = ms.spec
  BY <1>1, Zenon DEF Condemned, ObjectType
<1> QED
  BY <1>1, <1>2, Zenon DEF Change, CRDTransition

\* Every step of the specification is one of these.
LEMMA ObjectSteps ==
    ASSUME Inv, Next
    PROVE  \/ UNCHANGED <<ms, uids>> \/ Creation \/ Change \/ Marking
           \/ Removal \/ OperatorStatus
<1>1. ASSUME NEW r \in Requests, Receive(r) \/ Handler(r)
      PROVE  UNCHANGED <<ms, uids>>
  BY <1>1, HandlersStutter DEF AtomicStutter
<1>2. ASSUME NEW r \in Requests, ExecuteCreate(r)
      PROVE  UNCHANGED <<ms, uids>> \/ Creation
  BY <1>2, Zenon DEF ExecuteCreate, Refuse, Creation
<1>3. ASSUME NEW r \in Requests, ExecuteDelete(r)
      PROVE  UNCHANGED <<ms, uids>> \/ Removal \/ Change
  BY <1>3, CondemnChanges, Zenon DEF ExecuteDelete, Refuse, Removal
<1>4. ASSUME NEW r \in Requests, LoseCall(r)
      PROVE  UNCHANGED <<ms, uids>>
  BY <1>4, Zenon DEF LoseCall, Refuse
<1>5. CASE Crash
  BY <1>5, CrashStutters DEF AtomicStutter
<1>6. CASE OutsideCreate
  BY <1>6, InputConstants, Zenon DEF OutsideCreate, Creation
<1>7. CASE OutsideEdit
  <2>1. PICK spec \in AppliedSpecs \ {ms.spec} :
          /\ CRDTransition(ms.spec, spec)
          /\ ms' = [ms EXCEPT !.rv = rev + 1, !.gen = @ + 1, !.spec = spec]
    BY <1>7, Zenon DEF OutsideEdit
  <2>2. CRDValid(spec) /\ ms \in ObjectType
    BY InputConstants DEF Inv, TypeOK
  <2>3. /\ ms'.uid = ms.uid /\ ms'.gen = ms.gen + 1
        /\ ms'.observed = ms.observed /\ ms'.spec = spec
    BY <2>1, <2>2, Zenon DEF ObjectType
  <2> QED
    BY <1>7, <2>2, <2>3, <2>1, Zenon DEF OutsideEdit, Change
<1>0. ms \in ObjectType
  BY DEF Inv, TypeOK
<1>8. CASE OutsideMark
  BY <1>0, <1>8, Zenon DEF OutsideMark, Marking, ObjectType
<1>9. CASE OutsideDelete
  BY <1>9, CondemnChanges, Zenon DEF OutsideDelete, Removal
<1>10. CASE OutsideHold
  BY <1>0, <1>10, Zenon DEF OutsideHold, Marking, ObjectType
<1>11. CASE OutsideRelease
  BY <1>0, <1>11, Zenon DEF OutsideRelease, Marking, Removal, ObjectType
<1> QED
  BY <1>1, <1>2, <1>3, <1>4, <1>5, <1>6, <1>7, <1>8, <1>9, <1>10, <1>11,
     UpdateChanges, Zenon
  DEF Next, APIServer, Outside

\* The shared part of the object, field by field.
LEMMA SharedFields ==
    ASSUME NEW o
    PROVE  /\ SharedPart(o).uid = o.uid
           /\ SharedPart(o).spec = o.spec
           /\ SharedPart(o).generation = o.gen
           /\ SharedPart(o).observed = o.observed
  BY DEF SharedPart

\* SharedModelService admits what RestApi admits.
LEMMA SharedAdmission ==
    /\ \A s : Shared!CRDValid(s) <=> CRDValid(s)
    /\ \A s, t : Shared!CRDTransition(s, t) <=> CRDTransition(s, t)
    /\ Shared!Absent = SharedPart(NoObject)
<1>1. Shared!Ports = Ports
  BY DEF Shared!Ports, Ports
<1>2. Shared!NoSpec = NoSpec
  BY Zenon DEF Shared!NoSpec, NoSpec, Shared!NoExposure, NoExposure,
     Shared!NoStorage, NoStorage, Shared!NoSecurity, NoSecurity,
     Shared!NoRollout, NoRollout, Shared!NoBudget, NoBudget, Shared!NoPolicy,
     NoPolicy, Shared!Empty, Empty
<1>3. Shared!Absent = SharedPart(NoObject)
  BY <1>2 DEF Shared!Absent, SharedPart, NoObject
<1> QED
  BY <1>1, <1>3, ZenonT(60) DEF Shared!CRDValid, CRDValid,
     Shared!CRDTransition, CRDTransition, Shared!Empty, Empty

\* An object that was removed left nothing behind, at any time.
LEMMA AbsentStep ==
    ASSUME Inv, AbsentClean, [Next]_vars
    PROVE  AbsentClean'
<1>1. ms \in ObjectType /\ uids \in Nat
  BY DEF Inv, TypeOK
<1>2. CASE UNCHANGED ms
  BY <1>2 DEF AbsentClean, Exists
<1>3. CASE ms' = NoObject
  BY <1>3 DEF AbsentClean
<1>4. CASE Creation
  <2>1. ms'.uid = uids + 1
    BY <1>4 DEF Creation, NewObject
  <2> QED
    BY <1>1, <2>1 DEF AbsentClean, Exists
<1>5. CASE Exists(ms) /\ ms'.uid = ms.uid
  BY <1>5, Zenon DEF AbsentClean, Exists
<1>6. Change \/ Marking \/ OperatorStatus => Exists(ms) /\ ms'.uid = ms.uid
  BY <1>1, Zenon DEF Change, Marking, OperatorStatus, ObjectType
<1> QED
  BY <1>2, <1>3, <1>4, <1>5, <1>6, ObjectSteps, Zenon DEF Removal, vars

\* What each kind of step is to those who share the object.
LEMMA CreationShared ==
    ASSUME Inv, AbsentClean, Creation
    PROVE  Shared!Create
<1>1. PICK spec, m : CRDValid(spec) /\ ms' = NewObject(spec, m)
  BY DEF Creation
<1>2. SharedPart(ms)' = [uid |-> uids + 1, generation |-> 1, observed |-> 0,
                         spec |-> spec]
  BY <1>1 DEF SharedPart, NewObject
<1>3. SharedPart(ms)'.spec = spec
  BY <1>2
<1>4. SharedPart(ms) = Shared!Absent
  BY SharedAdmission DEF Creation, AbsentClean
<1>5. Shared!CRDValid(spec)
  BY <1>1, SharedAdmission
<1> QED
  BY <1>2, <1>3, <1>4, <1>5, Zenon DEF Shared!Create, Creation

LEMMA ChangeShared ==
    ASSUME Inv, Change
    PROVE  Shared!Change
<1> DEFINE spec == ms'.spec
<1>1. CRDValid(spec) /\ CRDTransition(ms.spec, spec)
  BY Zenon DEF Change
<1>2. ms \in ObjectType
  BY DEF Inv, TypeOK
<1>3. /\ ms'.uid = ms.uid /\ ms'.gen = ms.gen + 1 /\ ms'.observed = ms.observed
      /\ ms'.spec = spec
  BY Zenon DEF Change
<1> HIDE DEF spec
<1>4. SharedPart(ms)' = [SharedPart(ms) EXCEPT !.generation = @ + 1,
                                               !.spec = spec]
  <2> DEFINE part == SharedPart(ms)
  <2>1. SharedPart(ms)' = [uid |-> part.uid, generation |-> part.generation + 1,
                           observed |-> part.observed, spec |-> spec]
    BY <1>3, Zenon DEF SharedPart
  <2>2. part \in [uid : Nat, generation : Nat, observed : Nat, spec : SpecType]
    BY <1>2, Zenon DEF SharedPart, ObjectType
  <2> HIDE DEF part
  <2>3. ASSUME NEW g, g = [part EXCEPT !.generation = @ + 1, !.spec = spec]
        PROVE  g = [uid |-> part.uid, generation |-> part.generation + 1,
                    observed |-> part.observed, spec |-> spec]
    BY <2>2, <2>3, Zenon
  <2> QED
    BY <2>1, <2>3, Zenon DEF part
<1>5. SharedPart(ms)'.spec = spec /\ SharedPart(ms).spec = ms.spec
  BY <1>3, SharedFields
<1>6. Shared!CRDValid(spec) /\ Shared!CRDTransition(ms.spec, spec)
  BY <1>1, SharedAdmission
<1>7. SharedPart(ms) # Shared!Absent
  BY SharedFields DEF Change, Exists, Shared!Absent
<1> QED
  BY <1>4, <1>5, <1>6, <1>7, Zenon DEF Shared!Change, Change

\* A PUT, PATCH, POST or DELETE, whenever its write lands, and every other user
\* of the API server create, change or remove the desired state and leave the
\* status to the operator; the operator's step acknowledges the newest
\* generation and leaves the desired state to them.
THEOREM PartsKept == Spec => KeepsItsPart
<1>1. Init => AbsentClean /\ Shared!Init
  BY SharedAdmission, Zenon DEF Init, AbsentClean, Shared!Init
<1>2. Inv /\ AbsentClean /\ [Next]_vars => AbsentClean'
  BY AbsentStep
<1>3. Inv /\ AbsentClean /\ [Next]_vars =>
        [IF OperatorStatus THEN Shared!Acknowledge ELSE Shared!Users]_<<
          SharedPart(ms), uids>>
  <2> SUFFICES ASSUME Inv, AbsentClean, [Next]_vars
               PROVE  \/ UNCHANGED <<SharedPart(ms), uids>>
                      \/ OperatorStatus /\ Shared!Acknowledge
                      \/ ~OperatorStatus /\ Shared!Users
    BY Zenon
  <2>1. ms \in ObjectType
    BY DEF Inv, TypeOK
  <2>2. CASE UNCHANGED <<ms, uids>>
    BY <2>2, Zenon DEF SharedPart
  <2>3. CASE OperatorStatus
    <3>1. /\ ms'.uid = ms.uid /\ ms'.gen = ms.gen /\ ms'.observed = ms.gen
          /\ ms'.spec = ms.spec /\ UNCHANGED uids /\ ms.uid # 0
      BY <2>1, <2>3, Zenon DEF OperatorStatus, ObjectType, Exists
    <3>2. SharedPart(ms)' = [SharedPart(ms) EXCEPT
                               !.observed = SharedPart(ms).generation]
      BY <3>1 DEF SharedPart
    <3>3. SharedPart(ms) # Shared!Absent
      BY <3>1, SharedFields DEF Shared!Absent
    <3> QED
      BY <2>3, <3>1, <3>2, <3>3, Zenon DEF Shared!Acknowledge
  <2>4. CASE Marking
    <3>1. /\ ms'.uid = ms.uid /\ ms'.gen = ms.gen /\ ms'.observed = ms.observed
          /\ ms'.spec = ms.spec /\ UNCHANGED uids
      BY <2>1, <2>4, Zenon DEF Marking, ObjectType
    <3> QED
      BY <3>1, Zenon DEF SharedPart
  <2>5. CASE Removal
    <3>1. SharedPart(ms)' = Shared!Absent
      BY <2>5, SharedAdmission, Zenon DEF Removal, SharedPart
    <3>2. SharedPart(ms) # Shared!Absent
      BY <2>5, SharedFields DEF Removal, Exists, Shared!Absent
    <3>3. Shared!Remove
      BY <2>5, <3>1, <3>2, Zenon DEF Removal, Shared!Remove
    <3> QED
      BY <2>3, <3>3, Zenon DEF Shared!Users
  <2>6. CASE Creation \/ Change
    BY <2>3, <2>6, CreationShared, ChangeShared, Zenon DEF Shared!Users
  <2> QED
    BY <2>2, <2>3, <2>4, <2>5, <2>6, ObjectSteps, Zenon DEF vars
<1> QED
  BY <1>1, <1>2, <1>3, Invariance, PTL DEF Spec, KeepsItsPart

================================================================================
