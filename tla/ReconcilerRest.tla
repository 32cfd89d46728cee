---------------------------- MODULE ReconcilerRest ----------------------------
(***************************************************************************)
(* When the operator rests, for every set of kinds and specs.  No wake-up  *)
(* is lost: if it has nothing to do, the cluster is as the ModelService    *)
(* asks for.  Reconcile is idempotent: once the cluster is settled and the *)
(* caches show it, no pass writes and none disturbs that.  Together they   *)
(* are the safety part of convergence; that the operator gets there is the *)
(* liveness property Converges.                                            *)
(***************************************************************************)
EXTENDS ReconcilerProofs

\* What a pass has behind it when it goes on from kind k.
LEMMA PassedNext ==
    ASSUME NEW k \in Kinds \ {"InferenceService"}, pc = k, NEW w, Proceed(k, w)
    PROVE  /\ Passed = UpTo(k) \ {k} /\ k \in UpTo(k) /\ UpTo(k) \subseteq Kinds
           /\ Passed' = UpTo(k)
           /\ pc' \notin {"idle", "read", "inferenceStatus"}
<1> DEFINE i == Position(k)
<1>1. i \in 1 .. 7 /\ ReconcileOrder[i] = k
  BY KindFacts, Positions, Order
<1>2. \A j \in Kinds \ {"InferenceService"} :
        Position(j) \in 1 .. 7 /\ ReconcileOrder[Position(j)] = j
  BY KindFacts, Positions, Order
<1>3. UpTo(k) = {j \in Kinds \ {"InferenceService"} : Position(j) <= i}
  BY DEF UpTo
<1>4. pc' = StepAfter(i)
  BY DEF Proceed
<1> HIDE DEF i
<1>5. Passed = UpTo(k) \ {k} /\ k \in UpTo(k) /\ UpTo(k) \subseteq Kinds
  <2>1. k \notin {"read", "inferenceStatus", "status", "idle"}
    BY KindFacts
  <2>2. Passed = UpTo(k) \ {k}
    BY <2>1 DEF Passed
  <2> QED
    BY <1>1, <1>3, <2>2 DEF i
<1>6. CASE /\ pc' = "status"
           /\ \A l \in 1 .. 7 : l > i => ReconcileOrder[l] \notin Kinds
  <2>1. Passed' = Kinds \ {"InferenceService"}
    BY <1>6, KindFacts DEF Passed
  <2>2. \A j \in Kinds \ {"InferenceService"} : Position(j) <= i
    BY <1>1, <1>2, <1>6
  <2> QED
    BY <1>3, <1>5, <1>6, <2>1, <2>2
<1>7. ASSUME NEW n \in 1 .. 7, n > i, pc' = ReconcileOrder[n],
             ReconcileOrder[n] \in Kinds,
             \A l \in 1 .. 7 : i < l /\ l < n => ReconcileOrder[l] \notin Kinds
      PROVE  /\ Passed' = UpTo(k)
             /\ pc' \notin {"idle", "read", "inferenceStatus"}
  <2> DEFINE next == ReconcileOrder[n]
  <2>1. /\ next \in Kinds \ {"InferenceService"} /\ Position(next) = n
        /\ next \notin {"read", "inferenceStatus", "status", "idle"}
    BY <1>7, Order, Positions
  <2>2. Passed' = UpTo(next) \ {next}
    BY <1>7, <2>1 DEF Passed
  <2>3. UpTo(next) = {j \in Kinds \ {"InferenceService"} : Position(j) <= n}
    BY <2>1 DEF UpTo
  <2>4. ASSUME NEW j \in Kinds \ {"InferenceService"}
        PROVE  (Position(j) <= n /\ j # next) <=> Position(j) <= i
    BY <1>1, <1>2, <1>7, <2>1
  <2> QED
    BY <1>3, <1>7, <2>1, <2>2, <2>3, <2>4
<1> QED
  BY <1>1, <1>4, <1>5, <1>6, <1>7, StepAfterIs

\* A pass that starts has nothing behind it.
LEMMA PassedFirst ==
    ASSUME Inv, Reconcile, Exists(Head(ms))
    PROVE  Passed' = {} /\ pc' \notin {"idle", "read", "inferenceStatus"}
<1>1. Head(ms) \in GoodService
  BY Ends DEF Inv
<1>2. CASE backendForModelService(Head(ms).spec) = "KServe"
  <2>1. pc' = "InferenceService"
    BY <1>2 DEF Reconcile
  <2> QED
    BY <2>1, KindFacts DEF Passed
<1>3. CASE backendForModelService(Head(ms).spec) # "KServe"
  <2>1. pc' = StepAfter(0)
    BY <1>3 DEF Reconcile
  <2>2. 2 \in 1 .. 7 /\ 2 > 0 /\ ReconcileOrder[2] \in Kinds
    BY <1>1, <1>3, BackendKinds, Order
  <2>3. PICK n \in 1 .. 7 :
          /\ pc' = ReconcileOrder[n]
          /\ ReconcileOrder[n] \in Kinds
          /\ \A l \in 1 .. 7 : 0 < l /\ l < n => ReconcileOrder[l] \notin Kinds
    BY <2>1, <2>2, StepAfterIs
  <2> DEFINE first == ReconcileOrder[n]
  <2>4. /\ first \in Kinds \ {"InferenceService"} /\ Position(first) = n
        /\ first \notin {"read", "inferenceStatus", "status", "idle"}
    BY <2>3, Order, Positions
  <2>5. Passed' = UpTo(first) \ {first}
    BY <2>3, <2>4 DEF Passed
  <2>6. \A j \in Kinds \ {"InferenceService"} :
          Position(j) \in 1 .. 7 /\ ReconcileOrder[Position(j)] = j
    BY KindFacts, Positions, Order
  <2>7. UpTo(first) = {j \in Kinds \ {"InferenceService"} : Position(j) <= n}
    BY <2>4 DEF UpTo
  <2>8. ASSUME NEW j \in Kinds \ {"InferenceService"}, Position(j) <= n
        PROVE  j = first
    BY <2>3, <2>6, <2>8
  <2> QED
    BY <2>3, <2>4, <2>5, <2>7, <2>8
<1> QED
  BY <1>2, <1>3

(***************************************************************************)
(* Nothing is forgotten                                                    *)
(*                                                                         *)
(* The invariant accounts for every child and for the status while no name *)
(* is queued and no event of the ModelService is on its way: each child is *)
(* as it should be, or an event of it that will queue the name is on its   *)
(* way, or the pass under way has yet to visit it.                         *)
(***************************************************************************)

\* The undelivered versions of a child will enqueue the name.
Watched(versions) ==
    /\ Len(versions) > 1
    /\ \E i \in 1 .. Len(versions) : versions[i].owner > 0

\* A pass is due whatever the children are like.
Due == queued \/ Len(ms) > 1

Done(k) == Matches(k) /\ ~Obstacle(k)

\* The kind whose status the ModelService reports.
Workload ==
    IF backendForModelService(Last(ms).spec) = "KServe" THEN "InferenceService"
    ELSE "Deployment"

\* The stored ModelService wants children.
Wanted == Exists(Last(ms)) /\ ~Last(ms).deleting

Accounted ==
    Wanted /\ ~Due =>
      /\ pc # "idle" => fresh
      /\ \A k \in KindsOf(Last(ms).spec) :
           Done(k) \/ Watched(child[k]) \/ (pc # "idle" /\ k \notin Passed)
      /\ pc = "idle" => StatusCurrent \/ Watched(child[Workload])
      /\ "Deployment" \in Passed =>
           \/ seen = Last(child["Deployment"]).status
           \/ Watched(child["Deployment"])
      /\ pc = "inferenceStatus" =>
           \/ seen = Last(child["InferenceService"]).status
           \/ Watched(child["InferenceService"])

\* A history that is not a single version has an undelivered one.
LEMMA Longer ==
    ASSUME NEW S, NEW s \in Versions(S), Len(s) # 1
    PROVE  Len(s) > 1 /\ s[1] = Head(s)
<1>1. s \in Seq(S) /\ Len(s) \in Nat \ {0}
  BY Ends DEF Versions
<1>2. s[1] = Head(s)
  BY <1>1
<1>3. \A n \in Nat \ {0} : n # 1 => n > 1
  OBVIOUS
<1> QED
  BY <1>1, <1>2, <1>3, Zenon

\* A new version of a child that a ModelService controls is noticed, and what
\* is to be noticed stays so.
LEMMA WatchedGrows ==
    ASSUME NEW s \in Versions(GoodChild), NEW c \in GoodChild,
           Watched(s) \/ Last(s).owner > 0
    PROVE  Watched(Append(s, c))
<1>1. s \in Seq(GoodChild) /\ Len(s) \in Nat \ {0}
  BY Ends DEF Versions
<1>2. PICK i \in 1 .. Len(s) : s[i].owner > 0
  BY <1>1 DEF Watched, Last
<1>3. /\ Len(Append(s, c)) = Len(s) + 1
      /\ Append(s, c)[i] = s[i]
  BY <1>1
<1> QED
  BY <1>1, <1>2, <1>3 DEF Watched

\* An event that is to be noticed enqueues the name or a later one does.
LEMMA WatchedShrinks ==
    ASSUME NEW s \in Versions(GoodChild), Watched(s)
    PROVE  Watched(Tail(s)) \/ \E i \in 1 .. 2 : s[i].owner > 0
<1>1. s \in Seq(GoodChild) /\ Len(s) \in Nat /\ Len(s) > 1
  BY Ends DEF Versions, Watched
<1>2. PICK i \in 1 .. Len(s) : s[i].owner > 0
  BY DEF Watched
<1>3. CASE i \in 1 .. 2
  BY <1>2, <1>3
<1>4. CASE i > 2
  <2>1. Len(Tail(s)) = Len(s) - 1 /\ i - 1 \in 1 .. Len(Tail(s))
    BY <1>1, <1>4
  <2>2. Tail(s)[i - 1] = s[i]
    BY <1>1, <2>1
  <2> QED
    BY <1>1, <1>2, <1>4, <2>1, <2>2 DEF Watched
<1> QED
  BY <1>3, <1>4

\* Storing the ModelService makes a pass due.
LEMMA StoringIsDue ==
    ASSUME Inv, NEW m, StoreService(m)
    PROVE  Accounted'
<1>1. ms \in Seq(GoodService) /\ Len(ms) \in Nat \ {0}
  BY Ends DEF Inv, Versions
<1>2. Len(ms') = Len(ms) + 1
  BY <1>1 DEF StoreService
<1> QED
  BY <1>1, <1>2 DEF Accounted, Due

\* So does putting the name into the queue.
LEMMA QueueingIsDue ==
    ASSUME queued'
    PROVE  Accounted'
BY DEF Accounted, Due

\* A kind is done, or not, because of its own stored version.
LEMMA DoneStays ==
    ASSUME ms' = ms, NEW k, Last(child'[k]) = Last(child[k])
    PROVE  Done(k)' <=> Done(k)
BY DEF Done, Matches, Obstacle

\* The kind of the workload is one the spec makes the operator visit.
LEMMA WorkloadFacts ==
    ASSUME Inv, Wanted
    PROVE  /\ Workload \in KindsOf(Last(ms).spec)
           /\ Enabled(Workload, Last(ms).spec)
           /\ KindsOf(Last(ms).spec) \subseteq Kinds
           /\ Last(ms).uid \in Nat \ {0}
<1>1. Last(ms) \in GoodService /\ Exists(Last(ms))
  BY StoredFacts DEF Wanted
<1>2. Last(ms).uid \in Nat \ {0}
  BY <1>1, ServiceFacts
<1> QED
  BY <1>1, <1>2, BackendKinds DEF Workload, KindsOf, Enabled

\* What an accounted state knows of a pass under way.
LEMMA PassFacts ==
    ASSUME Inv, Accounted, Wanted, ~Due, pc # "idle"
    PROVE  fresh /\ obj = Last(ms) /\ OnTrack(pc, Last(ms), child["Deployment"])
BY DEF Inv, Accounted

\* Going on from kind k, having done it or knowing that an event is to come.
LEMMA ProceedingAccounts ==
    ASSUME Inv, Accounted, NEW k \in Kinds \ {"InferenceService"}, pc = k,
           NEW w, Proceed(k, w),
           \A j \in Kinds \ {k} : child'[j] = child[j],
           (Wanted /\ obj = Last(ms)) => Done(k)' \/ Watched(child'[k]),
           IF k = "Deployment" THEN w = Last(child'[k]).status ELSE w = seen
    PROVE  Accounted'
<1>1. ms' = ms /\ queued' = queued /\ fresh' = fresh /\ seen' = w
  BY DEF Proceed
<1>2. /\ Passed = UpTo(k) \ {k} /\ k \in UpTo(k) /\ UpTo(k) \subseteq Kinds
      /\ Passed' = UpTo(k)
      /\ pc' # "idle" /\ pc' # "inferenceStatus" /\ pc # "idle"
  BY PassedNext, KindFacts
<1> SUFFICES ASSUME Wanted, ~Due
             PROVE  Accounted'
  BY <1>1 DEF Accounted, Wanted, Due
<1>3. fresh /\ obj = Last(ms)
  BY <1>2, PassFacts
<1>4. ASSUME NEW j \in KindsOf(Last(ms).spec)
      PROVE  Done(j)' \/ Watched(child'[j]) \/ j \notin Passed'
  <2>1. CASE j = k
    BY <1>3, <2>1
  <2>2. CASE j # k
    <3>1. j \in Kinds /\ child'[j] = child[j]
      BY <2>2, WorkloadFacts
    <3>2. Done(j) \/ Watched(child[j]) \/ j \notin Passed
      BY DEF Accounted
    <3> QED
      BY <1>1, <1>2, <2>2, <3>1, <3>2, DoneStays
  <2> QED
    BY <2>1, <2>2
<1>5. ASSUME "Deployment" \in Passed'
      PROVE  \/ seen' = Last(child'["Deployment"]).status
             \/ Watched(child'["Deployment"])
  <2>1. CASE k = "Deployment"
    BY <1>1, <2>1
  <2>2. CASE k # "Deployment"
    BY <1>1, <1>2, <1>5, <2>2 DEF Accounted
  <2> QED
    BY <2>1, <2>2
<1> QED
  BY <1>1, <1>2, <1>3, <1>4, <1>5 DEF Accounted

\* What the API server took once it takes again.
LEMMA AdmittedAgain ==
    ASSUME NEW k, NEW old, NEW new, Admitted(k, old, new)
    PROVE  Admitted(k, new, new)
BY DEF Admitted

\* CreateOrUpdate fails, does its kind, or goes by a cached version that is
\* not the stored one any more.
LEMMA WritingAccounts ==
    ASSUME Inv, Accounted, NEW k \in Kinds \ {"InferenceService"}, pc = k,
           CreateOrUpdate(k), Enabled(k, obj.spec), ~Unrenderable(k, obj.spec)
    PROVE  Accounted'
<1> DEFINE cached == Head(child[k])
           stored == Last(child[k])
           content == Desired(k, obj.spec)
           wanted == [cached EXCEPT !.exists = TRUE, !.owner = obj.uid,
                                    !.content = content]
           status == IF k = "Deployment" THEN wanted.status ELSE seen
<1>1. child[k] \in Versions(GoodChild) /\ child \in Children
  BY DEF Inv, Children
<1>2. /\ cached \in GoodChild /\ stored \in GoodChild
      /\ Len(child[k]) \in Nat \ {0}
      /\ Len(child[k]) = 1 => cached = stored
  BY <1>1, Ends
<1>3. Exists(obj) /\ obj \in GoodService
  BY KindFacts DEF Inv, OnTrack
<1>4. /\ wanted \in GoodChild /\ wanted.exists /\ wanted.owner = obj.uid
      /\ wanted.content = content /\ obj.uid \in Nat \ {0}
  <2>1. wanted \in GoodChild /\ obj.uid \in Nat \ {0}
    BY <1>2, <1>3, Adapting, ServiceFacts, Zenon
  <2> QED
    BY <1>2, <2>1, ChildFacts, SMTT(30) DEF Child
<1>5. cached.exists \in BOOLEAN /\ stored.exists \in BOOLEAN
  BY <1>2, ChildFacts
<1>6. \/ Fail
      \/ /\ Proceed(k, status) /\ child' = child
         /\ wanted = cached /\ k \notin Undefaulted
      \/ /\ StoreChild(k, wanted) /\ Proceed(k, status)
         /\ \E old : Admitted(k, old, content)
  BY <1>5, Zenon DEF CreateOrUpdate
<1> HIDE DEF wanted
<1>7. ASSUME Last(child'[k]) = wanted, Admitted(k, content, content),
             ms' = ms, obj = Last(ms)
      PROVE  Done(k)'
  <2>1. Matches(k)'
    BY <1>4, <1>7 DEF Matches
  <2>2. ~Obstacle(k)'
    BY <1>4, <1>7 DEF Obstacle, Stranger
  <2> QED
    BY <2>1, <2>2 DEF Done
<1>8. CASE Fail
  BY <1>8, QueueingIsDue, Zenon DEF Fail, Leave
<1>9. CASE /\ Proceed(k, status) /\ child' = child
           /\ wanted = cached /\ k \notin Undefaulted
  <2>1. k # "Deployment" /\ status = seen /\ ms' = ms
    BY <1>9 DEF Undefaulted, Proceed
  <2>2. CASE Len(child[k]) = 1
    <3>1. Admitted(k, content, content)
      BY <2>1 DEF Admitted
    <3> QED
      BY <1>2, <1>7, <1>9, <2>1, <2>2, <3>1, ProceedingAccounts
  <2>3. CASE Len(child[k]) # 1
    <3>1. Len(child[k]) > 1 /\ child[k][1] = cached
      BY <1>1, <2>3, Longer
    <3>2. Watched(child[k])
      BY <1>2, <1>4, <1>9, <3>1 DEF Watched
    <3> QED
      BY <1>9, <2>1, <3>2, ProceedingAccounts
  <2> QED
    BY <2>2, <2>3
<1>10. CASE /\ StoreChild(k, wanted) /\ Proceed(k, status)
            /\ \E old : Admitted(k, old, content)
  <2>1. /\ Last(child'[k]) = wanted
        /\ \A j \in Kinds \ {k} : child'[j] = child[j]
    BY <1>1, <1>4, <1>10, Storing
  <2>2. Admitted(k, content, content) /\ ms' = ms
    BY <1>10, AdmittedAgain, SMTT(30) DEF Proceed
  <2> QED
    BY <1>7, <1>10, <2>1, <2>2, ProceedingAccounts
<1> QED
  BY <1>6, <1>8, <1>9, <1>10

\* So does Remove.
LEMMA RemovingAccounts ==
    ASSUME Inv, Accounted,
           NEW k \in Kinds \ {"InferenceService", "Deployment"}, pc = k,
           Remove(k), ~Enabled(k, obj.spec)
    PROVE  Accounted'
<1> DEFINE cached == Head(child[k])
           stored == Last(child[k])
<1>1. child[k] \in Versions(GoodChild) /\ child \in Children
  BY DEF Inv, Children
<1>2. /\ cached \in GoodChild /\ stored \in GoodChild
      /\ Len(child[k]) \in Nat \ {0}
      /\ Len(child[k]) = 1 => cached = stored
  BY <1>1, Ends
<1>3. obj.uid \in Nat \ {0}
  BY KindFacts, ServiceFacts DEF Inv, OnTrack
<1>4. ASSUME obj = Last(ms), ms' = ms, Last(child'[k]).owner # obj.uid
      PROVE  Done(k)'
  BY <1>4 DEF Done, Matches, Obstacle
<1>5. CASE Fail
  BY <1>5, QueueingIsDue, Zenon DEF Fail, Leave
<1>6. CASE /\ ~cached.exists \/ cached.owner # obj.uid
           /\ Proceed(k, seen) /\ child' = child
  <2>1. ms' = ms
    BY <1>6 DEF Proceed
  <2>2. CASE stored.owner # obj.uid
    BY <1>4, <1>6, <2>1, <2>2, ProceedingAccounts
  <2>3. CASE stored.owner = obj.uid
    <3>1. cached # stored
      BY <1>2, <1>3, <1>6, <2>3, ChildFacts DEF NoOwner
    <3>2. Len(child[k]) > 1
      BY <1>1, <1>2, <3>1, Longer
    <3>3. Watched(child[k])
      BY <1>2, <1>3, <2>3, <3>2 DEF Watched, Last
    <3> QED
      BY <1>6, <3>3, ProceedingAccounts
  <2> QED
    BY <2>2, <2>3
<1>7. CASE StoreChild(k, NoChild) /\ Proceed(k, seen)
  <2>1. /\ Last(child'[k]) = NoChild
        /\ \A j \in Kinds \ {k} : child'[j] = child[j]
    BY <1>1, <1>7, Nothing, Storing
  <2>2. ms' = ms /\ NoChild.owner # obj.uid
    BY <1>3, <1>7, Nothing, ZenonT(30) DEF Proceed, NoOwner
  <2> QED
    BY <1>4, <1>7, <2>1, <2>2, ProceedingAccounts
<1> QED
  BY <1>5, <1>6, <1>7 DEF Remove

\* The start of a pass: everything is still to be visited.
LEMMA ReconcileAccounts ==
    ASSUME Inv, Accounted, Reconcile
    PROVE  Accounted'
<1>1. ms \in Versions(GoodService) /\ ms' = ms
  BY DEF Inv, Reconcile
<1>2. Len(ms) \in Nat \ {0} /\ (Len(ms) = 1 => Head(ms) = Last(ms))
  BY <1>1, Ends, SMTT(30)
<1>3. CASE ~Wanted
  BY <1>1, <1>3 DEF Accounted, Wanted
<1>4. CASE Len(ms) # 1
  BY <1>1, <1>4, Longer DEF Accounted, Due
<1> SUFFICES ASSUME Wanted, Len(ms) = 1
             PROVE  Accounted'
  BY <1>3, <1>4
<1>5. Exists(Head(ms))
  BY <1>2 DEF Wanted
<1>6. Passed' = {} /\ pc' # "idle" /\ pc' # "inferenceStatus"
  BY <1>5, PassedFirst
<1>7. fresh'
  BY <1>5, Zenon DEF Reconcile
<1> QED
  BY <1>6, <1>7 DEF Accounted

\* Server-side apply does the InferenceService or fails.
LEMMA ApplyAccounts ==
    ASSUME Inv, Accounted, applyInferenceService
    PROVE  Accounted'
<1> DEFINE k == "InferenceService"
           stored == Last(child[k])
           content == desiredInferenceServiceSpec(obj.spec)
           wanted == [stored EXCEPT !.exists = TRUE, !.owner = obj.uid,
                                    !.content = content]
<1>1. /\ pc = k /\ Exists(obj) /\ obj \in GoodService /\ child \in Children
      /\ backendForModelService(obj.spec) = "KServe"
  BY DEF Inv, OnTrack, applyInferenceService
<1>2. k \in Kinds /\ content = Desired(k, obj.spec)
  BY <1>1, BackendKinds DEF Desired
<1>3. stored \in GoodChild /\ obj.uid \in Nat \ {0}
  BY <1>1, <1>2, StoredFacts, ServiceFacts
<1>4. CASE Fail
  BY <1>4, QueueingIsDue, Zenon DEF Fail, Leave
<1>5. CASE /\ ~Unrenderable(k, obj.spec)
           /\ StoreChild(k, wanted)
           /\ Proceed(k, seen)
  <2>1. wanted \in GoodChild
    BY <1>1, <1>2, <1>3, Adapting, Zenon
  <2>2. wanted.exists /\ wanted.owner = obj.uid /\ wanted.content = content
    BY <1>3, ChildFacts DEF Child
  <2> HIDE DEF wanted
  <2>3. Last(child'[k]) = wanted
    BY <1>1, <1>2, <1>5, <2>1, Storing
  <2>4. /\ pc' = "read" /\ UNCHANGED <<ms, fresh, queued>>
    BY <1>5 DEF Proceed
  <2>5. Passed' = {k}
    BY <2>4, KindFacts, ZenonT(30) DEF Passed
  <2> SUFFICES ASSUME Wanted, ~Due
               PROVE  Accounted'
    BY <2>4 DEF Accounted, Wanted, Due
  <2>6. fresh /\ obj = Last(ms)
    BY <1>1, PassFacts
  <2>7. Done(k)'
    <3>1. Enabled(k, obj.spec) /\ Last(ms)' = obj
      BY <1>1, <2>4, <2>6 DEF Enabled
    <3>2. Matches(k)'
      BY <1>2, <2>2, <2>3, <3>1 DEF Matches
    <3>3. ~Obstacle(k)'
      BY <1>3, <1>5, <2>2, <2>3, <3>1 DEF Obstacle, Stranger
    <3> QED
      BY <3>2, <3>3 DEF Done
  <2>8. KindsOf(Last(ms).spec) = {k}
    BY <1>1, <2>6 DEF KindsOf
  <2> QED
    BY <2>4, <2>5, <2>6, <2>7, <2>8 DEF Accounted
<1> QED
  BY <1>4, <1>5 DEF applyInferenceService

\* What is read back is the state of the InferenceService.
LEMMA ReadAccounts ==
    ASSUME Inv, Accounted, readInferenceService
    PROVE  Accounted'
<1> DEFINE k == "InferenceService"
<1>1. CASE Fail
  BY <1>1, QueueingIsDue, Zenon DEF Fail, Leave
<1>2. CASE /\ pc' = "inferenceStatus"
           /\ seen' = Last(child[k]).status
           /\ UNCHANGED <<ms, child, fresh, queued>>
  <2>1. pc = "read"
    BY DEF readInferenceService
  <2>2. Passed = {k} /\ Passed' = {k}
    BY <1>2, <2>1, KindFacts DEF Passed
  <2>3. \A j \in Kinds : Done(j)' <=> Done(j)
    BY <1>2, DoneStays
  <2> SUFFICES ASSUME Wanted, ~Due
               PROVE  Accounted'
    BY <1>2 DEF Accounted, Wanted, Due
  <2>4. \A j \in KindsOf(Last(ms).spec) :
          j \in Kinds /\ (Done(j) \/ Watched(child[j]) \/ j \notin {k})
    BY <2>1, <2>2, WorkloadFacts DEF Accounted
  <2>5. fresh
    BY <2>1, PassFacts
  <2> QED
    BY <1>2, <2>2, <2>3, <2>4, <2>5 DEF Accounted
<1> QED
  BY <1>1, <1>2 DEF readInferenceService

\* The end of a pass: the status is right, or it was written, or an event of
\* the workload is to come.
LEMMA StatusAccounts ==
    ASSUME Inv, Accounted,
           updateModelServiceStatus \/ updateModelServiceStatusFromInferenceService
    PROVE  Accounted'
<1> DEFINE status == IF pc = "status" THEN deploymentStatus(obj, seen)
                     ELSE inferenceServiceStatus(obj, seen)
<1>1. pc \in {"status", "inferenceStatus"} /\ UpdateStatus(status)
  BY DEF updateModelServiceStatus, updateModelServiceStatusFromInferenceService
<1>2. CASE Fail
  BY <1>2, QueueingIsDue, Zenon DEF Fail, Leave
<1>3. CASE StoreService([obj EXCEPT !.status = status])
  BY <1>3, StoringIsDue
<1>4. CASE status = obj.status /\ Leave(FALSE) /\ UNCHANGED <<ms, child>>
  <2>1. pc' = "idle" /\ queued' = queued
    BY <1>4 DEF Leave, Inv
  <2>2. Passed' = {}
    BY <2>1, KindFacts DEF Passed
  <2> SUFFICES ASSUME Wanted, ~Due
               PROVE  Accounted'
    BY <1>4, <2>1 DEF Accounted, Wanted, Due
  <2>3. obj = Last(ms) /\ OnTrack(pc, Last(ms), child["Deployment"])
    BY <1>1, PassFacts
  <2>4. KindsOf(Last(ms).spec) = Passed /\ Workload \in Passed
    BY <1>1, <2>3, KindFacts, WorkloadFacts
       DEF OnTrack, KindsOf, Passed, Workload
  <2>5. seen = Last(child[Workload]).status \/ Watched(child[Workload])
    BY <1>1, <2>3, <2>4 DEF Accounted, Workload, OnTrack
  <2>6. StatusCurrent \/ Watched(child[Workload])
    BY <1>1, <1>4, <2>3, <2>5 DEF StatusCurrent, Workload, OnTrack
  <2>7. StatusCurrent' <=> StatusCurrent
    BY <1>4 DEF StatusCurrent
  <2>8. Workload' = Workload
    BY <1>4 DEF Workload
  <2>9. \A k \in KindsOf(Last(ms).spec) : Done(k) \/ Watched(child[k])
    BY <1>1, <2>4 DEF Accounted
  <2>10. \A k \in KindsOf(Last(ms).spec) : Done(k)' <=> Done(k)
    BY <1>4, DoneStays
  <2> QED
    BY <1>4, <2>1, <2>2, <2>6, <2>7, <2>8, <2>9, <2>10 DEF Accounted
<1> QED
  BY <1>1, <1>2, <1>3, <1>4, ZenonT(30) DEF UpdateStatus, LeaveStoring

\* A child changed behind the operator's back is noticed, unless no ModelService
\* controlled it; then only a kind that is not wanted can have been done.
LEMMA DisturbingAccounts ==
    ASSUME Inv, Accounted, NEW k \in Kinds, NEW c \in GoodChild,
           StoreChild(k, c), UNCHANGED <<ms, pc, fresh, seen, queued>>,
           c.owner \in {Last(child[k]).owner, NoOwner, Stranger}
    PROVE  Accounted'
<1>1. Passed' = Passed /\ Workload' = Workload
  BY SMTT(30) DEF Passed, Workload
<1>2. CASE child' = child
  <2>1. \A j : Done(j)' <=> Done(j)
    BY <1>2, DoneStays
  <2>2. StatusCurrent' <=> StatusCurrent
    BY <1>2, ZenonT(30) DEF StatusCurrent
  <2> QED
    BY <1>1, <1>2, <2>1, <2>2 DEF Accounted, Wanted, Due
<1>3. CASE child' # child
  <2>1. child' = [child EXCEPT ![k] = Append(child[k], c)]
    BY <1>3 DEF StoreChild
  <2>2. child[k] \in Versions(GoodChild) /\ child \in [Kinds -> Versions(GoodChild)]
    BY DEF Inv, Children
  <2>3. child'[k] = Append(child[k], c) /\ Last(child'[k]) = c
    BY <2>1, <2>2, Appending
  <2>4. \A j \in Kinds \ {k} : child'[j] = child[j]
    BY <2>1, <2>2
  <2>5. Watched(child[k]) \/ Last(child[k]).owner > 0 => Watched(child'[k])
    BY <2>2, <2>3, WatchedGrows, Zenon
  <2> SUFFICES ASSUME Wanted, ~Due
               PROVE  Accounted'
    BY Zenon DEF Accounted, Wanted, Due
  <2>6. /\ Workload \in KindsOf(Last(ms).spec)
        /\ Enabled(Workload, Last(ms).spec)
        /\ KindsOf(Last(ms).spec) \subseteq Kinds
        /\ Last(ms).uid \in Nat \ {0}
    BY WorkloadFacts, Zenon
  <2>7. Done(k) /\ Enabled(k, Last(ms).spec) => Watched(child'[k])
    BY <2>5, <2>6, SMTT(30) DEF Done, Matches
  <2>8. Done(k) => Done(k)' \/ Watched(child'[k])
    <3>1. CASE Enabled(k, Last(ms).spec)
      BY <2>7, <3>1, Zenon
    <3>2. CASE Done(k) /\ ~Enabled(k, Last(ms).spec)
      <4>1. Last(child[k]).owner # Last(ms).uid
        BY <3>2 DEF Done, Matches
      <4>2. c.owner # Last(ms).uid
        BY <2>6, <4>1 DEF NoOwner, Stranger
      <4> QED
        BY <2>3, <3>2, <4>2, ZenonT(30) DEF Done, Matches, Obstacle
    <3> QED
      BY <3>1, <3>2
  <2>9. ASSUME NEW j \in KindsOf(Last(ms).spec)
        PROVE  \/ Done(j)' \/ Watched(child'[j])
               \/ pc' # "idle" /\ j \notin Passed'
    <3>1. Done(j) \/ Watched(child[j]) \/ (pc # "idle" /\ j \notin Passed)
      BY Zenon DEF Accounted
    <3>2. CASE j = k
      BY Zenon, <1>1, <2>5, <2>8, <3>1, <3>2
    <3>3. CASE j # k
      BY <1>1, <2>4, <2>6, <3>1, <3>3, DoneStays, ZenonT(30)
    <3> QED
      BY Zenon, <3>2, <3>3
  <2>10. ASSUME k = Workload, pc = "idle" \/ Workload \in Passed
         PROVE  Watched(child'[k])
    BY <2>5, <2>6, <2>7, <2>10 DEF Accounted
  <2>11. pc' = "idle" => StatusCurrent' \/ Watched(child'[Workload'])
    <3>1. CASE k = Workload
      BY Zenon, <1>1, <2>10, <3>1
    <3>2. CASE k # Workload
      <4>1. child'[Workload] = child[Workload]
        BY ZenonT(30), <2>4, <2>6, <3>2
      <4>2. StatusCurrent' <=> StatusCurrent
        BY <4>1 DEF StatusCurrent, Workload
      <4> QED
        BY <1>1, <4>1, <4>2, Zenon DEF Accounted
    <3> QED
      BY <3>1, <3>2, Zenon
  <2>12. /\ "Deployment" \in Passed =>
              Workload = "Deployment" /\ pc # "idle"
         /\ pc = "inferenceStatus" =>
              Workload = "InferenceService" /\ Workload \in Passed
    <3>1. CASE pc = "idle"
      BY <3>1, KindFacts DEF Passed
    <3>2. CASE pc # "idle"
      <4>1. OnTrack(pc, Last(ms), child["Deployment"])
        BY <3>2, PassFacts, Zenon
      <4> QED
        BY <3>2, <4>1, KindFacts DEF OnTrack, Passed, Workload
    <3> QED
      BY <3>1, <3>2
  <2>13. ASSUME "Deployment" \in Passed
         PROVE  \/ seen' = Last(child'["Deployment"]).status
                \/ Watched(child'["Deployment"])
    BY <2>4, <2>6, <2>10, <2>12, <2>13, Zenon DEF Accounted
  <2>14. ASSUME pc = "inferenceStatus"
         PROVE  \/ seen' = Last(child'["InferenceService"]).status
                \/ Watched(child'["InferenceService"])
    BY <2>4, <2>6, <2>10, <2>12, <2>14, ZenonT(30) DEF Accounted
  <2>15. pc' # "idle" => fresh'
    BY DEF Accounted
  <2> QED
    BY <1>1, <2>9, <2>11, <2>13, <2>14, <2>15 DEF Accounted
<1> QED
  BY <1>2, <1>3

\* A delivered event changes no stored version, and enqueues the name if it is
\* the last one to do so.
LEMMA DeliveringAccounts ==
    ASSUME Inv, Accounted, NEW k \in Kinds, DeliverChild(k)
    PROVE  Accounted'
<1>1. /\ child' = [child EXCEPT ![k] = Tail(child[k])]
      /\ queued' = (queued \/ \E i \in 1 .. 2 : child[k][i].owner > 0)
      /\ UNCHANGED <<ms, pc, fresh, seen>>
      /\ Len(child[k]) > 1
  BY DEF DeliverChild
<1>2. child[k] \in Versions(GoodChild) /\ child \in [Kinds -> Versions(GoodChild)]
  BY DEF Inv, Children
<1>3. \A j \in Kinds : Last(child'[j]) = Last(child[j])
  BY <1>1, <1>2, Delivering
<1>4. CASE queued'
  BY <1>4, QueueingIsDue, ZenonT(30)
<1>5. CASE ~queued'
  <2>1. ~queued /\ ~\E i \in 1 .. 2 : child[k][i].owner > 0
    BY <1>1, <1>5, ZenonT(30)
  <2>2. \A j \in Kinds : Watched(child[j]) => Watched(child'[j])
    <3>1. Watched(child[k]) => Watched(child'[k])
      BY <1>1, <1>2, <2>1, WatchedShrinks, Zenon
    <3> QED
      BY <1>1, <1>2, <3>1
  <2> SUFFICES ASSUME Wanted, ~Due
               PROVE  Accounted'
    BY <1>1, <2>1, ZenonT(30) DEF Accounted, Wanted, Due
  <2>3. \A j \in Kinds : Done(j)' <=> Done(j)
    BY <1>1, <1>3, DoneStays
  <2>4. Workload \in Kinds /\ KindsOf(Last(ms).spec) \subseteq Kinds
    BY WorkloadFacts
  <2>5. Passed' = Passed /\ Workload' = Workload
    BY <1>1 DEF Passed, Workload
  <2>6. StatusCurrent' <=> StatusCurrent
    BY <1>1, <1>3, <2>4 DEF StatusCurrent, Workload
  <2>7. /\ "Deployment" \in Passed => "Deployment" \in Kinds
        /\ pc = "inferenceStatus" => "InferenceService" \in Kinds
    <3>1. CASE pc = "idle"
      BY <3>1, KindFacts DEF Passed
    <3>2. CASE pc # "idle"
      <4>1. OnTrack(pc, Last(ms), child["Deployment"])
        BY <3>2, PassFacts
      <4> QED
        BY <2>4, <3>2, <4>1, KindFacts DEF OnTrack, Passed, Workload, UpTo
    <3> QED
      BY <3>1, <3>2
  <2> QED
    BY <1>1, <1>3, <2>2, <2>3, <2>4, <2>5, <2>6, <2>7 DEF Accounted
<1> QED
  BY <1>4, <1>5

\* How a step decides between writing and removing its kind.
SpecDecides(spec) ==
    /\ \A k \in {"ServiceAccount", "Deployment", "Service"} : Enabled(k, spec)
    /\ Enabled("PersistentVolumeClaim", spec) <=> storageEnabled(spec)
    /\ Enabled("PodDisruptionBudget", spec) <=>
         podDisruptionBudgetForModelService(spec).enabled
    /\ Enabled("NetworkPolicy", spec) <=>
         networkPolicyForModelService(spec).enabled
    /\ Enabled("HTTPRoute", spec) <=> exposureForModelService(spec).enabled
    /\ \A k \in {"ServiceAccount", "Deployment", "Service",
                 "PersistentVolumeClaim", "PodDisruptionBudget",
                 "NetworkPolicy"} : ~Unrenderable(k, spec)

LEMMA SpecDecidesAll == \A spec : SpecDecides(spec)
<1> SUFFICES ASSUME NEW spec PROVE SpecDecides(spec)
  OBVIOUS
<1>1. \A k \in {"ServiceAccount", "Deployment", "Service"} : Enabled(k, spec)
  BY DEF Enabled
<1>2. /\ Enabled("PersistentVolumeClaim", spec) <=> storageEnabled(spec)
      /\ Enabled("PodDisruptionBudget", spec) <=>
           podDisruptionBudgetForModelService(spec).enabled
      /\ Enabled("NetworkPolicy", spec) <=>
           networkPolicyForModelService(spec).enabled
      /\ Enabled("HTTPRoute", spec) <=> exposureForModelService(spec).enabled
  BY DEF Enabled
<1>3. \A k \in {"ServiceAccount", "Deployment", "Service",
                "PersistentVolumeClaim", "PodDisruptionBudget",
                "NetworkPolicy"} : ~Unrenderable(k, spec)
  BY DEF Unrenderable
<1> QED
  BY <1>1, <1>2, <1>3 DEF SpecDecides

\* Every step of the operator accounts for what it leaves undone.
LEMMA OperatorAccounts ==
    ASSUME Inv, Accounted, Operator
    PROVE  Accounted'
<1>1. SpecDecides(obj.spec)
  BY SpecDecidesAll
<1>2. pc \in Steps
  BY DEF Inv
<1>3. CASE Reconcile
  BY <1>3, ReconcileAccounts
<1>4. CASE reconcileServiceAccount
  BY <1>1, <1>2, <1>4, WritingAccounts
     DEF reconcileServiceAccount, Steps, SpecDecides
<1>5. CASE reconcileDeployment
  BY <1>1, <1>2, <1>5, WritingAccounts
     DEF reconcileDeployment, Steps, SpecDecides
<1>6. CASE reconcileService
  BY <1>1, <1>2, <1>6, WritingAccounts
     DEF reconcileService, Steps, SpecDecides
<1>7. CASE reconcilePersistentVolumeClaim
  BY <1>1, <1>2, <1>7, WritingAccounts, RemovingAccounts
     DEF reconcilePersistentVolumeClaim, Steps, SpecDecides
<1>8. CASE reconcilePodDisruptionBudget
  BY <1>1, <1>2, <1>8, WritingAccounts, RemovingAccounts
     DEF reconcilePodDisruptionBudget, Steps, SpecDecides
<1>9. CASE reconcileNetworkPolicy
  BY <1>1, <1>2, <1>9, WritingAccounts, RemovingAccounts
     DEF reconcileNetworkPolicy, Steps, SpecDecides
<1>10. CASE reconcileHTTPRoute
  <2>1. CASE Fail
    BY <2>1, QueueingIsDue, Zenon DEF Fail, Leave
  <2>2. CASE ~Fail
    BY <1>1, <1>2, <1>10, <2>2, WritingAccounts, RemovingAccounts
       DEF reconcileHTTPRoute, Steps, SpecDecides
  <2> QED
    BY <2>1, <2>2
<1>11. CASE applyInferenceService
  BY <1>11, ApplyAccounts
<1>12. CASE readInferenceService
  BY <1>12, ReadAccounts
<1>13. CASE \/ updateModelServiceStatus
            \/ updateModelServiceStatusFromInferenceService
  BY <1>13, StatusAccounts
<1> QED
  BY <1>3, <1>4, <1>5, <1>6, <1>7, <1>8, <1>9, <1>10, <1>11, <1>12, <1>13
     DEF Operator

\* Every step of the watches and of the garbage collector.
LEMMA KubernetesAccounts ==
    ASSUME Inv, Accounted, Kubernetes
    PROVE  Accounted'
<1>1. CASE DeliverService
  BY <1>1, QueueingIsDue DEF DeliverService
<1>2. ASSUME NEW k \in Kinds, DeliverChild(k)
      PROVE  Accounted'
  BY <1>2, DeliveringAccounts
<1>3. ASSUME NEW k \in Kinds, CollectChild(k)
      PROVE  Accounted'
  BY <1>3, Nothing, DisturbingAccounts DEF CollectChild
<1>4. CASE FinishDeletion
  BY <1>4, StoringIsDue DEF FinishDeletion
<1> QED
  BY <1>1, <1>2, <1>3, <1>4 DEF Kubernetes

\* Every step of users, workloads and faults.
LEMMA OutsideAccounts ==
    ASSUME Inv, Accounted, Outside
    PROVE  Accounted'
<1>1. ASSUME NEW k \in Kinds, NEW c \in GoodChild, Meddle(k, c),
             c.owner \in {Last(child[k]).owner, NoOwner, Stranger}
      PROVE  Accounted'
  BY <1>1, DisturbingAccounts, SMTT(30) DEF Meddle
<1>2. CASE CreateService \/ EditService \/ DeleteService
  BY <1>2, StoringIsDue, Zenon DEF CreateService, EditService, DeleteService
<1>3. ASSUME NEW k \in Kinds,
             DeleteChild(k) \/ EditChild(k) \/ ReleaseChild(k) \/ CreateChild(k)
      PROVE  Accounted'
  BY <1>1, <1>3, Meddled DEF ByOthers
<1>4. CASE DeploymentProgress \/ InferenceProgress
  BY <1>1, <1>4, Reported DEF ByOthers
<1>5. CASE Abort
  BY <1>5, QueueingIsDue, Zenon DEF Abort, Leave
<1>6. CASE Restart
  <2>1. ms' = <<Last(ms)>> /\ (Exists(Last(ms)) => queued')
    BY <1>6 DEF Restart
  <2>2. Last(ms') = Last(ms)
    BY <2>1 DEF Last
  <2> QED
    BY <2>1, <2>2 DEF Accounted, Wanted, Due
<1> QED
  BY <1>2, <1>3, <1>4, <1>5, <1>6 DEF Outside

\* The operator is never idle over unfinished work: with no pass under way, no
\* name queued and every event delivered, every child matches the stored spec
\* and the status is the one the workload calls for.
THEOREM NoLostWakeUp == Spec => []NothingForgotten
<1>1. Init => Accounted
  <2> SUFFICES ASSUME Init PROVE Accounted
    OBVIOUS
  <2>1. Last(ms) = NoService
    BY DEF Init, Last
  <2> QED
    BY <2>1, Nothing DEF Accounted, Wanted
<1>2. Inv /\ Accounted /\ [Next]_vars => Accounted'
  <2> SUFFICES ASSUME Inv, Accounted, [Next]_vars
               PROVE  Accounted'
    OBVIOUS
  <2>1. CASE Next
    BY <2>1, OperatorAccounts, KubernetesAccounts, OutsideAccounts DEF Next
  <2>2. CASE UNCHANGED vars
    BY <2>2 DEF vars, Accounted, Wanted, Due, Done, Matches, Obstacle,
                Watched, StatusCurrent, Workload, Passed
  <2> QED
    BY <2>1, <2>2
<1>3. Inv /\ Accounted => NothingForgotten
  <2> SUFFICES ASSUME Inv, Accounted, Quiet, Exists(Last(ms)),
                      ~Last(ms).deleting
               PROVE  /\ \A k \in KindsOf(Last(ms).spec) :
                           Matches(k) /\ ~Obstacle(k)
                      /\ StatusCurrent
    BY DEF NothingForgotten
  <2>1. Wanted /\ ~Due /\ pc = "idle"
    BY DEF Quiet, Wanted, Due
  <2>2. \A k \in Kinds : ~Watched(child[k])
    <3>1. \A k \in Kinds : Len(child[k]) = 1
      BY DEF Quiet, Current
    <3>2. ~(1 > 1)
      OBVIOUS
    <3> QED
      BY <3>1, <3>2, Zenon DEF Watched
  <2>3. KindsOf(Last(ms).spec) \subseteq Kinds /\ Workload \in Kinds
    BY <2>1, WorkloadFacts
  <2> QED
    BY <2>1, <2>2, <2>3 DEF Accounted, Done
<1> QED
  BY <1>1, <1>2, <1>3, Invariance, PTL DEF Spec

(***************************************************************************)
(* Rest is kept                                                            *)
(***************************************************************************)

\* At rest the caches hold what is stored, and so does a pass under way.
LEMMA RestFacts ==
    ASSUME Inv, AtRest
    PROVE  /\ Head(ms) = Last(ms)
           /\ Last(ms) \in GoodService
           /\ \A k \in Kinds : /\ Head(child[k]) = Last(child[k])
                               /\ Last(child[k]) \in GoodChild
           /\ pc # "idle" => obj = Last(ms) /\ Exists(obj)
<1>1. Len(ms) = 1 /\ ms \in Versions(GoodService)
  BY DEF AtRest, Inv
<1>2. \A k \in Kinds : Len(child[k]) = 1 /\ child[k] \in Versions(GoodChild)
  BY DEF AtRest, Current, Inv, Children
<1>3. pc # "idle" => obj = Last(ms) /\ Exists(obj)
  BY DEF AtRest, Inv, OnTrack
<1> QED
  BY <1>1, <1>2, <1>3, Ends

\* At rest there is nothing to deliver, to collect or to finish.
LEMMA KubernetesRests ==
    ASSUME Inv, AtRest
    PROVE  ~Kubernetes
<1>1. Len(ms) = 1 /\ ~Last(ms).deleting
  BY ZenonT(30) DEF AtRest
<1>2. ~DeliverService /\ ~FinishDeletion
  BY <1>1 DEF DeliverService, FinishDeletion
<1>3. \A k \in Kinds : ~DeliverChild(k)
  BY DEF AtRest, Current, DeliverChild
<1>4. ASSUME NEW k \in Kinds, CollectChild(k)
      PROVE  FALSE
  <2>1. Last(child[k]).owner \in {NoOwner, Stranger, Last(ms).uid}
    BY DEF AtRest, Settled
  <2>2. /\ Last(child[k]).owner > 0
        /\ Last(child[k]).owner = Last(ms).uid => Last(ms).deleting
    BY <1>4, SMTT(30) DEF CollectChild
  <2> QED
    BY <1>1, <2>1, <2>2 DEF NoOwner, Stranger
<1> QED
  BY <1>2, <1>3, <1>4 DEF Kubernetes

\* What is stored does not change: neither does what it should be.
LEMMA SettledStays ==
    ASSUME Settled, UNCHANGED <<ms, child>>
    PROVE  /\ Settled'
           /\ \A k \in Kinds : Obstacle(k)' <=> Obstacle(k)
BY Zenon DEF Settled, Obstacle, Matches, StatusCurrent

\* A pass that ends without a write leaves the cluster at rest.
LEMMA LeavingRests ==
    ASSUME AtRest, NEW failed, Leave(failed), UNCHANGED <<ms, child>>
    PROVE  AtRest'
<1>1. pc' = "idle"
  BY DEF Leave
<1>2. Passed' = {}
  BY <1>1, KindFacts DEF Passed
<1>3. Settled'
  BY SettledStays, ZenonT(30) DEF AtRest
<1> QED
  BY <1>1, <1>2, <1>3 DEF AtRest, Current

\* A kind that no obstacle comes before, nor meets itself, is as it should be.
LEMMA RestMatches ==
    ASSUME Inv, AtRest, NEW k \in KindsOf(Last(ms).spec), pc # "idle",
           \A j \in UpTo(k) : ~Obstacle(j)
    PROVE  Matches(k)
<1>1. Exists(Last(ms)) /\ ~Last(ms).deleting
  BY RestFacts DEF AtRest
<1> QED
  BY <1>1 DEF AtRest, Settled

\* A pass on the Deployment backend has passed every kind before k.
LEMMA PassedBefore ==
    ASSUME Inv, AtRest, NEW k \in Kinds \ {"InferenceService"}, pc = k
    PROVE  /\ Passed = UpTo(k) \ {k}
           /\ k \in UpTo(k)
           /\ k \in KindsOf(Last(ms).spec)
           /\ \A j \in UpTo(k) \ {k} : ~Obstacle(j)
<1>1. k \notin {"read", "inferenceStatus", "status", "idle"}
  BY KindFacts
<1>2. Passed = UpTo(k) \ {k}
  BY <1>1 DEF Passed
<1>3. k \in UpTo(k)
  BY KindFacts, Positions, SMTT(30) DEF UpTo
<1>4. k \in KindsOf(Last(ms).spec)
  BY <1>1, RestFacts DEF Inv, OnTrack, KindsOf
<1>5. \A j \in Passed : ~Obstacle(j)
  BY <1>1 DEF AtRest
<1> QED
  BY <1>2, <1>3, <1>4, <1>5

\* The workload status a step of kind k goes on with.
SeenAfter(k) == IF k = "Deployment" THEN Last(child[k]).status ELSE seen

\* Going on from a kind without an obstacle leaves the cluster at rest.
LEMMA ProceedingRests ==
    ASSUME Inv, AtRest, NEW k \in Kinds \ {"InferenceService"}, pc = k,
           ~Obstacle(k), Proceed(k, SeenAfter(k)), child' = child
    PROVE  AtRest'
<1>1. /\ Passed = UpTo(k) \ {k} /\ k \in UpTo(k) /\ UpTo(k) \subseteq Kinds
      /\ Passed' = UpTo(k) /\ pc' # "inferenceStatus"
  BY PassedNext
<1>2. \A j \in UpTo(k) : ~Obstacle(j)
  BY PassedBefore
<1>3. fresh' = fresh /\ ms' = ms
  BY DEF Proceed
<1>4. Settled' /\ \A j \in Kinds : Obstacle(j)' <=> Obstacle(j)
  BY <1>3, SettledStays DEF AtRest
<1>5. \A j \in Passed' : ~Obstacle(j)'
  BY <1>1, <1>2, <1>4
<1>6. ASSUME "Deployment" \in Passed'
      PROVE  seen' = Last(child'["Deployment"]).status
  <2>1. CASE k = "Deployment"
    BY <2>1 DEF Proceed, SeenAfter
  <2>2. CASE k # "Deployment"
    BY <1>1, <1>6, <2>2 DEF Proceed, SeenAfter, AtRest
  <2> QED
    BY <2>1, <2>2
<1>7. fresh
  BY KindFacts DEF AtRest
<1> QED
  BY <1>1, <1>3, <1>4, <1>5, <1>6, <1>7 DEF AtRest, Current

\* A step that keeps the cluster at rest.
Rests == AtRest' /\ UNCHANGED <<ms, child>>

\* At rest CreateOrUpdate fails at an obstacle, and otherwise repeats what is
\* stored.
LEMMA WritingRests ==
    ASSUME Inv, AtRest, NEW k \in Kinds \ {"InferenceService"}, pc = k,
           CreateOrUpdate(k), Enabled(k, obj.spec), ~Unrenderable(k, obj.spec)
    PROVE  Rests
<1> DEFINE c == Last(child[k])
           content == Desired(k, obj.spec)
           wanted == [c EXCEPT !.exists = TRUE, !.owner = obj.uid,
                               !.content = content]
<1>1. /\ Head(child[k]) = c /\ c \in GoodChild /\ obj = Last(ms)
      /\ Exists(obj) /\ obj \in GoodService
  BY KindFacts, RestFacts
<1>2. /\ c \in Child /\ c.exists \in BOOLEAN /\ c.owner \in Int
      /\ c.exists \/ c = NoChild
  BY <1>1, ChildFacts
<1>3. Current(k)
  BY DEF AtRest
<1>4. obj.uid \in Nat \ {0}
  BY <1>1, ServiceFacts
<1>5. Obstacle(k) <=> c.owner = Stranger \/ ~Admitted(k, c.content, content)
  BY <1>1 DEF Obstacle
<1>6. wanted.status = c.status /\ (wanted = c => c.content = content)
  BY <1>2, Zenon DEF Child
<1>7. CASE Obstacle(k)
  <2>1. CASE ~c.exists
    <3>1. c.owner # Stranger /\ c.content = Foreign
      BY <1>2, <2>1 DEF NoChild, Stranger, NoOwner
    <3>2. ~Admitted(k, Foreign, content)
      BY <1>5, <1>7, <3>1
    <3> QED
      BY <1>1, <2>1, <3>2, LeavingRests, Zenon DEF CreateOrUpdate, Fail, Rests
  <2>2. CASE c.exists /\ c.owner = Stranger
    BY <1>1, <2>2, LeavingRests, Zenon DEF CreateOrUpdate, Controllable, Fail, Rests
  <2>3. CASE c.exists /\ c.owner # Stranger
    <3>1. ~Admitted(k, c.content, content)
      BY <1>5, <1>7, <2>3
    <3>2. ~(wanted = c /\ k \notin Undefaulted)
      BY <1>6, <3>1 DEF Admitted, Undefaulted
    <3>3. Fail
      BY <1>1, <2>3, <3>1, <3>2, Zenon DEF CreateOrUpdate, Controllable
    <3> QED
      BY <3>3, LeavingRests, Zenon DEF Fail, Rests
  <2> QED
    BY <1>2, <2>1, <2>2, <2>3
<1>8. CASE ~Obstacle(k)
  <2>1. Matches(k)
    BY <1>8, PassedBefore, RestMatches, KindFacts, ZenonT(30)
  <2>2. c.exists /\ c.owner = obj.uid /\ c.content = content
    BY <1>1, <2>1 DEF Matches
  <2>3. wanted = c
    BY <1>2, <2>2, Zenon DEF Child
  <2>4. Controllable(c)
    BY <1>4, <2>2 DEF Controllable, Stranger
  <2>5. Proceed(k, SeenAfter(k)) /\ child' = child
    <3>1. SeenAfter(k) = IF k = "Deployment" THEN wanted.status ELSE seen
      BY <1>6 DEF SeenAfter
    <3>2. Admitted(k, c.content, content)
      BY <1>5, <1>8
    <3> DEFINE status == IF k = "Deployment" THEN wanted.status ELSE seen
    <3>3. \/ Proceed(k, status) /\ UNCHANGED child
          \/ StoreChild(k, wanted) /\ Proceed(k, status)
      BY <1>1, <1>3, <2>2, <2>4, <3>2, Zenon DEF CreateOrUpdate
    <3>4. StoreChild(k, wanted) => child' = child
      BY <2>3, Zenon DEF StoreChild
    <3> QED
      BY <3>1, <3>3, <3>4, Zenon
  <2>6. ms' = ms
    BY <2>5 DEF Proceed
  <2> QED
    BY <1>8, <2>5, <2>6, ProceedingRests DEF Rests
<1> QED
  BY <1>7, <1>8

\* At rest there is nothing to remove.
LEMMA RemovingRests ==
    ASSUME Inv, AtRest,
           NEW k \in Kinds \ {"InferenceService", "Deployment"}, pc = k,
           Remove(k), ~Enabled(k, obj.spec)
    PROVE  Rests
<1>1. Head(child[k]) = Last(child[k]) /\ obj = Last(ms)
  BY KindFacts, RestFacts
<1>2. ~Obstacle(k)
  BY <1>1 DEF Obstacle
<1>3. Matches(k)
  BY <1>2, PassedBefore, RestMatches, KindFacts
<1>4. Head(child[k]).owner # obj.uid
  BY <1>1, <1>3 DEF Matches
<1>5. Proceed(k, SeenAfter(k)) /\ child' = child
  BY <1>4 DEF Remove, SeenAfter
<1>6. ms' = ms
  BY <1>5 DEF Proceed
<1> QED
  BY <1>2, <1>5, <1>6, ProceedingRests DEF Rests

\* The start of a pass at rest: it has nothing behind it yet.
LEMMA ReconcileRests ==
    ASSUME Inv, AtRest, Reconcile
    PROVE  Rests
<1>1. /\ UNCHANGED <<ms, child>> /\ Head(ms) = Last(ms)
      /\ Last(ms) \in GoodService /\ Len(ms) = 1
  BY RestFacts DEF Reconcile, AtRest
<1>2. Settled'
  BY <1>1, SettledStays DEF AtRest
<1>3. CASE ~Exists(Last(ms))
  <2>1. pc = "idle" /\ pc' = "idle"
    BY <1>1, <1>3 DEF Reconcile
  <2>2. Passed' = {}
    BY <2>1, KindFacts DEF Passed
  <2> QED
    BY <1>1, <1>2, <2>1, <2>2 DEF AtRest, Current, Rests
<1>4. CASE Exists(Last(ms))
  <2>1. Passed' = {} /\ pc' # "inferenceStatus"
    BY <1>1, <1>4, PassedFirst
  <2>2. fresh'
    BY <1>1, <1>4, Zenon DEF Reconcile
  <2> QED
    BY <1>1, <1>2, <2>1, <2>2 DEF AtRest, Current, Rests
<1> QED
  BY <1>3, <1>4

\* The InferenceService of a pass at rest, once it is past the obstacles.
LEMMA InferenceServiceMatches ==
    ASSUME Inv, AtRest, pc \in {"InferenceService", "read", "inferenceStatus"},
           ~Obstacle("InferenceService")
    PROVE  Matches("InferenceService")
<1>1. obj = Last(ms) /\ backendForModelService(Last(ms).spec) = "KServe"
  BY RestFacts DEF Inv, OnTrack
<1>2. "InferenceService" \in KindsOf(Last(ms).spec)
  BY <1>1 DEF KindsOf
<1>3. UpTo("InferenceService") = {"InferenceService"}
  BY DEF UpTo
<1> QED
  BY <1>2, <1>3, RestMatches

\* At rest server-side apply fails at an obstacle, and otherwise repeats what
\* is stored.
LEMMA ApplyRests ==
    ASSUME Inv, AtRest, applyInferenceService
    PROVE  Rests
<1> DEFINE k == "InferenceService"
           c == Last(child[k])
           content == desiredInferenceServiceSpec(obj.spec)
           wanted == [c EXCEPT !.exists = TRUE, !.owner = obj.uid,
                               !.content = content]
<1>1. /\ pc = k /\ obj = Last(ms) /\ Exists(obj) /\ obj \in GoodService
      /\ backendForModelService(obj.spec) = "KServe"
  BY RestFacts DEF Inv, OnTrack, applyInferenceService
<1>2. k \in Kinds
  BY <1>1, BackendKinds
<1>3. c \in Child /\ (c.owner # NoOwner => c.exists)
  BY <1>2, RestFacts, ChildFacts
<1>4. Enabled(k, obj.spec) /\ Desired(k, obj.spec) = content
  BY <1>1 DEF Enabled, Desired
<1>5. CASE Obstacle(k)
  <2>1. \/ Unrenderable(k, obj.spec)
        \/ c.exists /\ ~Controllable(c)
    BY <1>1, <1>3, <1>5 DEF Obstacle, Controllable, Stranger, NoOwner
  <2> QED
    BY <2>1, LeavingRests, Zenon DEF applyInferenceService, Fail, Rests
<1>6. CASE ~Obstacle(k)
  <2>1. Matches(k)
    BY <1>1, <1>6, InferenceServiceMatches
  <2>2. c.exists /\ c.owner = obj.uid /\ c.content = content
    BY <1>1, <1>4, <2>1 DEF Matches
  <2>3. wanted = c
    BY <1>3, <2>2, ZenonT(30) DEF Child
  <2>4. ~Unrenderable(k, obj.spec) /\ c.owner # Stranger
    BY <1>1, <1>4, <1>6 DEF Obstacle
  <2>5. child' = child /\ Proceed(k, seen)
    BY <2>3, <2>4 DEF applyInferenceService, Controllable, StoreChild
  <2>6. pc' = "read" /\ UNCHANGED <<ms, fresh>>
    BY <2>5 DEF Proceed
  <2>7. Passed' = {k}
    BY <2>6, KindFacts DEF Passed
  <2>8. Settled' /\ ~Obstacle(k)'
    BY <1>2, <1>6, <2>5, <2>6, SettledStays DEF AtRest
  <2> QED
    BY <1>1, <2>5, <2>6, <2>7, <2>8 DEF AtRest, Current, Rests
<1> QED
  BY <1>5, <1>6

\* What is read back at rest is what is stored.
LEMMA ReadRests ==
    ASSUME Inv, AtRest, readInferenceService
    PROVE  Rests
<1> DEFINE k == "InferenceService"
<1>1. pc = "read" /\ obj = Last(ms) /\ backendForModelService(obj.spec) = "KServe"
  BY RestFacts DEF Inv, OnTrack, readInferenceService
<1>2. Passed = {k}
  BY <1>1, KindFacts DEF Passed
<1>3. ~Obstacle(k) /\ fresh
  BY <1>1, <1>2 DEF AtRest
<1>4. Matches(k) /\ Enabled(k, obj.spec)
  BY <1>1, <1>3, InferenceServiceMatches, ZenonT(30) DEF Enabled
<1>5. /\ pc' = "inferenceStatus" /\ seen' = Last(child[k]).status
      /\ UNCHANGED <<ms, child, fresh>>
  BY <1>1, <1>4 DEF Matches, readInferenceService
<1>6. Passed' = {k}
  BY <1>5, KindFacts DEF Passed
<1>7. k \in Kinds
  BY <1>1, RestFacts, BackendKinds
<1>8. Settled' /\ ~Obstacle(k)'
  BY <1>3, <1>5, <1>7, SettledStays DEF AtRest
<1> QED
  BY <1>3, <1>5, <1>6, <1>8, ZenonT(30) DEF AtRest, Current, Rests

\* A status that is stored already is not written.
LEMMA StatusRests ==
    ASSUME AtRest, NEW status, status = obj.status, UpdateStatus(status)
    PROVE  Rests
BY LeavingRests, Zenon DEF UpdateStatus, Rests

\* Every step of the operator at rest.
LEMMA OperatorRests ==
    ASSUME Inv, AtRest, Operator
    PROVE  Rests
<1>1. SpecDecides(obj.spec)
  BY SpecDecidesAll
<1>2. pc \in Steps
  BY DEF Inv
<1>3. CASE Reconcile
  BY <1>3, ReconcileRests
<1>4. CASE reconcileServiceAccount
  BY <1>1, <1>2, <1>4, WritingRests
     DEF reconcileServiceAccount, Steps, SpecDecides
<1>5. CASE reconcileDeployment
  BY <1>1, <1>2, <1>5, WritingRests DEF reconcileDeployment, Steps, SpecDecides
<1>6. CASE reconcileService
  BY <1>1, <1>2, <1>6, WritingRests DEF reconcileService, Steps, SpecDecides
<1>7. CASE reconcilePersistentVolumeClaim
  BY <1>1, <1>2, <1>7, WritingRests, RemovingRests
     DEF reconcilePersistentVolumeClaim, Steps, SpecDecides
<1>8. CASE reconcilePodDisruptionBudget
  BY <1>1, <1>2, <1>8, WritingRests, RemovingRests
     DEF reconcilePodDisruptionBudget, Steps, SpecDecides
<1>9. CASE reconcileNetworkPolicy
  BY <1>1, <1>2, <1>9, WritingRests, RemovingRests
     DEF reconcileNetworkPolicy, Steps, SpecDecides
<1>10. CASE reconcileHTTPRoute
  <2>1. CASE Fail
    BY <2>1, LeavingRests, ZenonT(30) DEF Fail, Rests
  <2>2. CASE ~Fail
    BY <1>1, <1>2, <1>10, <2>2, WritingRests, RemovingRests
       DEF reconcileHTTPRoute, Steps, SpecDecides
  <2> QED
    BY <2>1, <2>2
<1>11. CASE applyInferenceService
  BY <1>11, ApplyRests
<1>12. CASE readInferenceService
  BY <1>12, ReadRests
<1>13. CASE updateModelServiceStatus
  <2>1. /\ pc = "status" /\ obj = Last(ms) /\ Exists(obj) /\ ~obj.deleting
        /\ backendForModelService(obj.spec) # "KServe" /\ obj \in GoodService
    BY <1>13, RestFacts DEF updateModelServiceStatus, Inv, OnTrack, AtRest
  <2>2. Passed = Kinds \ {"InferenceService"} /\ "Deployment" \in Kinds
    BY <2>1, KindFacts, BackendKinds DEF Passed
  <2>3. \A k \in KindsOf(obj.spec) : ~Obstacle(k)
    BY <2>1, <2>2 DEF AtRest, KindsOf
  <2>4. seen = Last(child["Deployment"]).status
    BY <2>2, ZenonT(30) DEF AtRest
  <2>5. obj.status = deploymentStatus(obj, seen)
    BY <2>1, <2>3, <2>4 DEF AtRest, Settled, StatusCurrent
  <2> QED
    BY <1>13, <2>5, StatusRests, ZenonT(30) DEF updateModelServiceStatus
<1>14. CASE updateModelServiceStatusFromInferenceService
  <2>1. /\ pc = "inferenceStatus" /\ obj = Last(ms) /\ Exists(obj)
        /\ ~obj.deleting /\ backendForModelService(obj.spec) = "KServe"
    BY <1>14, RestFacts
       DEF updateModelServiceStatusFromInferenceService, Inv, OnTrack, AtRest
  <2>2. Passed = {"InferenceService"}
    BY <2>1, KindFacts DEF Passed
  <2>3. \A k \in KindsOf(obj.spec) : ~Obstacle(k)
    BY <2>1, <2>2 DEF AtRest, KindsOf
  <2>4. seen = Last(child["InferenceService"]).status
    BY <2>1, ZenonT(30) DEF AtRest
  <2>5. obj.status = inferenceServiceStatus(obj, seen)
    BY <2>1, <2>3, <2>4 DEF AtRest, Settled, StatusCurrent
  <2> QED
    BY <1>14, <2>5, StatusRests, ZenonT(30)
       DEF updateModelServiceStatusFromInferenceService
<1> QED
  BY <1>3, <1>4, <1>5, <1>6, <1>7, <1>8, <1>9, <1>10, <1>11, <1>12, <1>13,
     <1>14 DEF Operator

\* Reconcile is idempotent: from a settled cluster that the caches show as it
\* is, no pass changes a child or the status, nothing is left to deliver or to
\* collect, and every step of a pass keeps it so; only users, workloads and
\* faults end the rest.
THEOREM ReconcileIsIdempotent == Spec => RestIsKept
<1>1. Inv /\ [Next]_vars =>
        [AtRest /\ (Operator \/ Kubernetes) =>
           AtRest' /\ UNCHANGED <<ms, child>>]_vars
  <2> SUFFICES ASSUME Inv, AtRest, Operator \/ Kubernetes
               PROVE  AtRest' /\ UNCHANGED <<ms, child>>
    OBVIOUS
  <2> QED
    BY OperatorRests, KubernetesRests DEF Rests
<1> QED
  BY <1>1, Invariance, PTL DEF Spec, RestIsKept

\* An operator that has nothing to do is at rest, once the garbage collector
\* has taken the children of earlier ModelServices: what NoLostWakeUp finds is
\* what ReconcileIsIdempotent keeps.
THEOREM QuietIsRest ==
    Spec => [](/\ Quiet
               /\ ~Last(ms).deleting
               /\ \A k \in Kinds :
                    Last(child[k]).owner \in {NoOwner, Stranger, Last(ms).uid}
               => AtRest)
<1>1. ASSUME NothingForgotten, Quiet, ~Last(ms).deleting,
             \A k \in Kinds :
               Last(child[k]).owner \in {NoOwner, Stranger, Last(ms).uid}
      PROVE  AtRest
  <2>1. Settled
    BY <1>1 DEF NothingForgotten, Settled
  <2>2. pc = "idle"
    BY <1>1 DEF Quiet
  <2>3. Passed = {}
    BY <2>2, KindFacts DEF Passed
  <2> QED
    BY <1>1, <2>1, <2>2, <2>3, ZenonT(30) DEF AtRest, Quiet
<1> QED
  BY <1>1, NoLostWakeUp, PTL

===============================================================================
