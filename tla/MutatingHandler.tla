---------------------------- MODULE MutatingHandler ----------------------------
(***************************************************************************)
(* What everybody around a mutating handler may rely on, whatever it reads *)
(* and decides: it sends at most one call, while it runs; it answers once, *)
(* with a code that fits what has become of the call by then; and the API  *)
(* server may handle the call at any time, the handler's answer or death   *)
(* notwithstanding.                                                        *)
(***************************************************************************)
EXTENDS HandlerAnswers

CONSTANT Requests

VARIABLE handler  \* [stage, method, call, code] of each request

Init ==
    handler = [r \in Requests |-> [stage |-> "handling", method |-> "none",
                                   call |-> "none", code |-> 0]]

\* The handler of r runs; its method is known from its first step on.
Handles(r, method) ==
    /\ handler[r].stage = "handling"
    /\ handler[r].method \in {"none", method}

Become(r, stage, method, call, code) ==
    handler' = [handler EXCEPT ![r] = [stage |-> stage, method |-> method,
                                       call |-> call, code |-> code]]

Begin(r, method) ==
    /\ Handles(r, method)
    /\ Become(r, "handling", method, handler[r].call, handler[r].code)

SendCall(r, method) ==
    /\ Handles(r, method)
    /\ handler[r].call = "none"
    /\ Become(r, "handling", method, "outstanding", handler[r].code)

ServerHandles(r) ==
    /\ handler[r].call = "outstanding"
    /\ \E result \in Results :
         Become(r, handler[r].stage, handler[r].method, result, handler[r].code)

Answer(r, method) ==
    /\ Handles(r, method)
    /\ \E code \in AnswerCodes(method, handler[r].call) :
         Become(r, "answered", method, handler[r].call, code)

\* The process dies with the handlers that have begun.
Exit ==
    handler' = [r \in Requests |->
                  IF handler[r].stage = "handling" /\ handler[r].method # "none"
                  THEN [handler[r] EXCEPT !.stage = "lost"] ELSE handler[r]]

Next ==
    \/ \E r \in Requests : ServerHandles(r)
    \/ \E r \in Requests, method \in {"POST", "PUT", "PATCH", "DELETE"} :
         Begin(r, method) \/ SendCall(r, method) \/ Answer(r, method)
    \/ Exit

Spec == Init /\ [][Next]_handler

================================================================================
