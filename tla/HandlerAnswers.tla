---------------------------- MODULE HandlerAnswers ----------------------------
(***************************************************************************)
(* The status codes of a mutating handler, by what became of its call to   *)
(* the API server: what the wrappers around the handlers (ApiServer) and   *)
(* the handlers themselves (RestApi) agree on.                             *)
(***************************************************************************)
EXTENDS Integers

\* What the API server does with a call: it applies or refuses it, or finds
\* the object gone.
Results == {"applied", "refused", "gone"}

\* Mutant: POST answers as if the object were created later.
SuccessCodeAccepted(method) ==
    CASE method = "POST" -> 202 [] method = "DELETE" -> 204 [] OTHER -> 200

SuccessCode(method) ==
    CASE method = "POST" -> 201 [] method = "DELETE" -> 204 [] OTHER -> 200

\* The refusals before the call: the body, and for an object that exists the
\* Get, which may find it missing or managed by GitOps.
RejectCodes(method) ==
    CASE method = "POST"   -> {400, 413, 415}
      [] method = "DELETE" -> {400, 404, 409}
      [] OTHER             -> {400, 413, 404, 409}

\* Mutant: a client without a timeout waits for the API server's answer.
AnswerCodesNoTimeout(method, call) ==
    CASE call = "outstanding" -> {}
      [] call = "applied"     -> {SuccessCode(method)}
      [] OTHER                -> {503}

\* A call that does not return within the client's timeout, and a Get or a
\* call that fails otherwise, are 503.  A DELETE of an object that is gone
\* already succeeded.
AnswerCodes(method, call) ==
    {503} \cup
    CASE call = "applied" -> {SuccessCode(method)}
      [] call = "none"    -> RejectCodes(method)
      [] call = "refused" -> {409}
      [] call = "gone" /\ method = "DELETE" -> {204}
      [] OTHER -> {}

===============================================================================
