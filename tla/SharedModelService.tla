-------------------------- MODULE SharedModelService --------------------------
(***************************************************************************)
(* The stored ModelService as the two programs that share it may rely on   *)
(* it.  The platform API and the other users own the desired state: they   *)
(* create, change and remove it, and every change is a new generation.     *)
(* The operator owns the status: it acknowledges a generation, and touches *)
(* nothing else.  RestApi and Reconciler each model one of the two in      *)
(* detail and the other by a few steps; both implement this module.        *)
(***************************************************************************)
EXTENDS ModelServiceSpec

VARIABLES
    object,  \* [uid, generation, observed, spec]; uid 0 when absent
    used     \* the last UID given to an object

Absent == [uid |-> 0, generation |-> 0, observed |-> 0, spec |-> NoSpec]

Init == object = Absent /\ used = 0

\* Only an admitted spec is stored.
Create ==
    /\ object = Absent
    /\ CRDValid(object'.spec)
    /\ object' = [uid |-> used + 1, generation |-> 1, observed |-> 0,
                  spec |-> object'.spec]
    /\ used' = used + 1

\* Another spec, or the request to delete the object once its children are
\* gone: the status stays, and no longer describes the newest generation.
Change ==
    /\ object # Absent
    /\ CRDValid(object'.spec)
    /\ CRDTransition(object.spec, object'.spec)
    /\ object' = [object EXCEPT !.generation = @ + 1, !.spec = object'.spec]
    /\ UNCHANGED used

Remove ==
    /\ object # Absent
    /\ object' = Absent
    /\ UNCHANGED used

Users == Create \/ Change \/ Remove

\* The operator acknowledges the generation that is stored.
Acknowledge ==
    /\ object # Absent
    /\ object' = [object EXCEPT !.observed = object.generation]
    /\ UNCHANGED used

Spec == Init /\ [][Users \/ Acknowledge]_<<object, used>>

===============================================================================
