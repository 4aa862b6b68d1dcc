----------------------------- MODULE AtMostOnce -----------------------------
(***************************************************************************)
(* What a client of a request with an id may rely on.  The id is bound to  *)
(* one meaning for ever, its effect happens at most once and only after it *)
(* was bound, and it gets at most one durable answer.  A denial is final:  *)
(* the effect has not happened and will not.  For the meanings in Own a    *)
(* confirmation says that the effect of this very request has happened;    *)
(* other confirmations only say that the wanted state was seen, so their   *)
(* effect may still follow.                                                *)
(***************************************************************************)
EXTENDS Naturals

CONSTANTS Requests, Meanings, Own, None

VARIABLES bound, effects, answer

vars == <<bound, effects, answer>>

Init ==
    /\ bound = [r \in Requests |-> None]
    /\ effects = [r \in Requests |-> 0]
    /\ answer = [r \in Requests |-> "open"]

Bind(r) ==
    /\ bound[r] = None
    /\ \E m \in Meanings : bound' = [bound EXCEPT ![r] = m]
    /\ UNCHANGED <<effects, answer>>

Apply(r) ==
    /\ bound[r] # None
    /\ effects[r] = 0
    /\ answer[r] # "denied"
    /\ effects' = [effects EXCEPT ![r] = 1]
    /\ UNCHANGED <<bound, answer>>

Confirm(r) ==
    /\ bound[r] # None
    /\ answer[r] = "open"
    /\ bound[r] \in Own => effects[r] = 1
    /\ answer' = [answer EXCEPT ![r] = "confirmed"]
    /\ UNCHANGED <<bound, effects>>

Deny(r) ==
    /\ bound[r] # None
    /\ answer[r] = "open"
    /\ effects[r] = 0
    /\ answer' = [answer EXCEPT ![r] = "denied"]
    /\ UNCHANGED <<bound, effects>>

Next == \E r \in Requests : Bind(r) \/ Apply(r) \/ Confirm(r) \/ Deny(r)

Spec == Init /\ [][Next]_vars
=============================================================================
