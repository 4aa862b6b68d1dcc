-------------------------- MODULE VersionedMarkers --------------------------
(***************************************************************************)
(* What the State plugin promises about its markers.  A definition is      *)
(* declared once and never changes.  A marker is created once, in the      *)
(* initial state of its definition, and from then on moves along declared  *)
(* edges only, one revision at a time.  A request takes effect at most     *)
(* once, an advance from the revision it names; whatever number of times   *)
(* it is sent, it is answered by what it did.                              *)
(***************************************************************************)
EXTENDS Naturals, Sequences

CONSTANTS
    Markers,
    Requests,       \* the requests that define, create or advance
    None

VARIABLES declared, current, done, answers

vars == <<declared, current, done, answers>>

Init ==
    /\ declared = {}
    /\ current = [m \in Markers |-> None]
    /\ done = {}
    /\ answers = {}

\* A request takes effect, and is done for good.
Perform(a, result) ==
    /\ a \in Requests
    /\ \A d \in done : d.args.rid # a.rid
    /\ done' = done \cup {[args |-> a, result |-> result]}
    /\ UNCHANGED answers

Define(a) ==
    /\ a.op = "define"
    /\ \A d \in declared : d.id # a.definition.id
    /\ declared' = declared \cup {a.definition}
    /\ Perform(a, None)
    /\ UNCHANGED current

Place(a, marker) ==
    /\ current' = [current EXCEPT ![a.marker] = marker]
    /\ Perform(a, marker)
    /\ UNCHANGED declared

Create(a) ==
    /\ a.op = "create"
    /\ current[a.marker] = None
    /\ \E d \in declared :
        /\ d.id = a.def
        /\ Place(a, [def |-> d.id, state |-> d.initial, revision |-> 1, task |-> a.task])

Advance(a) ==
    LET m == current[a.marker] IN
    /\ a.op = "advance"
    /\ m # None
    /\ m.revision = a.expected
    /\ \E d \in declared : \E i \in DOMAIN d.edges :
        /\ d.id = m.def
        /\ d.edges[i].from = m.state /\ d.edges[i].to = a.to
    /\ Place(a, [m EXCEPT !.state = a.to, !.revision = @ + 1])

Answer ==
    /\ \E d \in done : answers' = answers \cup {d}
    /\ UNCHANGED <<declared, current, done>>

Next == Answer \/ \E a \in Requests : Define(a) \/ Create(a) \/ Advance(a)

Spec == Init /\ [][Next]_vars
=============================================================================
