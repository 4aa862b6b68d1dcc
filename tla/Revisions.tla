------------------------------ MODULE Revisions ------------------------------
(***************************************************************************)
(* What the owned artifact repository promises.  It is a sequence of       *)
(* revisions, each made by one request and different from the one before   *)
(* only in the files that request names; a request makes one revision at   *)
(* most and is answered by it, whatever was made since.                    *)
(***************************************************************************)
EXTENDS Naturals, Sequences

CONSTANTS
    Paths,
    Requests,       \* the requests that clients make, and the seed
    Empty           \* the tree before the first revision

VARIABLES revisions, answers

vars == <<revisions, answers>>

Init == revisions = <<>> /\ answers = {}

Tree == IF revisions = <<>> THEN Empty ELSE revisions[Len(revisions)].tree

Revise(a) ==
    /\ \A i \in DOMAIN revisions : revisions[i].by.rid # a.rid
    /\ LET tree == revisions'[Len(revisions) + 1].tree IN
        /\ revisions' = Append(revisions, [by |-> a, tree |-> tree])
        /\ \A p \in Paths \ a.paths : tree[p] = Tree[p]
    /\ UNCHANGED answers

Answer(i) ==
    /\ answers' = answers \cup {[args |-> revisions[i].by, revision |-> i]}
    /\ UNCHANGED revisions

Next ==
    \/ Len(revisions') = Len(revisions) + 1 /\ \E a \in Requests : Revise(a)
    \/ \E i \in DOMAIN revisions : Answer(i)

Spec == Init /\ [][Next]_vars
=============================================================================
