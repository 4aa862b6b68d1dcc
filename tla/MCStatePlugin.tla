---------------------------- MODULE MCStatePlugin ----------------------------
(* Small instances of StatePlugin: the calls clients make in each run.      *)
EXTENDS StatePlugin, TLC

CONSTANTS r1, r2, r3, r4, r5, m1, p

Edge_(from, to, needs) == [from |-> from, to |-> to, needs |-> needs]

\* A review that asks for a closed task and a reference, and an archive.
Handoff ==
    [id |-> "handoff", states |-> <<"draft", "review", "done">>, initial |-> "draft",
     edges |-> <<Edge_("draft", "review", <<"subject_task_closed", "reference_kind">>),
                 Edge_("draft", "done", <<>>),
                 Edge_("review", "draft", <<>>)>>,
     guidance |-> [s \in {"review", "done"} |-> <<"approve">>]]

\* One move declared twice, with and without its prerequisites.
Ambiguous ==
    [Handoff EXCEPT !.edges = <<Edge_("draft", "review", <<>>)>> \o @]

Blank ==
    [op |-> None, rid |-> None, who |-> None, plugin |-> None, definition |-> None,
     def |-> None, task |-> None, marker |-> None, expected |-> None, to |-> None,
     refs |-> None, wanted |-> None, capability |-> None]

Define(r, d) == [Blank EXCEPT !.op = "define", !.rid = r, !.who = p, !.definition = d]
Create(r) ==
    [Blank EXCEPT !.op = "create", !.rid = r, !.who = p, !.def = "handoff",
                  !.task = TRUE, !.marker = m1]
Advance(r, who, expected, to, refs) ==
    [Blank EXCEPT !.op = "advance", !.rid = r, !.who = who, !.marker = m1,
                  !.expected = expected, !.to = to, !.refs = refs]
Attachment(r, op, plugin) == [Blank EXCEPT !.op = op, !.rid = r, !.plugin = plugin]
TaskCall(op) == [Blank EXCEPT !.op = op]
Opportunities(wanted) ==
    [Blank EXCEPT !.op = "opportunities", !.wanted = wanted, !.capability = "approve"]

Calls ==
    {Define(r1, Handoff), Define(r1, Ambiguous), Create(r2),
     Advance(r3, p, 1, "review", TRUE),
     Advance(r4, p, 1, "done", FALSE),
     Attachment(r5, "attach", "state"), Attachment(r2, "detach", "state"),
     TaskCall("task_close"), Opportunities("draft")}
ClientSymmetry == Permutations(Clients)
=============================================================================
