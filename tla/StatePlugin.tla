----------------------------- MODULE StatePlugin -----------------------------
(***************************************************************************)
(* The plugins of a workspace and the markers of its State plugin, kept in *)
(* one SQLite file.  Calls run on threads of their own.  Every connection  *)
(* writes when it is opened, so that all of them queue for the one writer  *)
(* of the file; a transaction is rolled back when its call fails or the    *)
(* host dies.                                                              *)
(*                                                                         *)
(* An advance looks at the marker, its task and its evidence before it     *)
(* opens the transaction that moves the marker: tasks, evidence and        *)
(* membership belong to other components and change at any time.           *)
(***************************************************************************)
EXTENDS Naturals, FiniteSets, SequencesExt, Functions

CONSTANTS
    Clients,        \* threads that serve calls
    RequestIds,
    Participants,
    Markers,
    Arguments,      \* the calls clients make
    MaxStates, MaxTransitions, MaxPrerequisites, MaxCapabilities,
    None            \* absence of a value

\* Core and Chat are required and are never detached.
Optional == {"tasks", "state"}

StateWrites == {"define", "create", "advance"}
Attachments == {"attach", "detach"}
TaskWrites  == {"task_close", "task_reopen"}

\* The fields of a call; those that its operation does not take are None.
Argument(a) ==
    [op |-> a.op, rid |-> a.rid, who |-> a.who, plugin |-> a.plugin,
     definition |-> a.definition, def |-> a.def, task |-> a.task, marker |-> a.marker,
     expected |-> a.expected, to |-> a.to, refs |-> a.refs,
     wanted |-> a.wanted, capability |-> a.capability]

ASSUME ArgumentsAssumption ==
    \A a \in Arguments :
        /\ a = Argument(a)
        /\ a.op \in StateWrites \cup Attachments \cup TaskWrites \cup {"opportunities"}
        /\ a.op \in StateWrites \cup Attachments => a.rid \in RequestIds
        /\ a.op \in Attachments => a.plugin \in Optional
        /\ a.op \in StateWrites => a.who \in Participants
        /\ a.op = "define" => a.definition.edges \in Seq(ToSet(a.definition.edges))
        /\ a.op \in {"create", "advance"} => a.marker \in Markers
        /\ a.op = "create" => a.task \in BOOLEAN
        /\ a.op = "advance" => a.refs \in BOOLEAN /\ a.expected \in Nat \ {0}

ASSUME NoneAssumption == None \notin Clients \cup Markers \cup Participants \cup RequestIds

VARIABLES
    definitions,    \* state_definition
    markers,        \* state_marker
    history,        \* state_history
    attached,       \* plugin_attachment
    receipts,       \* plugin_receipt
    writer,         \* the call whose transaction is open
    locks,          \* request_locks
    call,           \* what each thread is doing
    task,           \* the task that markers have as their subject
    members,        \* registered participants
    evidence,       \* whether a submitted reference resolves
    answers,        \* history: successful answers to state writes
    witnessed       \* history: what was true at each revision of a marker

store == <<definitions, markers, history, attached, receipts>>
world == <<task, members, evidence>>
vars  == <<store, writer, locks, call, world, answers, witnessed>>

TaskStatuses == {"open", "closed", "missing"}

Phases ==
    {"idle", "lock", "replay", "look", "observe", "judge", "open", "validate", "apply",
     "reply", "admit", "write", "list", "detail"}

Idle ==
    [phase |-> "idle", args |-> None, edge |-> None, attached |-> FALSE, task |-> None,
     result |-> None, todo |-> {}, found |-> {}]

\* What clients try to define, and the names it uses.
Definitions == {a.definition : a \in {b \in Arguments : b.op = "define"}}
StateNames  == UNION {ToSet(d.states) : d \in Definitions}
Marker ==
    [def: {d.id : d \in Definitions}, state: StateNames, revision: Nat \ {0}, task: BOOLEAN]

ASSUME MarkerAssumption == None \notin Marker

Edge == UNION {ToSet(d.edges) : d \in Definitions}
Entry == [from: StateNames \cup {None}, to: StateNames, by: Participants]
Receipt == [plugin: Optional, args: Arguments, result: Marker \cup {None}]
Answer == [args: Arguments, result: Marker \cup {None}]
Call ==
    [phase: Phases, args: Arguments \cup {None}, edge: Edge \cup {None}, attached: BOOLEAN,
     task: TaskStatuses \cup {None}, result: Marker \cup {None},
     todo: SUBSET Markers, found: SUBSET [marker: Markers, seen: Marker]]

StateTypeOK ==
    /\ definitions \subseteq Definitions
    /\ markers \in [Markers -> Marker \cup {None}]
    /\ history \in [Markers -> Seq(Entry)]
    /\ attached \in [Optional -> BOOLEAN]
    /\ receipts \subseteq Receipt
    /\ writer \in Clients \cup {None}
    /\ locks \in [RequestIds -> Clients \cup {None}]
    /\ call \in [Clients -> Call]
    /\ task \in TaskStatuses
    /\ members \subseteq Participants
    /\ evidence \in BOOLEAN
    /\ answers \subseteq Answer

Init ==
    /\ definitions = {}
    /\ markers = [m \in Markers |-> None]
    /\ history = [m \in Markers |-> <<>>]
    /\ attached = [p \in Optional |-> p = "tasks"]
    /\ receipts = {}
    /\ writer = None
    /\ locks = [r \in RequestIds |-> None]
    /\ call = [c \in Clients |-> Idle]
    /\ task = "open"
    /\ members = Participants
    /\ evidence = TRUE
    /\ answers = {}
    /\ witnessed = {}

-----------------------------------------------------------------------------
(* Definitions and readiness.                                              *)

\* MUTANT of parse_definition: one move may be declared twice.
MutDuplicateEdges(d) ==
    LET names == ToSet(d.states) IN
    /\ Len(d.states) \in 1 .. MaxStates
    /\ IsInjective(d.states)
    /\ d.initial \in names
    /\ DOMAIN d.guidance \subseteq names
    /\ \A s \in DOMAIN d.guidance :
        Len(d.guidance[s]) <= MaxCapabilities /\ IsInjective(d.guidance[s])
    /\ Len(d.edges) <= MaxTransitions
    /\ \A i \in DOMAIN d.edges :
        LET e == d.edges[i] IN
        /\ {e.from, e.to} \subseteq names
        /\ Len(e.needs) <= MaxPrerequisites /\ IsInjective(e.needs)
        /\ ToSet(e.needs) \subseteq {"subject_task_closed", "reference_kind"}

\* A definition whose names are declared and unique, within the bounds.
\* Guidance maps states to the capabilities it asks for.
parse_definition(d) ==
    LET names == ToSet(d.states) IN
    /\ Len(d.states) \in 1 .. MaxStates
    /\ IsInjective(d.states)
    /\ d.initial \in names
    /\ DOMAIN d.guidance \subseteq names
    /\ \A s \in DOMAIN d.guidance :
        Len(d.guidance[s]) <= MaxCapabilities /\ IsInjective(d.guidance[s])
    /\ Len(d.edges) <= MaxTransitions
    /\ \A i \in DOMAIN d.edges :
        LET e == d.edges[i] IN
        /\ {e.from, e.to} \subseteq names
        /\ Len(e.needs) <= MaxPrerequisites /\ IsInjective(e.needs)
        /\ ToSet(e.needs) \subseteq {"subject_task_closed", "reference_kind"}
        /\ \A j \in 1 .. i - 1 : <<d.edges[j].from, d.edges[j].to>> # <<e.from, e.to>>

Stored(id) == {d \in definitions : d.id = id}

Definition(m) == CHOOSE d \in Stored(m.def) : TRUE

Leaving(m) == {e \in ToSet(Definition(m).edges) : e.from = m.state}

\* The first edge of the definition that goes from the marker's state to a state.
declared_transition(m, to) ==
    LET edges == Definition(m).edges
        fits  == {i \in DOMAIN edges : edges[i].from = m.state /\ edges[i].to = to}
    IN edges[CHOOSE i \in fits : \A j \in fits : i <= j]

CapabilitiesOf(m) ==
    LET guidance == Definition(m).guidance
    IN IF m.state \in DOMAIN guidance THEN ToSet(guidance[m.state]) ELSE {}

transition_readiness(m, edge, isAttached, refs, observed) ==
    LET needs == ToSet(edge.needs) IN
    IF \/ ~isAttached
       \/ m.task /\ observed = "missing"
       \/ "subject_task_closed" \in needs /\ ~(m.task /\ observed = "closed")
       \/ "reference_kind" \in needs /\ refs /\ ~evidence
    THEN "blocked"
    ELSE IF "reference_kind" \in needs /\ ~refs THEN "needs_input" ELSE "ready"

-----------------------------------------------------------------------------
(* The course of a call.                                                   *)

FirstPhase(op) ==
    CASE op = "advance"            -> "lock"
      [] op = "opportunities"      -> "list"
      [] op \in TaskWrites         -> "admit"
      [] OTHER                     -> "open"

Begin(c) ==
    /\ call[c].phase = "idle"
    /\ \E a \in Arguments :
        /\ a.op = "define" => parse_definition(a.definition)
        /\ call' = [call EXCEPT ![c] =
                        [Idle EXCEPT !.phase = FirstPhase(a.op), !.args = a]]
    /\ UNCHANGED <<store, writer, locks, world, answers>>

Goto(c, phase) == call' = [call EXCEPT ![c].phase = phase]

\* The call ends: its transaction is rolled back, its request lock is freed.
End(c) ==
    /\ call' = [call EXCEPT ![c] = Idle]
    /\ writer' = IF writer = c THEN None ELSE writer
    /\ locks' = [r \in RequestIds |-> IF locks[r] = c THEN None ELSE locks[r]]
    /\ UNCHANGED <<store, world>>

Fail(c) == End(c) /\ UNCHANGED answers

Deliver(c, result) ==
    /\ End(c)
    /\ answers' = answers \cup {[args |-> call[c].args, result |-> result]}

PluginOf(a) == IF a.op \in Attachments THEN a.plugin ELSE "state"

Receipts(a) == {r \in receipts : r.plugin = PluginOf(a) /\ r.args.rid = a.rid}

\* An advance holds the lock of its request id from its first read to its end.
Lock(c) ==
    /\ call[c].phase = "lock"
    /\ locks[call[c].args.rid] = None
    /\ locks' = [locks EXCEPT ![call[c].args.rid] = c]
    /\ Goto(c, "replay")
    /\ UNCHANGED <<store, writer, world, answers>>

\* plugin_db writes when it opens the file, and waits three seconds at most.
Connects == {"replay", "look", "open", "admit", "list", "detail"}

plugin_db(c) == writer = None

\* Attach and detach connect again for what they report.
Busy(c) ==
    /\ \/ call[c].phase \in Connects
       \/ call[c].phase = "reply" /\ call[c].args.op \in Attachments
    /\ ~plugin_db(c)
    /\ Fail(c)

\* The receipt of a request id: of another request it refuses the call, of this
\* one it answers the call; without one the call goes on.
Refused(c) == \E r \in Receipts(call[c].args) : r.args # call[c].args /\ Fail(c)
Replayed(c) ==
    \E r \in Receipts(call[c].args) : r.args = call[c].args /\ Deliver(c, r.result)

state_replay(c) ==
    /\ call[c].phase = "replay"
    /\ plugin_db(c)
    /\ \/ Refused(c)
       \/ Replayed(c)
       \/ /\ Receipts(call[c].args) = {}
          /\ Goto(c, "look")
          /\ UNCHANGED <<store, writer, locks, world, answers>>

\* The marker is there, at the expected revision, with a declared edge.
CanAdvance(a) ==
    /\ markers[a.marker] # None
    /\ markers[a.marker].revision = a.expected
    /\ \E e \in Leaving(markers[a.marker]) : e.to = a.to

state_stored_detail(c) ==
    LET a == call[c].args IN
    /\ call[c].phase = "look"
    /\ plugin_db(c)
    /\ IF CanAdvance(a)
       THEN /\ call' = [call EXCEPT ![c] =
                    [@ EXCEPT !.phase = "observe", !.attached = attached["state"],
                              !.edge = declared_transition(markers[a.marker], a.to)]]
            /\ UNCHANGED <<store, writer, locks, world, answers>>
       ELSE Fail(c)

\* The subject of a marker never changes.
marker_task_observation(c) ==
    /\ call[c].phase = "observe"
    /\ call' = [call EXCEPT ![c] =
            [@ EXCEPT !.phase = "judge",
                      !.task = IF markers[call[c].args.marker].task THEN task ELSE None]]
    /\ UNCHANGED <<store, writer, locks, world, answers>>

Judge(c) ==
    LET a == call[c].args IN
    /\ call[c].phase = "judge"
    /\ IF transition_readiness(markers[a.marker], call[c].edge, call[c].attached,
                               a.refs, call[c].task) = "ready"
       THEN /\ Goto(c, "open")
            /\ UNCHANGED <<store, writer, locks, world, answers>>
       ELSE Fail(c)

-----------------------------------------------------------------------------
(* The transaction.                                                        *)

OpenTransaction(c) ==
    /\ call[c].phase = "open"
    /\ plugin_db(c)
    /\ \/ Refused(c)
       \/ Replayed(c)
       \/ /\ Receipts(call[c].args) = {}
          /\ writer' = c
          /\ Goto(c, IF call[c].args.op \in Attachments THEN "apply" ELSE "validate")
          /\ UNCHANGED <<store, locks, world, answers>>

participant(c) ==
    /\ call[c].phase = "validate"
    /\ IF call[c].args.who \in members
       THEN /\ Goto(c, "apply")
            /\ UNCHANGED <<store, writer, locks, world, answers>>
       ELSE Fail(c)

\* MUTANT of Commit: advances leave no receipt.
MutNoReceipt(c, result) ==
    /\ receipts' = IF call[c].args.op = "advance" THEN receipts ELSE receipts \cup
            {[plugin |-> PluginOf(call[c].args), args |-> call[c].args, result |-> result]}
    /\ writer' = None
    /\ call' = [call EXCEPT ![c] = [@ EXCEPT !.phase = "reply", !.result = result]]
    /\ UNCHANGED <<locks, world, answers>>

Commit(c, result) ==
    /\ receipts' = receipts \cup
            {[plugin |-> PluginOf(call[c].args), args |-> call[c].args, result |-> result]}
    /\ writer' = None
    /\ call' = [call EXCEPT ![c] = [@ EXCEPT !.phase = "reply", !.result = result]]
    /\ UNCHANGED <<locks, world, answers>>

set_attachment(c) ==
    LET a == call[c].args IN
    /\ call[c].phase = "apply"
    /\ a.op \in Attachments
    /\ attached' = [attached EXCEPT ![a.plugin] = a.op = "attach"]
    /\ Commit(c, None)
    /\ UNCHANGED <<definitions, markers, history>>

\* MUTANT of CanWrite: the attachment read before the transaction is trusted.
MutTrustAttachment(a) ==
    CASE a.op = "define"  -> Stored(a.definition.id) = {}
      [] a.op = "create"  -> Stored(a.def) # {} /\ markers[a.marker] = None
      [] a.op = "advance" -> CanAdvance(a)

\* MUTANT of CanWrite: the revision checked before the transaction is trusted.
MutTrustRevision(a) ==
    /\ attached["state"]
    /\ CASE a.op = "define"  -> Stored(a.definition.id) = {}
         [] a.op = "create"  -> Stored(a.def) # {} /\ markers[a.marker] = None
         [] a.op = "advance" -> markers[a.marker] # None

\* What the work of a state write needs, checked inside its transaction.
CanWrite(a) ==
    /\ attached["state"]
    /\ CASE a.op = "define"  -> Stored(a.definition.id) = {}
         [] a.op = "create"  -> Stored(a.def) # {} /\ markers[a.marker] = None
         [] a.op = "advance" -> CanAdvance(a)

state_define(c) ==
    LET a == call[c].args IN
    /\ call[c].phase = "apply"
    /\ a.op = "define"
    /\ CanWrite(a)
    /\ definitions' = definitions \cup {a.definition}
    /\ Commit(c, None)
    /\ UNCHANGED <<markers, history, attached>>

\* A marker and its history change in one transaction.
Put(c, marker, from) ==
    LET a == call[c].args IN
    /\ CanWrite(a)
    /\ markers' = [markers EXCEPT ![a.marker] = marker]
    /\ history' = [history EXCEPT ![a.marker] =
                        Append(@, [from |-> from, to |-> marker.state, by |-> a.who])]
    /\ Commit(c, marker)
    /\ UNCHANGED <<definitions, attached>>

\* MUTANT of state_create: revisions start at zero.
MutFromZero(c) ==
    LET a == call[c].args IN
    /\ call[c].phase = "apply"
    /\ a.op = "create"
    /\ \E d \in Stored(a.def) :
        Put(c, [def |-> d.id, state |-> d.initial, revision |-> 0, task |-> a.task], None)

state_create(c) ==
    LET a == call[c].args IN
    /\ call[c].phase = "apply"
    /\ a.op = "create"
    /\ \E d \in Stored(a.def) :
        Put(c, [def |-> d.id, state |-> d.initial, revision |-> 1, task |-> a.task], None)

state_advance(c) ==
    LET a == call[c].args
        m == markers[a.marker]
    IN
    /\ call[c].phase = "apply"
    /\ a.op = "advance"
    /\ m # None
    /\ Put(c, [m EXCEPT !.state = a.to, !.revision = @ + 1], m.state)

WriteFails(c) ==
    /\ call[c].phase = "apply"
    /\ call[c].args.op \in StateWrites
    /\ ~CanWrite(call[c].args)
    /\ Fail(c)

Reply(c) ==
    /\ call[c].phase = "reply"
    /\ call[c].args.op \in Attachments => plugin_db(c)
    /\ Deliver(c, call[c].result)

-----------------------------------------------------------------------------
(* Task writes and opportunities.                                          *)

\* A task write is admitted by the attachment and carried out later.
ensure_plugin_write(c) ==
    /\ call[c].phase = "admit"
    /\ plugin_db(c)
    /\ IF attached["tasks"]
       THEN /\ Goto(c, "write")
            /\ UNCHANGED <<store, writer, locks, world, answers>>
       ELSE Fail(c)

TaskWrite(c) ==
    /\ call[c].phase = "write"
    /\ task # "missing"
    /\ task' = IF call[c].args.op = "task_close" THEN "closed" ELSE "open"
    /\ call' = [call EXCEPT ![c] = Idle]
    /\ UNCHANGED <<store, writer, locks, members, evidence, answers>>

TaskWriteFails(c) == call[c].phase = "write" /\ task = "missing" /\ Fail(c)

\* The wanted state is compared with the list, the rest with a later read of
\* each marker.
state_opportunities(c) ==
    LET wanted == call[c].args.wanted IN
    /\ call[c].phase = "list"
    /\ plugin_db(c)
    /\ call' = [call EXCEPT ![c] =
            [@ EXCEPT !.phase = "detail",
                      !.todo = {m \in Markers :
                                    /\ markers[m] # None
                                    /\ wanted \in {None, markers[m].state}}]]
    /\ UNCHANGED <<store, writer, locks, world, answers>>

\* MUTANT of IsOpportunity: final states are offered too.
MutOfferFinal(m, capability) == capability # None => capability \in CapabilitiesOf(m)

IsOpportunity(m, capability) ==
    /\ Leaving(m) # {}
    /\ capability # None => capability \in CapabilitiesOf(m)

state_detail(c) ==
    /\ call[c].phase = "detail"
    /\ plugin_db(c)
    /\ \E m \in call[c].todo :
        LET offered == IF IsOpportunity(markers[m], call[c].args.capability)
                       THEN {[marker |-> m, seen |-> markers[m]]} ELSE {}
        IN call' = [call EXCEPT ![c] =
                [@ EXCEPT !.todo = call[c].todo \ {m}, !.found = call[c].found \cup offered]]
    /\ UNCHANGED <<store, writer, locks, world, answers>>

OpportunitiesDone(c) == call[c].phase = "detail" /\ call[c].todo = {} /\ Fail(c)

-----------------------------------------------------------------------------
(* The surroundings.                                                       *)

\* br run by hand, a store that is detached: the task changes by other ways.
TaskMoves ==
    /\ \E s \in TaskStatuses \ {task} : task' = s
    /\ UNCHANGED <<store, writer, locks, call, members, evidence, answers>>

MemberMoves ==
    /\ \E p \in Participants :
        members' = IF p \in members THEN members \ {p} ELSE members \cup {p}
    /\ UNCHANGED <<store, writer, locks, call, task, evidence, answers>>

EvidenceMoves ==
    /\ evidence' = ~evidence
    /\ UNCHANGED <<store, writer, locks, call, task, members, answers>>

Crash ==
    /\ call' = [c \in Clients |-> Idle]
    /\ call # call'
    /\ writer' = None
    /\ locks' = [r \in RequestIds |-> None]
    /\ UNCHANGED <<store, world, answers>>

\* What holds of the world while a marker is at a revision.
Facts(status, present, resolves) ==
    present \cup (IF status = "closed" THEN {"closed"} ELSE {})
            \cup (IF resolves THEN {"resolves"} ELSE {})

Watch ==
    witnessed' = witnessed \cup
        UNION {{<<m, markers'[m].revision, f>> : f \in Facts(task', members', evidence')} :
                    m \in {n \in Markers : markers'[n] # None}}

Proceed(c) ==
    \/ Lock(c)
    \/ Busy(c)
    \/ state_replay(c)
    \/ state_stored_detail(c)
    \/ marker_task_observation(c)
    \/ Judge(c)
    \/ OpenTransaction(c)
    \/ participant(c)
    \/ set_attachment(c)
    \/ state_define(c)
    \/ state_create(c)
    \/ state_advance(c)
    \/ WriteFails(c)
    \/ Reply(c)
    \/ ensure_plugin_write(c)
    \/ TaskWrite(c)
    \/ TaskWriteFails(c)
    \/ state_opportunities(c)
    \/ state_detail(c)
    \/ OpportunitiesDone(c)

Next ==
    /\ \/ \E c \in Clients : Begin(c) \/ Proceed(c)
       \/ TaskMoves
       \/ MemberMoves
       \/ EvidenceMoves
       \/ Crash
    /\ Watch

Spec == Init /\ [][Next]_vars

-----------------------------------------------------------------------------
(* Properties.                                                             *)

EdgesOf(id) == UNION {{<<e.from, e.to>> : e \in ToSet(d.edges)} : d \in Stored(id)}

\* A marker is where its history says: it began in the initial state of its
\* definition and each entry starts where the one before ended, along an edge of
\* the definition, although several calls read, judge and write it.
HistoryIsChain ==
    \A m \in Markers :
        LET h == history[m] IN
        IF markers[m] = None
        THEN h = <<>>
        ELSE /\ markers[m].revision = Len(h)
             /\ markers[m].state = Last(h).to
             /\ \E d \in Stored(markers[m].def) : h[1].to = d.initial
             /\ \A i \in 2 .. Len(h) :
                    /\ h[i].from = h[i - 1].to
                    /\ <<h[i].from, h[i].to>> \in EdgesOf(markers[m].def)

\* A marker left a state only while what the edge asks for held: at some moment
\* of that very revision the task was closed, the reference resolved and the
\* participant was registered, though nothing of this is checked in the
\* transaction that moves the marker.
AdvanceWasJustified ==
    \A m \in Markers : markers[m] # None =>
        \A i \in 2 .. Len(history[m]) :
            LET h == history[m][i]
                Held(f) == <<m, i - 1, f>> \in witnessed
            IN /\ Held(h.by)
               /\ \A d \in Stored(markers[m].def) : \A e \in ToSet(d.edges) :
                    e.from = h.from /\ e.to = h.to =>
                        /\ "subject_task_closed" \in ToSet(e.needs) =>
                                markers[m].task /\ Held("closed")
                        /\ "reference_kind" \in ToSet(e.needs) => Held("resolves")

\* While State is detached its definitions, markers and histories do not
\* change, whatever calls were under way when it was detached.
DetachedStateIsFrozen ==
    [][~attached["state"] => UNCHANGED <<definitions, markers, history>>]_vars

\* The state an opportunity is reported in can be left and asks for the
\* capability, and the marker was in the wanted state at the revision it is
\* reported at or at an earlier one: list and details are separate reads.
OpportunityWasReal ==
    \A c \in Clients : \A f \in call[c].found :
        /\ Leaving(f.seen) # {}
        /\ call[c].args.capability \in CapabilitiesOf(f.seen) \cup {None}
        /\ call[c].args.wanted # None =>
            \E i \in 1 .. f.seen.revision : history[f.marker][i].to = call[c].args.wanted

\* Seen from its clients the plugin is a set of versioned markers: every move
\* is one atomic compare-and-swap of one request, and an answer repeats it.
StateRequests == {a \in Arguments : a.op \in StateWrites}
Done(S) ==
    {[args |-> r.args, result |-> r.result] : r \in {q \in S : q.args \in StateRequests}}

Board == INSTANCE VersionedMarkers WITH
    Requests <- StateRequests,
    declared <- definitions,
    current  <- markers,
    done     <- Done(receipts),
    answers  <- Done(answers)

ImplementsVersionedMarkers == Board!Spec
=============================================================================
