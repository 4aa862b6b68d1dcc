-------------------------- MODULE StatePlugin_proofs --------------------------
(***************************************************************************)
(* Proofs about StatePlugin, for every set of clients, markers and calls.  *)
(* A marker is where its history says, it moved only while what its edges  *)
(* ask for held, a detached plugin is frozen, an opportunity was real, and *)
(* the plugin implements VersionedMarkers.                                 *)
(***************************************************************************)
EXTENDS StatePlugin, TLAPS

Types ==
    /\ definitions \subseteq Definitions
    /\ markers \in [Markers -> Marker \cup {None}]
    /\ history \in [Markers -> Seq(Entry)]
    /\ attached \in [Optional -> BOOLEAN]
    /\ receipts \subseteq Receipt
    /\ writer \in Clients \cup {None}
    /\ locks \in [RequestIds -> Clients \cup {None}]
    /\ call \in [Clients -> Call]
    /\ task \in TaskStatuses
    /\ members \subseteq Participants
    /\ evidence \in BOOLEAN
    /\ answers \subseteq Answer

\* Definitions are well formed, and their names are unique.
Declared ==
    /\ \A d \in definitions : parse_definition(d)
    /\ \A d, e \in definitions : d.id = e.id => d = e
    /\ \A m \in Markers : markers[m] # None => Stored(markers[m].def) # {}

\* Which calls go through which phase, and what they have read.
Course(c) ==
    LET k == call[c] IN
    /\ k.phase # "idle" => k.args \in Arguments
    /\ k.phase \in {"lock", "replay", "look", "observe", "judge"} => k.args.op = "advance"
    /\ k.phase \in {"open", "apply", "reply"} => k.args.op \in StateWrites \cup Attachments
    /\ k.phase = "validate" => k.args.op \in StateWrites
    /\ (k.phase # "idle" /\ k.args.op = "define") => parse_definition(k.args.definition)
    /\ \A m \in k.todo : markers[m] # None

TypeInv == Types /\ Declared /\ \A c \in Clients : Course(c)

-----------------------------------------------------------------------------
(* Types.                                                                  *)

LEMMA ArgumentFacts ==
    ASSUME NEW a \in Arguments
    PROVE  /\ a.op \in StateWrites \cup Attachments \cup TaskWrites \cup {"opportunities"}
           /\ a.op \in StateWrites \cup Attachments => a.rid \in RequestIds
           /\ a.op \in Attachments => a.plugin \in Optional
           /\ a.op \in StateWrites => a.who \in Participants
           /\ a.op \in {"create", "advance"} => a.marker \in Markers
           /\ a.op = "create" => a.task \in BOOLEAN
           /\ a.op = "advance" => a.refs \in BOOLEAN /\ a.expected \in Nat \ {0}
           /\ a.op = "define" => a.definition \in Definitions
           /\ PluginOf(a) \in Optional
           /\ a.op \in StateWrites => PluginOf(a) = "state"
           /\ StateWrites \cap Attachments = {}
<1>1. a.op = "define" => a.definition \in Definitions
  BY DEF Definitions
<1>2. StateWrites \cap Attachments = {} /\ "state" \in Optional
  BY DEF StateWrites, Attachments, Optional
<1>. QED
  BY <1>1, <1>2, ArgumentsAssumption DEF PluginOf

\* The edges of a definition are a sequence, and those of a well-formed one go from
\* state to state, no two of them alike.
LEMMA DefinitionFacts ==
    ASSUME NEW d \in Definitions
    PROVE  /\ DOMAIN d.edges = 1 .. Len(d.edges) /\ Len(d.edges) \in Nat
           /\ \A i \in DOMAIN d.edges : d.edges[i] \in ToSet(d.edges)
           /\ \A e \in ToSet(d.edges) : e \in Edge /\ \E i \in DOMAIN d.edges : e = d.edges[i]
           /\ parse_definition(d) =>
                /\ d.initial \in StateNames
                /\ \A i, j \in DOMAIN d.edges :
                    d.edges[i].from = d.edges[j].from /\ d.edges[i].to = d.edges[j].to => i = j
                /\ \A e \in ToSet(d.edges) : e.from \in StateNames /\ e.to \in StateNames
                /\ \A e, f \in ToSet(d.edges) : e.from = f.from /\ e.to = f.to => e = f
<1>1. PICK a \in Arguments : a.op = "define" /\ d = a.definition
  BY DEF Definitions
<1>2. d.edges \in Seq(ToSet(d.edges))
  BY <1>1, ArgumentsAssumption
<1>3. DOMAIN d.edges = 1 .. Len(d.edges) /\ Len(d.edges) \in Nat
  BY <1>2
<1>4. /\ \A i \in DOMAIN d.edges : d.edges[i] \in ToSet(d.edges)
      /\ \A e \in ToSet(d.edges) : e \in Edge /\ \E i \in DOMAIN d.edges : e = d.edges[i]
  BY DEF ToSet, Edge
<1>5. ASSUME parse_definition(d)
      PROVE  /\ d.initial \in StateNames
             /\ \A i, j \in DOMAIN d.edges :
                  d.edges[i].from = d.edges[j].from /\ d.edges[i].to = d.edges[j].to => i = j
             /\ \A e \in ToSet(d.edges) : e.from \in StateNames /\ e.to \in StateNames
             /\ \A e, f \in ToSet(d.edges) : e.from = f.from /\ e.to = f.to => e = f
  <2>1. ToSet(d.states) \subseteq StateNames
    BY DEF StateNames
  <2>2. /\ d.initial \in ToSet(d.states)
        /\ \A i \in DOMAIN d.edges :
            /\ {d.edges[i].from, d.edges[i].to} \subseteq ToSet(d.states)
            /\ \A j \in 1 .. i - 1 :
                <<d.edges[j].from, d.edges[j].to>> # <<d.edges[i].from, d.edges[i].to>>
    BY <1>5 DEF parse_definition
  <2>3. ASSUME NEW i \in DOMAIN d.edges, NEW j \in DOMAIN d.edges,
               d.edges[i].from = d.edges[j].from, d.edges[i].to = d.edges[j].to
        PROVE  i = j
    <3>1. i \in Nat /\ j \in Nat /\ i >= 1 /\ j >= 1
      BY <1>3, <2>3
    <3>2. ~(i < j) /\ ~(j < i)
      <4>1. i < j => i \in 1 .. j - 1
        BY <3>1
      <4>2. j < i => j \in 1 .. i - 1
        BY <3>1
      <4>. QED
        BY <2>2, <2>3, <4>1, <4>2
    <3>. QED
      BY <3>1, <3>2
  <2>. QED
    BY <1>4, <2>1, <2>2, <2>3
<1>. QED
  BY <1>3, <1>4, <1>5

LEMMA MarkerFields ==
    ASSUME NEW m
    PROVE  m \in Marker <=>
             /\ m = [def |-> m.def, state |-> m.state, revision |-> m.revision, task |-> m.task]
             /\ m.def \in {d.id : d \in Definitions} /\ m.state \in StateNames
             /\ m.revision \in Nat \ {0} /\ m.task \in BOOLEAN
  BY DEF Marker

\* Names are unique: a stored definition is the one that is looked up.
LEMMA LookedUp ==
    ASSUME Types, Declared, NEW m, NEW d \in Stored(m.def)
    PROVE  /\ Definition(m) = d /\ Stored(m.def) = {d}
           /\ d \in Definitions /\ d \in definitions /\ d.id = m.def /\ parse_definition(d)
           /\ Leaving(m) = {e \in ToSet(d.edges) : e.from = m.state}
<1>1. d \in definitions /\ d.id = m.def /\ parse_definition(d) /\ d \in Definitions
  BY DEF Stored, Declared, Types
<1>2. Stored(m.def) = {d}
  BY <1>1 DEF Stored, Declared
<1>3. Definition(m) = d
  BY <1>2 DEF Definition
<1>. QED
  BY <1>1, <1>2, <1>3 DEF Leaving

\* A declared transition is the edge that leads from the marker's state to the other.
LEMMA DeclaredTransition ==
    ASSUME Types, Declared, NEW m, Stored(m.def) # {}, NEW to,
           \E e \in Leaving(m) : e.to = to
    PROVE  LET e == declared_transition(m, to) IN
           e \in Leaving(m) /\ e \in Edge /\ e.to = to
<1>1. PICK d \in Stored(m.def) : TRUE
  OBVIOUS
<1>2. /\ Definition(m) = d /\ d \in Definitions /\ parse_definition(d)
      /\ Leaving(m) = {e \in ToSet(d.edges) : e.from = m.state}
  BY <1>1, LookedUp
<1>. DEFINE fits == {i \in DOMAIN d.edges : d.edges[i].from = m.state /\ d.edges[i].to = to}
<1>3. PICK i \in fits : TRUE
  <2>1. PICK x \in ToSet(d.edges) : x.from = m.state /\ x.to = to
    BY <1>2, ZenonT(30)
  <2>2. PICK i \in DOMAIN d.edges : x = d.edges[i]
    BY <1>2, <2>1, DefinitionFacts, ZenonT(30)
  <2>. QED
    BY <2>1, <2>2
<1>4. fits = {i}
  BY <1>2, <1>3, DefinitionFacts
<1>5. i \in Nat
  BY <1>2, DefinitionFacts
<1>6. declared_transition(m, to) = d.edges[i]
  <2>1. declared_transition(m, to) = d.edges[CHOOSE x \in fits : \A j \in fits : x <= j]
    BY <1>2 DEF declared_transition
  <2>2. (CHOOSE x \in fits : \A j \in fits : x <= j) = i
    <3>1. \A j \in fits : i <= j
      BY <1>4, <1>5
    <3>. QED
      BY <1>5, <3>1
  <2>. QED
    BY <2>1, <2>2
<1>. QED
  BY <1>2, <1>3, <1>6, DefinitionFacts

\* The forms in which a call is changed.
LEMMA PutPhase ==
    ASSUME NEW A, NEW B, NEW C, NEW D, NEW E, NEW F, NEW G, NEW H,
           NEW k \in [phase: A, args: B, edge: C, attached: D, task: E, result: F,
                      todo: G, found: H],
           NEW n, NEW phase \in A, n = [k EXCEPT !.phase = phase]
    PROVE  /\ n \in [phase: A, args: B, edge: C, attached: D, task: E, result: F,
                     todo: G, found: H]
           /\ n.phase = phase /\ n.args = k.args /\ n.edge = k.edge /\ n.task = k.task
           /\ n.attached = k.attached /\ n.result = k.result /\ n.todo = k.todo
           /\ n.found = k.found
  OBVIOUS

LEMMA PutLook ==
    ASSUME NEW A, NEW B, NEW C, NEW D, NEW E, NEW F, NEW G, NEW H,
           NEW k \in [phase: A, args: B, edge: C, attached: D, task: E, result: F,
                      todo: G, found: H],
           NEW n, NEW phase \in A, NEW at \in D, NEW e \in C,
           n = [k EXCEPT !.phase = phase, !.attached = at, !.edge = e]
    PROVE  /\ n \in [phase: A, args: B, edge: C, attached: D, task: E, result: F,
                     todo: G, found: H]
           /\ n.phase = phase /\ n.args = k.args /\ n.edge = e /\ n.task = k.task
           /\ n.attached = at /\ n.result = k.result /\ n.todo = k.todo
           /\ n.found = k.found
  OBVIOUS

LEMMA PutTask ==
    ASSUME NEW A, NEW B, NEW C, NEW D, NEW E, NEW F, NEW G, NEW H,
           NEW k \in [phase: A, args: B, edge: C, attached: D, task: E, result: F,
                      todo: G, found: H],
           NEW n, NEW phase \in A, NEW t \in E,
           n = [k EXCEPT !.phase = phase, !.task = t]
    PROVE  /\ n \in [phase: A, args: B, edge: C, attached: D, task: E, result: F,
                     todo: G, found: H]
           /\ n.phase = phase /\ n.args = k.args /\ n.edge = k.edge /\ n.task = t
           /\ n.attached = k.attached /\ n.result = k.result /\ n.todo = k.todo
           /\ n.found = k.found
  OBVIOUS

LEMMA PutResult ==
    ASSUME NEW A, NEW B, NEW C, NEW D, NEW E, NEW F, NEW G, NEW H,
           NEW k \in [phase: A, args: B, edge: C, attached: D, task: E, result: F,
                      todo: G, found: H],
           NEW n, NEW phase \in A, NEW r \in F,
           n = [k EXCEPT !.phase = phase, !.result = r]
    PROVE  /\ n \in [phase: A, args: B, edge: C, attached: D, task: E, result: F,
                     todo: G, found: H]
           /\ n.phase = phase /\ n.args = k.args /\ n.edge = k.edge /\ n.task = k.task
           /\ n.attached = k.attached /\ n.result = r /\ n.todo = k.todo
           /\ n.found = k.found
  OBVIOUS

LEMMA PutTodo ==
    ASSUME NEW A, NEW B, NEW C, NEW D, NEW E, NEW F, NEW G, NEW H,
           NEW k \in [phase: A, args: B, edge: C, attached: D, task: E, result: F,
                      todo: G, found: H],
           NEW n, NEW phase \in A, NEW t \in G,
           n = [k EXCEPT !.phase = phase, !.todo = t]
    PROVE  /\ n \in [phase: A, args: B, edge: C, attached: D, task: E, result: F,
                     todo: G, found: H]
           /\ n.phase = phase /\ n.args = k.args /\ n.edge = k.edge /\ n.task = k.task
           /\ n.attached = k.attached /\ n.result = k.result /\ n.todo = t
           /\ n.found = k.found
  OBVIOUS

LEMMA PutFound ==
    ASSUME NEW A, NEW B, NEW C, NEW D, NEW E, NEW F, NEW G, NEW H,
           NEW k \in [phase: A, args: B, edge: C, attached: D, task: E, result: F,
                      todo: G, found: H],
           NEW n, NEW t \in G, NEW f \in H,
           n = [k EXCEPT !.todo = t, !.found = f]
    PROVE  /\ n \in [phase: A, args: B, edge: C, attached: D, task: E, result: F,
                     todo: G, found: H]
           /\ n.phase = k.phase /\ n.args = k.args /\ n.edge = k.edge /\ n.task = k.task
           /\ n.attached = k.attached /\ n.result = k.result /\ n.todo = t
           /\ n.found = f
  OBVIOUS

LEMMA PutArgs ==
    ASSUME NEW A, NEW B, NEW C, NEW D, NEW E, NEW F, NEW G, NEW H,
           NEW k \in [phase: A, args: B, edge: C, attached: D, task: E, result: F,
                      todo: G, found: H],
           NEW n, NEW phase \in A, NEW args \in B,
           n = [k EXCEPT !.phase = phase, !.args = args]
    PROVE  /\ n \in [phase: A, args: B, edge: C, attached: D, task: E, result: F,
                     todo: G, found: H]
           /\ n.phase = phase /\ n.args = args /\ n.edge = k.edge /\ n.task = k.task
           /\ n.attached = k.attached /\ n.result = k.result /\ n.todo = k.todo
           /\ n.found = k.found
  OBVIOUS

LEMMA CallType ==
    ASSUME NEW k \in Call
    PROVE  /\ k.phase \in Phases /\ k.args \in Arguments \cup {None}
           /\ k.edge \in Edge \cup {None} /\ k.result \in Marker \cup {None}
           /\ k.todo \in SUBSET Markers
           /\ k.found \in SUBSET [marker: Markers, seen: Marker]
  BY DEF Call

LEMMA IdleType ==
    /\ Idle \in Call /\ Idle.phase = "idle" /\ Idle.todo = {} /\ Idle.found = {}
    /\ Idle.args = None
  BY DEF Idle, Call, Phases

-----------------------------------------------------------------------------
(* Steps: what each does to the calls and to the store.                    *)

Calm == UNCHANGED <<definitions, markers, history, receipts>>

\* Client c is the only one whose call changes.
Only(c) ==
    /\ call' \in [Clients -> Call]
    /\ \A d \in Clients \ {c} : call'[d] = call[d]

\* The call of c changes its phase, and perhaps what it has read.
Turn(c, phase, edge, seen) ==
    /\ Only(c)
    /\ call'[c].phase = phase /\ call'[c].args = call[c].args
    /\ call'[c].edge = edge /\ call'[c].task = seen

Kept(c) ==
    /\ call'[c].result = call[c].result
    /\ call'[c].todo = call[c].todo /\ call'[c].found = call[c].found

\* A call ends, or a client that sleeps does nothing.
Stops(c) ==
    /\ Only(c) /\ call'[c] = Idle
    /\ writer' \in {writer, None} /\ (writer' # writer => writer = c)
    /\ Calm

Begins(c) ==
    /\ call[c].phase = "idle"
    /\ Only(c)
    /\ call'[c].args \in Arguments /\ call'[c].phase = FirstPhase(call'[c].args.op)
    /\ call'[c].args.op = "define" => parse_definition(call'[c].args.definition)
    /\ call'[c].todo = {} /\ call'[c].found = {}
    /\ writer' = writer /\ Calm

\* A call goes on to its next phase.
Goes(c, from, to) ==
    /\ call[c].phase = from
    /\ Turn(c, to, call[c].edge, call[c].task) /\ Kept(c)
    /\ Calm

Judged(c) ==
    LET a == call[c].args IN
    transition_readiness(markers[a.marker], call[c].edge, call[c].attached, a.refs,
                         call[c].task) = "ready"

Opens(c) ==
    /\ Goes(c, "open", IF call[c].args.op \in Attachments THEN "apply" ELSE "validate")
    /\ writer = None /\ writer' = c
    /\ Receipts(call[c].args) = {}

Looks(c) ==
    LET a == call[c].args IN
    /\ call[c].phase = "look"
    /\ CanAdvance(a)
    /\ Turn(c, "observe", declared_transition(markers[a.marker], a.to), call[c].task)
    /\ Kept(c)
    /\ writer' = writer /\ Calm

Observes(c) ==
    /\ call[c].phase = "observe"
    /\ Turn(c, "judge", call[c].edge, IF markers[call[c].args.marker].task THEN task ELSE None)
    /\ Kept(c)
    /\ task' = task /\ writer' = writer /\ Calm

Lists(c) ==
    LET wanted == call[c].args.wanted IN
    /\ call[c].phase = "list"
    /\ Turn(c, "detail", call[c].edge, call[c].task)
    /\ call'[c].result = call[c].result /\ call'[c].found = call[c].found
    /\ call'[c].todo = {m \in Markers : markers[m] # None /\ wanted \in {None, markers[m].state}}
    /\ writer' = writer /\ Calm

Offered(c, m) ==
    IF IsOpportunity(markers[m], call[c].args.capability)
    THEN {[marker |-> m, seen |-> markers[m]]} ELSE {}

Details(c) ==
    /\ call[c].phase = "detail"
    /\ Turn(c, "detail", call[c].edge, call[c].task)
    /\ \E m \in call[c].todo :
        /\ call'[c].todo = call[c].todo \ {m}
        /\ call'[c].found = call[c].found \cup Offered(c, m)
    /\ writer' = writer /\ Calm

\* A transaction is committed: of an attachment, or of a state write.
Commits(c, result) ==
    /\ call[c].phase = "apply"
    /\ Turn(c, "reply", call[c].edge, call[c].task)
    /\ call'[c].result = result
    /\ call'[c].todo = call[c].todo /\ call'[c].found = call[c].found
    /\ writer' = None
    /\ receipts' = receipts \cup
            {[plugin |-> PluginOf(call[c].args), args |-> call[c].args, result |-> result]}

Attaches(c) ==
    /\ Commits(c, None)
    /\ call[c].args.op \in Attachments
    /\ UNCHANGED <<definitions, markers, history>>

Defines(c) ==
    LET a == call[c].args IN
    /\ Commits(c, None)
    /\ a.op = "define" /\ CanWrite(a)
    /\ definitions' = definitions \cup {a.definition}
    /\ UNCHANGED <<markers, history>>

\* A marker is put where its history leads it.
Puts(c, marker, from) ==
    LET a == call[c].args IN
    /\ Commits(c, marker)
    /\ CanWrite(a)
    /\ markers' = [markers EXCEPT ![a.marker] = marker]
    /\ history' = [history EXCEPT ![a.marker] =
                        Append(@, [from |-> from, to |-> marker.state, by |-> a.who])]
    /\ definitions' = definitions

Initial(d, a) == [def |-> d.id, state |-> d.initial, revision |-> 1, task |-> a.task]
Advanced(m, to) == [m EXCEPT !.state = to, !.revision = @ + 1]

Creates(c) ==
    /\ call[c].args.op = "create"
    /\ \E d \in Stored(call[c].args.def) : Puts(c, Initial(d, call[c].args), None)

Advances(c) ==
    LET m == markers[call[c].args.marker] IN
    /\ call[c].args.op = "advance"
    /\ m # None
    /\ Puts(c, Advanced(m, call[c].args.to), m.state)

Step(c) ==
    \/ Stops(c)
    \/ Begins(c)
    \/ Goes(c, "lock", "replay") /\ writer' = writer
    \/ Goes(c, "replay", "look") /\ writer' = writer
    \/ Goes(c, "judge", "open") /\ writer' = writer /\ evidence' = evidence /\ Judged(c)
    \/ Opens(c)
    \/ Goes(c, "validate", "apply") /\ writer' = writer /\ members' = members
            /\ call[c].args.who \in members
    \/ Goes(c, "admit", "write") /\ writer' = writer
    \/ Looks(c)
    \/ Observes(c)
    \/ Lists(c)
    \/ Details(c)
    \/ Attaches(c)
    \/ Defines(c)
    \/ Creates(c)
    \/ Advances(c)

Dies == call' = [c \in Clients |-> Idle] /\ writer' = None /\ Calm
Drifts == UNCHANGED <<call, writer>> /\ Calm

LEMMA At ==
    ASSUME call \in [Clients -> Call], NEW c \in Clients, NEW k \in Call,
           call' = [call EXCEPT ![c] = k]
    PROVE  Only(c) /\ call'[c] = k
  BY DEF Only

LEMMA GotoStep ==
    ASSUME Types, NEW c \in Clients, NEW phase \in Phases, Goto(c, phase)
    PROVE  Turn(c, phase, call[c].edge, call[c].task) /\ Kept(c)
<1>1. call[c] \in Call
  BY DEF Types
<1>2. PICK k : k = [call[c] EXCEPT !.phase = phase]
  OBVIOUS
<1>3. /\ k \in Call /\ k.phase = phase /\ k.args = call[c].args /\ k.edge = call[c].edge
      /\ k.task = call[c].task /\ k.result = call[c].result
      /\ k.todo = call[c].todo /\ k.found = call[c].found
  BY <1>1, <1>2, PutPhase DEF Call
<1>4. call' = [call EXCEPT ![c] = k]
  BY <1>2 DEF Goto
<1>5. Only(c) /\ call'[c] = k
  BY <1>3, <1>4, At DEF Types
<1>. QED
  BY <1>3, <1>5 DEF Turn, Kept

LEMMA EndStep ==
    ASSUME Types, NEW c \in Clients, End(c)
    PROVE  Stops(c)
<1>1. Only(c) /\ call'[c] = Idle
  BY IdleType, At DEF End, Types
<1>. QED
  BY <1>1 DEF End, Stops, Calm, store

LEMMA CommitStep ==
    ASSUME Types, NEW c \in Clients, NEW result \in Marker \cup {None},
           call[c].phase = "apply", Commit(c, result)
    PROVE  Commits(c, result)
<1>1. call[c] \in Call
  BY DEF Types
<1>2. PICK k : k = [call[c] EXCEPT !.phase = "reply", !.result = result]
  OBVIOUS
<1>3. /\ k \in Call /\ k.phase = "reply" /\ k.args = call[c].args /\ k.edge = call[c].edge
      /\ k.task = call[c].task /\ k.result = result
      /\ k.todo = call[c].todo /\ k.found = call[c].found
  BY <1>1, <1>2, PutResult DEF Call, Phases
<1>4. call' = [call EXCEPT ![c] = k]
  BY <1>2 DEF Commit
<1>5. Only(c) /\ call'[c] = k
  BY <1>3, <1>4, At DEF Types
<1>. QED
  BY <1>3, <1>5 DEF Turn, Commit, Commits

\* A move along a declared edge leads to a state of the definition.
LEMMA AdvanceFacts ==
    ASSUME Types, Declared, NEW a \in Arguments, a.op = "advance", CanAdvance(a)
    PROVE  LET m == markers[a.marker] IN
           /\ a.marker \in Markers /\ m \in Marker /\ m # None /\ m.revision = a.expected
           /\ Stored(m.def) # {}
           /\ \E e \in Leaving(m) : e.to = a.to
           /\ a.to \in StateNames
<1>. DEFINE m == markers[a.marker]
<1>1. /\ a.marker \in Markers /\ m \in Marker /\ m # None /\ m.revision = a.expected
      /\ Stored(m.def) # {} /\ \E e \in Leaving(m) : e.to = a.to
  BY ArgumentFacts DEF CanAdvance, Types, Declared
<1>2. PICK d \in Stored(m.def) : TRUE
  BY <1>1
<1>3. d \in Definitions /\ parse_definition(d) /\ \A e \in Leaving(m) : e \in ToSet(d.edges)
  BY <1>2, LookedUp
<1>4. a.to \in StateNames
  BY <1>1, <1>3, DefinitionFacts
<1>. QED
  BY <1>1, <1>4

LEMMA PutMarker ==
    ASSUME NEW A, NEW B, NEW C, NEW D,
           NEW m \in [def: A, state: B, revision: C, task: D],
           NEW n, NEW b \in B, NEW r \in C, n = [m EXCEPT !.state = b, !.revision = r]
    PROVE  /\ n \in [def: A, state: B, revision: C, task: D]
           /\ n.def = m.def /\ n.state = b /\ n.revision = r /\ n.task = m.task
  OBVIOUS

LEMMA MarkerTypes ==
    /\ \A d \in Definitions, a \in Arguments :
        a.op = "create" /\ parse_definition(d) =>
            /\ Initial(d, a) \in Marker
            /\ Initial(d, a).def = d.id /\ Initial(d, a).state = d.initial
            /\ Initial(d, a).revision = 1
    /\ \A m \in Marker, to \in StateNames :
        /\ Advanced(m, to) \in Marker
        /\ Advanced(m, to).def = m.def /\ Advanced(m, to).state = to
        /\ Advanced(m, to).revision = m.revision + 1 /\ Advanced(m, to).task = m.task
<1>1. ASSUME NEW d \in Definitions, NEW a \in Arguments, a.op = "create", parse_definition(d)
      PROVE  /\ Initial(d, a) \in Marker
             /\ Initial(d, a).def = d.id /\ Initial(d, a).state = d.initial
             /\ Initial(d, a).revision = 1
  <2>1. d.initial \in StateNames /\ a.task \in BOOLEAN
    BY <1>1, DefinitionFacts, ArgumentFacts
  <2>. QED
    BY <2>1 DEF Initial, Marker
<1>2. ASSUME NEW m \in Marker, NEW to \in StateNames
      PROVE  /\ Advanced(m, to) \in Marker
             /\ Advanced(m, to).def = m.def /\ Advanced(m, to).state = to
             /\ Advanced(m, to).revision = m.revision + 1 /\ Advanced(m, to).task = m.task
  <2>1. m.revision + 1 \in Nat \ {0}
    BY MarkerFields
  <2>2. PICK n : n = [m EXCEPT !.state = to, !.revision = m.revision + 1]
    OBVIOUS
  <2>3. /\ n \in Marker /\ n.def = m.def /\ n.state = to /\ n.revision = m.revision + 1
        /\ n.task = m.task
    BY <2>1, <2>2, PutMarker DEF Marker
  <2>4. Advanced(m, to) = n
    BY <2>2 DEF Advanced
  <2>. QED
    BY <2>3, <2>4
<1>. QED
  BY <1>1, <1>2

LEMMA PutStep ==
    ASSUME Types, NEW c \in Clients, call[c].phase = "apply", NEW marker \in Marker, NEW from,
           Put(c, marker, from)
    PROVE  Puts(c, marker, from)
  BY CommitStep DEF Put, Puts

LEMMA BeginStep ==
    ASSUME TypeInv, NEW c \in Clients, Begin(c)
    PROVE  Begins(c)
<1>1. PICK a \in Arguments :
        /\ a.op = "define" => parse_definition(a.definition)
        /\ call' = [call EXCEPT ![c] = [Idle EXCEPT !.phase = FirstPhase(a.op), !.args = a]]
  BY DEF Begin
<1>2. PICK k : k = [Idle EXCEPT !.phase = FirstPhase(a.op), !.args = a]
  OBVIOUS
<1>3. FirstPhase(a.op) \in Phases
  BY DEF FirstPhase, Phases
<1>4. k \in Call /\ k.phase = FirstPhase(a.op) /\ k.args = a /\ k.todo = {} /\ k.found = {}
  BY <1>2, <1>3, IdleType, PutArgs DEF Call
<1>5. Only(c) /\ call'[c] = k
  BY <1>1, <1>2, <1>4, At DEF TypeInv, Types
<1>. QED
  BY <1>1, <1>4, <1>5 DEF Begin, Begins, Calm, store

LEMMA LookStep ==
    ASSUME TypeInv, NEW c \in Clients, call[c].phase = "look", CanAdvance(call[c].args),
           call' = [call EXCEPT ![c] =
                [@ EXCEPT !.phase = "observe", !.attached = attached["state"],
                          !.edge = declared_transition(markers[call[c].args.marker],
                                                       call[c].args.to)]],
           UNCHANGED <<store, writer>>
    PROVE  Looks(c)
<1>. DEFINE a == call[c].args
<1>1. call[c] \in Call /\ a \in Arguments /\ a.op = "advance" /\ attached["state"] \in BOOLEAN
  BY DEF TypeInv, Types, Course, Optional
<1>2. declared_transition(markers[a.marker], a.to) \in Edge
  BY <1>1, AdvanceFacts, DeclaredTransition DEF TypeInv
<1>3. PICK e \in Edge : e = declared_transition(markers[a.marker], a.to)
  BY <1>2
<1>4. PICK k : k = [call[c] EXCEPT !.phase = "observe", !.attached = attached["state"], !.edge = e]
  OBVIOUS
<1>5. /\ k \in Call /\ k.phase = "observe" /\ k.args = a /\ k.edge = e
      /\ k.task = call[c].task /\ k.result = call[c].result
      /\ k.todo = call[c].todo /\ k.found = call[c].found
  BY <1>1, <1>4, PutLook DEF Call, Phases
<1>6. Only(c) /\ call'[c] = k
  BY <1>3, <1>4, <1>5, At DEF TypeInv, Types
<1>. QED
  BY <1>3, <1>5, <1>6 DEF Looks, Turn, Kept, Calm, store

LEMMA ObserveStep ==
    ASSUME TypeInv, NEW c \in Clients, marker_task_observation(c)
    PROVE  Observes(c)
<1>. DEFINE t == IF markers[call[c].args.marker].task THEN task ELSE None
<1>1. call[c] \in Call /\ t \in TaskStatuses \cup {None}
  BY DEF TypeInv, Types
<1>2. PICK k : k = [call[c] EXCEPT !.phase = "judge", !.task = t]
  OBVIOUS
<1>3. /\ k \in Call /\ k.phase = "judge" /\ k.args = call[c].args /\ k.edge = call[c].edge
      /\ k.task = t /\ k.result = call[c].result
      /\ k.todo = call[c].todo /\ k.found = call[c].found
  BY <1>1, <1>2, PutTask DEF Call, Phases
<1>4. Only(c) /\ call'[c] = k
  BY <1>2, <1>3, At DEF TypeInv, Types, marker_task_observation
<1>. QED
  BY <1>3, <1>4 DEF Observes, Turn, Kept, Calm, store, world, marker_task_observation

LEMMA ListStep ==
    ASSUME TypeInv, NEW c \in Clients, state_opportunities(c)
    PROVE  Lists(c)
<1>. DEFINE t == {m \in Markers : markers[m] # None
                                /\ call[c].args.wanted \in {None, markers[m].state}}
<1>1. call[c] \in Call /\ t \in SUBSET Markers
  BY DEF TypeInv, Types
<1>2. PICK k : k = [call[c] EXCEPT !.phase = "detail", !.todo = t]
  OBVIOUS
<1>3. /\ k \in Call /\ k.phase = "detail" /\ k.args = call[c].args /\ k.edge = call[c].edge
      /\ k.task = call[c].task /\ k.result = call[c].result
      /\ k.todo = t /\ k.found = call[c].found
  BY <1>1, <1>2, PutTodo DEF Call, Phases
<1>4. Only(c) /\ call'[c] = k
  BY <1>2, <1>3, At DEF TypeInv, Types, state_opportunities
<1>. QED
  BY <1>3, <1>4 DEF Lists, Turn, Calm, store, state_opportunities

LEMMA DetailStep ==
    ASSUME TypeInv, NEW c \in Clients, state_detail(c)
    PROVE  Details(c)
<1>1. PICK m \in call[c].todo : call' = [call EXCEPT ![c] =
            [@ EXCEPT !.todo = call[c].todo \ {m}, !.found = call[c].found \cup Offered(c, m)]]
  BY DEF state_detail, Offered
<1>2. /\ call[c] \in Call /\ m \in Markers /\ markers[m] \in Marker
      /\ call[c].todo \in SUBSET Markers
      /\ call[c].found \in SUBSET [marker: Markers, seen: Marker]
  BY <1>1, CallType DEF TypeInv, Types, Course
<1>3. PICK t \in SUBSET Markers : t = call[c].todo \ {m}
  BY <1>2
<1>4. PICK f \in SUBSET [marker: Markers, seen: Marker] : f = call[c].found \cup Offered(c, m)
  <2>1. Offered(c, m) \in SUBSET [marker: Markers, seen: Marker]
    BY <1>2 DEF Offered
  <2>. QED
    BY <1>2, <2>1
<1>a. PICK k : k = [call[c] EXCEPT !.todo = call[c].todo \ {m},
                                  !.found = call[c].found \cup Offered(c, m)]
  OBVIOUS
<1>5. call' = [call EXCEPT ![c] = k]
  BY <1>1, <1>a
<1>6. /\ k \in Call /\ k.phase = call[c].phase /\ k.args = call[c].args /\ k.edge = call[c].edge
      /\ k.task = call[c].task /\ k.result = call[c].result /\ k.todo = t /\ k.found = f
  <2>1. k = [call[c] EXCEPT !.todo = t, !.found = f]
    BY <1>3, <1>4, <1>a
  <2>. QED
    BY <1>2, <2>1, PutFound DEF Call
<1>8. Only(c) /\ call'[c] = k
  BY <1>5, <1>6, At DEF TypeInv, Types
<1>. QED
  BY <1>1, <1>3, <1>4, <1>6, <1>8 DEF Details, Turn, Calm, store, state_detail

LEMMA ApplyCases ==
    ASSUME TypeInv, NEW c \in Clients,
           set_attachment(c) \/ state_define(c) \/ state_create(c) \/ state_advance(c)
    PROVE  Attaches(c) \/ Defines(c) \/ Creates(c) \/ Advances(c)
<1>. DEFINE a == call[c].args
<1>0. Types /\ Declared /\ call[c].phase = "apply" /\ a \in Arguments
  BY DEF TypeInv, Course, set_attachment, state_define, state_create, state_advance
<1>1. CASE set_attachment(c)
  BY <1>0, <1>1, CommitStep DEF set_attachment, Attaches
<1>2. CASE state_define(c)
  BY <1>0, <1>2, CommitStep DEF state_define, Defines
<1>3. CASE state_create(c)
  <2>1. PICK d \in Stored(a.def) : Put(c, Initial(d, a), None) /\ a.op = "create"
    BY <1>3 DEF state_create, Initial
  <2>2. d \in Definitions /\ parse_definition(d)
    BY <1>0, <2>1 DEF Stored, Types, Declared
  <2>3. Initial(d, a) \in Marker
    BY <1>0, <2>1, <2>2, MarkerTypes
  <2>4. Puts(c, Initial(d, a), None)
    BY <1>0, <2>1, <2>3, PutStep
  <2>. QED
    BY <2>1, <2>4 DEF Creates
<1>4. CASE state_advance(c)
  <2>. DEFINE m == markers[a.marker]
  <2>1. Put(c, Advanced(m, a.to), m.state) /\ a.op = "advance" /\ m # None
    BY <1>4 DEF state_advance, Advanced
  <2>2. CanAdvance(a)
    BY <2>1 DEF Put, CanWrite
  <2>3. m \in Marker /\ a.to \in StateNames
    BY <1>0, <2>1, <2>2, AdvanceFacts
  <2>4. Advanced(m, a.to) \in Marker
    BY <2>3, MarkerTypes
  <2>5. Puts(c, Advanced(m, a.to), m.state)
    BY <1>0, <2>1, <2>4, PutStep
  <2>. QED
    BY <2>1, <2>5 DEF Advances
<1>. QED
  BY <1>1, <1>2, <1>3, <1>4

LEMMA StepCases ==
    ASSUME TypeInv, Next
    PROVE  (\E c \in Clients : Step(c)) \/ Dies \/ Drifts
<1>0. Types
  BY DEF TypeInv
<1>1. ASSUME NEW c \in Clients, Proceed(c) PROVE Step(c)
  <2>1. CASE Fail(c) \/ \E result : Deliver(c, result)
    BY <1>0, <2>1, EndStep DEF Fail, Deliver, Step
  <2>2. CASE TaskWrite(c)
    <3>1. Only(c) /\ call'[c] = Idle
      BY <1>0, <2>2, IdleType, At DEF TaskWrite, Types
    <3>. QED
      BY <2>2, <3>1 DEF TaskWrite, Stops, Step, Calm, store
  <2>3. CASE Lock(c)
    <3>1. Turn(c, "replay", call[c].edge, call[c].task) /\ Kept(c)
      BY <1>0, <2>3, GotoStep DEF Lock, Phases
    <3>. QED
      BY <2>3, <3>1 DEF Lock, Step, Goes, Calm, store
  <2>4. CASE state_replay(c) /\ Goto(c, "look") /\ UNCHANGED <<store, writer>>
    <3>1. Turn(c, "look", call[c].edge, call[c].task) /\ Kept(c)
      BY <1>0, <2>4, GotoStep DEF Phases
    <3>. QED
      BY <2>4, <3>1 DEF state_replay, Step, Goes, Calm, store
  <2>5. CASE state_stored_detail(c)
    <3>1. CASE CanAdvance(call[c].args)
      BY <2>5, <3>1, LookStep DEF state_stored_detail, Step
    <3>. QED
      BY <2>1, <2>5, <3>1 DEF state_stored_detail
  <2>6. CASE Judge(c) /\ ~Fail(c)
    <3>1. Goto(c, "open") /\ UNCHANGED <<store, writer, world>> /\ Judged(c)
          /\ call[c].phase = "judge"
      BY <2>6 DEF Judge, Judged
    <3>2. Turn(c, "open", call[c].edge, call[c].task) /\ Kept(c)
      BY <1>0, <3>1, GotoStep DEF Phases
    <3>. QED
      BY <3>1, <3>2 DEF Step, Goes, Calm, store, world
  <2>7. CASE OpenTransaction(c) /\ writer' = c /\ Receipts(call[c].args) = {}
             /\ Goto(c, IF call[c].args.op \in Attachments THEN "apply" ELSE "validate")
             /\ UNCHANGED store
    <3>. DEFINE phase == IF call[c].args.op \in Attachments THEN "apply" ELSE "validate"
    <3>1. phase \in Phases
      BY DEF Phases
    <3>2. Turn(c, phase, call[c].edge, call[c].task) /\ Kept(c)
      BY <1>0, <2>7, <3>1, GotoStep
    <3>. QED
      BY <2>7, <3>2 DEF OpenTransaction, plugin_db, Step, Opens, Goes, Calm, store
  <2>8. CASE participant(c) /\ ~Fail(c)
    <3>1. Turn(c, "apply", call[c].edge, call[c].task) /\ Kept(c)
      BY <1>0, <2>8, GotoStep DEF participant, Phases
    <3>. QED
      BY <2>8, <3>1 DEF participant, Step, Goes, Calm, store, world
  <2>9. CASE ensure_plugin_write(c) /\ ~Fail(c)
    <3>1. Turn(c, "write", call[c].edge, call[c].task) /\ Kept(c)
      BY <1>0, <2>9, GotoStep DEF ensure_plugin_write, Phases
    <3>. QED
      BY <2>9, <3>1 DEF ensure_plugin_write, Step, Goes, Calm, store
  <2>10. CASE marker_task_observation(c)
    BY <2>10, ObserveStep DEF Step
  <2>11. CASE state_opportunities(c)
    BY <2>11, ListStep DEF Step
  <2>12. CASE state_detail(c)
    BY <2>12, DetailStep DEF Step
  <2>13. CASE set_attachment(c) \/ state_define(c) \/ state_create(c) \/ state_advance(c)
    BY <2>13, ApplyCases DEF Step
  <2>. QED
    BY <1>1, <2>1, <2>2, <2>3, <2>4, <2>5, <2>6, <2>7, <2>8, <2>9, <2>10, <2>11, <2>12, <2>13
       DEF Proceed, Busy, state_replay, OpenTransaction, Refused, Replayed, WriteFails, Reply,
       TaskWriteFails, OpportunitiesDone
<1>2. ASSUME NEW c \in Clients, Begin(c) PROVE Step(c)
  BY <1>2, BeginStep DEF Step
<1>3. CASE TaskMoves \/ MemberMoves \/ EvidenceMoves
  BY <1>3 DEF TaskMoves, MemberMoves, EvidenceMoves, Drifts, Calm, store
<1>4. CASE Crash
  BY <1>4 DEF Crash, Dies, Calm, store
<1>. QED
  BY <1>1, <1>2, <1>3, <1>4 DEF Next

\* What a step does to the store: nothing, or one write of client c.
Stored_(c) == Attaches(c) \/ Defines(c) \/ Creates(c) \/ Advances(c)

LEMMA StoreCases ==
    ASSUME TypeInv, Next
    PROVE  Calm \/ \E c \in Clients : Stored_(c)
  BY StepCases DEF Step, Dies, Drifts, Stops, Begins, Goes, Opens, Looks, Observes, Lists,
     Details, Stored_

LEMMA PutFacts ==
    ASSUME TypeInv, NEW c \in Clients, Creates(c) \/ Advances(c)
    PROVE  LET a == call[c].args
               old == markers[a.marker]
               new == markers'[a.marker]
           IN
           /\ a.marker \in Markers /\ a.who \in Participants /\ CanWrite(a)
           /\ \E from \in StateNames \cup {None} : Puts(c, new, from)
           /\ markers' \in [Markers -> Marker \cup {None}]
           /\ history' \in [Markers -> Seq(Entry)]
           /\ \A m \in Markers \ {a.marker} : markers'[m] = markers[m] /\ history'[m] = history[m]
           /\ new \in Marker /\ new # None
           /\ Stored(new.def) # {}
           /\ Creates(c) => /\ old = None /\ new.revision = 1
                            /\ \E d \in Stored(new.def) : new.state = d.initial
                            /\ history'[a.marker] = Append(history[a.marker],
                                    [from |-> None, to |-> new.state, by |-> a.who])
           /\ Advances(c) => /\ old \in Marker /\ old # None /\ CanAdvance(a)
                             /\ new = Advanced(old, a.to)
                             /\ new.revision = old.revision + 1 /\ new.def = old.def
                             /\ new.task = old.task /\ new.state = a.to
                             /\ old.revision = a.expected
                             /\ history'[a.marker] = Append(history[a.marker],
                                    [from |-> old.state, to |-> a.to, by |-> a.who])
<1>. DEFINE a == call[c].args
            old == markers[a.marker]
<1>0. /\ Types /\ Declared /\ a \in Arguments /\ a.op \in StateWrites /\ a.marker \in Markers
      /\ a.who \in Participants /\ markers \in [Markers -> Marker \cup {None}]
      /\ history \in [Markers -> Seq(Entry)]
  <2>1. call[c].phase = "apply" /\ a.op \in {"create", "advance"}
    BY DEF Creates, Advances, Puts, Commits
  <2>2. a \in Arguments /\ Types /\ Declared
    BY <2>1 DEF TypeInv, Course
  <2>. QED
    BY <2>1, <2>2, ArgumentFacts DEF Types, StateWrites
<1>1. ASSUME NEW n \in Marker, NEW from \in StateNames \cup {None}, Puts(c, n, from)
      PROVE  /\ CanWrite(a)
             /\ markers'[a.marker] = n /\ n # None
             /\ markers' \in [Markers -> Marker \cup {None}]
             /\ history' \in [Markers -> Seq(Entry)]
             /\ \A m \in Markers \ {a.marker} : markers'[m] = markers[m] /\ history'[m] = history[m]
             /\ history'[a.marker] = Append(history[a.marker],
                                    [from |-> from, to |-> n.state, by |-> a.who])
  <2>1. PICK e \in Entry : e = [from |-> from, to |-> n.state, by |-> a.who]
    BY <1>0, MarkerFields DEF Entry
  <2>2. Append(history[a.marker], e) \in Seq(Entry)
    BY <1>0, <2>1
  <2>3. history' = [history EXCEPT ![a.marker] = Append(history[a.marker], e)]
    BY <1>1, <2>1 DEF Puts
  <2>. QED
    BY <1>0, <1>1, <2>1, <2>2, <2>3, MarkerAssumption DEF Puts
<1>2. CASE Creates(c)
  <2>1. PICK d \in Stored(a.def) : Puts(c, Initial(d, a), None) /\ a.op = "create"
    BY <1>2 DEF Creates
  <2>2. d \in Definitions /\ parse_definition(d) /\ d.id = a.def
    BY <1>0, <2>1 DEF Stored, Types, Declared
  <2>3. PICK n \in Marker : n = Initial(d, a)
    BY <1>0, <2>1, <2>2, MarkerTypes
  <2>4. n.def = d.id /\ n.state = d.initial /\ n.revision = 1 /\ Puts(c, n, None)
    BY <1>0, <2>1, <2>2, <2>3, MarkerTypes
  <2>5. CanWrite(a) /\ markers'[a.marker] = n
    BY <1>1, <2>4
  <2>6. old = None
    BY <2>1, <2>5 DEF CanWrite
  <2>7. ~Advances(c)
    BY <2>1 DEF Advances
  <2>. QED
    BY <1>0, <1>1, <2>1, <2>2, <2>4, <2>5, <2>6, <2>7
<1>3. CASE Advances(c)
  <2>1. Puts(c, Advanced(old, a.to), old.state) /\ a.op = "advance" /\ old # None
    BY <1>3 DEF Advances
  <2>2. CanAdvance(a)
    BY <2>1 DEF Puts, CanWrite
  <2>3. /\ old \in Marker /\ old.revision = a.expected /\ a.to \in StateNames
        /\ Stored(old.def) # {} /\ old.state \in StateNames
    BY <1>0, <2>1, <2>2, AdvanceFacts, MarkerFields
  <2>4. PICK n \in Marker : n = Advanced(old, a.to)
    BY <2>3, MarkerTypes
  <2>5. /\ n.def = old.def /\ n.state = a.to /\ n.revision = old.revision + 1
        /\ n.task = old.task /\ Puts(c, n, old.state)
    BY <2>1, <2>3, <2>4, MarkerTypes
  <2>a. PICK from \in StateNames \cup {None} : from = old.state
    BY <2>3
  <2>b. /\ markers'[a.marker] = n
        /\ history'[a.marker] = Append(history[a.marker],
                                    [from |-> from, to |-> n.state, by |-> a.who])
    BY <1>1, <2>5, <2>a
  <2>6. /\ markers'[a.marker] = n
        /\ history'[a.marker] = Append(history[a.marker],
                                    [from |-> old.state, to |-> a.to, by |-> a.who])
    BY <2>5, <2>a, <2>b
  <2>7. ~Creates(c)
    BY <2>1 DEF Creates
  <2>. QED
    BY <1>0, <1>1, <2>1, <2>2, <2>3, <2>4, <2>5, <2>6, <2>7
<1>. QED
  BY <1>2, <1>3

\* Definitions and histories only grow, and a marker moves one revision at a time.
LEMMA Grows ==
    ASSUME TypeInv, Next
    PROVE  /\ \A id : Stored(id) # {} => Stored(id)' = Stored(id)
           /\ \A m \in Markers :
                /\ markers[m] # None =>
                    /\ markers'[m] \in Marker /\ markers'[m] # None
                    /\ markers'[m].def = markers[m].def /\ markers'[m].task = markers[m].task
                    /\ \/ markers'[m] = markers[m]
                       \/ markers'[m].revision = markers[m].revision + 1
                /\ Len(history[m]) <= Len(history'[m])
                /\ \A i \in 1 .. Len(history[m]) : history'[m][i] = history[m][i]
           /\ witnessed \subseteq witnessed'
<1>0. Types /\ Declared
  BY DEF TypeInv
<1>a. witnessed \subseteq witnessed'
  BY DEF Next, Watch
<1>b. \A m \in Markers : history[m] \in Seq(Entry) /\ markers[m] \in Marker \cup {None}
  BY <1>0 DEF Types
<1>1. CASE UNCHANGED <<definitions, markers, history>>
  BY <1>1, <1>a, <1>b DEF Stored
<1>2. ASSUME NEW c \in Clients, Defines(c)
      PROVE  /\ \A id : Stored(id) # {} => Stored(id)' = Stored(id)
             /\ markers' = markers /\ history' = history
  <2>1. /\ definitions' = definitions \cup {call[c].args.definition}
        /\ Stored(call[c].args.definition.id) = {}
        /\ markers' = markers /\ history' = history
    BY <1>2 DEF Defines, CanWrite
  <2>. QED
    BY <2>1 DEF Stored
<1>3. ASSUME NEW c \in Clients, Creates(c) \/ Advances(c), NEW m \in Markers
      PROVE  /\ markers[m] # None =>
                    /\ markers'[m] \in Marker /\ markers'[m] # None
                    /\ markers'[m].def = markers[m].def /\ markers'[m].task = markers[m].task
                    /\ \/ markers'[m] = markers[m]
                       \/ markers'[m].revision = markers[m].revision + 1
             /\ Len(history[m]) <= Len(history'[m])
             /\ \A i \in 1 .. Len(history[m]) : history'[m][i] = history[m][i]
  <2>1. CASE m # call[c].args.marker
    <3>1. markers'[m] = markers[m] /\ history'[m] = history[m]
      BY <1>3, <2>1, PutFacts
    <3>. QED
      BY <1>b, <3>1
  <2>2. CASE m = call[c].args.marker
    <3>1. \E e : history'[m] = Append(history[m], e)
      BY <1>3, <2>2, PutFacts
    <3>2. PICK e : history'[m] = Append(history[m], e)
      BY <3>1
    <3>3. Len(history[m]) <= Len(history'[m])
          /\ \A i \in 1 .. Len(history[m]) : history'[m][i] = history[m][i]
      BY <1>b, <3>2
    <3>. QED
      BY <1>3, <2>2, <3>3, PutFacts
  <2>. QED
    BY <2>1, <2>2
<1>4. ASSUME NEW c \in Clients, Creates(c) \/ Advances(c)
      PROVE  definitions' = definitions
  BY <1>4 DEF Creates, Advances, Puts
<1>. QED
  BY <1>1, <1>2, <1>3, <1>4, <1>a, <1>b, StoreCases, SMTT(30) DEF Stored_, Attaches, Calm, Stored

LEMMA AnswersType ==
    ASSUME TypeInv, Next
    PROVE  answers' \subseteq Answer
<1>0. Types
  BY DEF TypeInv
<1>1. ASSUME NEW c \in Clients, NEW result \in Marker \cup {None}, Deliver(c, result),
             call[c].phase # "idle"
      PROVE  answers' \subseteq Answer
  <2>1. call[c].args \in Arguments
    BY <1>1 DEF TypeInv, Course
  <2>. QED
    BY <1>0, <1>1, <2>1 DEF Deliver, Types, Answer
<1>2. ASSUME NEW c \in Clients, Replayed(c), call[c].phase # "idle"
      PROVE  answers' \subseteq Answer
  <2>1. PICK r \in receipts : Deliver(c, r.result)
    BY <1>2 DEF Replayed, Receipts
  <2>2. r.result \in Marker \cup {None}
    BY <1>0 DEF Types, Receipt
  <2>. QED
    BY <1>1, <1>2, <2>1, <2>2
<1>3. ASSUME NEW c \in Clients, Reply(c)
      PROVE  answers' \subseteq Answer
  BY <1>0, <1>1, <1>3, CallType DEF Reply, Types
<1>4. CASE answers' = answers
  BY <1>0, <1>4 DEF Types
<1>5. ASSUME NEW c \in Clients, Proceed(c)
      PROVE  answers' \subseteq Answer
  BY <1>2, <1>3, <1>4, <1>5 DEF Proceed, Lock, Busy, Fail, state_replay, Refused,
     state_stored_detail, marker_task_observation, Judge, OpenTransaction, participant,
     set_attachment, Commit, state_define, state_create, state_advance, Put, WriteFails,
     ensure_plugin_write, TaskWrite, TaskWriteFails, state_opportunities, state_detail,
     OpportunitiesDone
<1>. QED
  BY <1>4, <1>5 DEF Next, Begin, TaskMoves, MemberMoves, EvidenceMoves, Crash

\* What surrounds the calls and the store.
LEMMA SurroundingsType ==
    ASSUME TypeInv, Next
    PROVE  /\ attached' \in [Optional -> BOOLEAN]
           /\ locks' \in [RequestIds -> Clients \cup {None}]
           /\ task' \in TaskStatuses /\ members' \subseteq Participants /\ evidence' \in BOOLEAN
<1>. DEFINE Around == /\ attached' \in [Optional -> BOOLEAN]
                      /\ locks' \in [RequestIds -> Clients \cup {None}]
                      /\ task' \in TaskStatuses /\ members' \subseteq Participants
                      /\ evidence' \in BOOLEAN
<1>0. /\ attached \in [Optional -> BOOLEAN]
      /\ locks \in [RequestIds -> Clients \cup {None}]
      /\ task \in TaskStatuses /\ members \subseteq Participants /\ evidence \in BOOLEAN
  BY DEF TypeInv, Types
<1>1. CASE UNCHANGED <<attached, locks, task, members, evidence>>
  BY <1>0, <1>1
<1>2. ASSUME NEW c \in Clients, End(c) PROVE Around
  BY <1>0, <1>2 DEF End, store, world
<1>3. ASSUME NEW c \in Clients, Lock(c) PROVE Around
  BY <1>0, <1>3 DEF Lock, store, world
<1>4. ASSUME NEW c \in Clients, set_attachment(c) PROVE Around
  BY <1>0, <1>4 DEF set_attachment, Commit, world
<1>5. ASSUME NEW c \in Clients, TaskWrite(c) PROVE Around
  BY <1>0, <1>5 DEF TaskWrite, store, TaskStatuses
<1>6. ASSUME NEW c \in Clients, Proceed(c) PROVE Around
  BY <1>1, <1>2, <1>3, <1>4, <1>5, <1>6 DEF Proceed, Busy, Fail, state_replay, Refused,
     Replayed, Deliver, state_stored_detail, marker_task_observation, Judge, OpenTransaction,
     participant, Commit, state_define, state_create, state_advance, Put, WriteFails, Reply,
     ensure_plugin_write, TaskWriteFails, state_opportunities, state_detail,
     OpportunitiesDone, store, world
<1>7. CASE Crash
  BY <1>0, <1>7 DEF Crash, store, world
<1>8. CASE TaskMoves \/ MemberMoves \/ EvidenceMoves
  BY <1>0, <1>8 DEF TaskMoves, MemberMoves, EvidenceMoves, store, TaskStatuses
<1>. QED
  BY <1>1, <1>6, <1>7, <1>8 DEF Next, Begin, store, world

LEMMA StoreType ==
    ASSUME TypeInv, Next
    PROVE  /\ definitions' \subseteq Definitions
           /\ markers' \in [Markers -> Marker \cup {None}]
           /\ history' \in [Markers -> Seq(Entry)]
           /\ receipts' \subseteq Receipt
           /\ Declared'
<1>0. Types /\ Declared
  BY DEF TypeInv
<1>1. CASE Calm
  BY <1>0, <1>1 DEF Calm, Types, Declared, Stored
<1>2. ASSUME NEW c \in Clients, Stored_(c)
      PROVE  /\ definitions' \subseteq Definitions
             /\ markers' \in [Markers -> Marker \cup {None}]
             /\ history' \in [Markers -> Seq(Entry)]
             /\ receipts' \subseteq Receipt
             /\ Declared'
  <2>. DEFINE a == call[c].args
  <2>1. PICK result \in Marker \cup {None} : Commits(c, result)
    <3>1. CASE Attaches(c) \/ Defines(c)
      BY <3>1 DEF Attaches, Defines
    <3>2. CASE Creates(c) \/ Advances(c)
      <4>1. PICK from : Puts(c, markers'[a.marker], from)
        BY <3>2, PutFacts
      <4>2. markers'[a.marker] \in Marker
        BY <3>2, PutFacts
      <4>. QED
        BY <4>1, <4>2 DEF Puts
    <3>. QED
      BY <1>2, <3>1, <3>2 DEF Stored_
  <2>2. a \in Arguments /\ (a.op = "define" => parse_definition(a.definition))
    BY <2>1 DEF Commits, TypeInv, Course
  <2>3. receipts' \subseteq Receipt
    BY <1>0, <2>1, <2>2, ArgumentFacts DEF Commits, Types, Receipt
  <2>4. CASE Attaches(c)
    BY <1>0, <2>3, <2>4 DEF Attaches, Types, Declared, Stored
  <2>5. CASE Defines(c)
    <3>1. /\ a.definition \in Definitions /\ parse_definition(a.definition)
          /\ Stored(a.definition.id) = {} /\ definitions' = definitions \cup {a.definition}
          /\ markers' = markers /\ history' = history
      BY <2>2, <2>5, ArgumentFacts DEF Defines, CanWrite
    <3>2. definitions' \subseteq Definitions
      BY <1>0, <3>1 DEF Types
    <3>3. \A d \in definitions : d.id # a.definition.id
      BY <3>1 DEF Stored
    <3>4. \A d \in definitions' : parse_definition(d)
      BY <1>0, <3>1 DEF Declared
    <3>5. \A d, e \in definitions' : d.id = e.id => d = e
      BY <1>0, <3>1, <3>3 DEF Declared
    <3>6. \A m \in Markers : markers[m] # None => Stored(markers[m].def)' # {}
      BY <1>0, <3>1 DEF Declared, Stored
    <3>. QED
      BY <1>0, <2>3, <3>1, <3>2, <3>4, <3>5, <3>6 DEF Declared, Types
  <2>6. CASE Creates(c) \/ Advances(c)
    <3>1. definitions' = definitions
      BY <2>6 DEF Creates, Advances, Puts
    <3>2. \A m \in Markers : markers'[m] # None => Stored(markers'[m].def) # {}
      BY <1>0, <2>6, PutFacts DEF Declared
    <3>. QED
      BY <1>0, <2>3, <2>6, <3>1, <3>2, PutFacts DEF Types, Declared, Stored
  <2>. QED
    BY <1>2, <2>4, <2>5, <2>6 DEF Stored_
<1>. QED
  BY <1>1, <1>2, StoreCases

\* The calls of the clients that do not move.
LEMMA Aside ==
    ASSUME TypeInv, Next, NEW c \in Clients, Course(c), call'[c] = call[c]
    PROVE  Course(c)'
<1>1. \A m \in call[c].todo : m \in Markers
  BY CallType DEF TypeInv, Types
<1>. QED
  BY <1>1, Grows DEF Course

LEMMA CallsType ==
    ASSUME TypeInv, Next
    PROVE  /\ call' \in [Clients -> Call] /\ writer' \in Clients \cup {None}
           /\ \A c \in Clients : Course(c)'
<1>0. Types /\ Declared /\ \A c \in Clients : Course(c) /\ call[c] \in Call
  BY DEF TypeInv, Types
<1>1. CASE Drifts
  BY <1>0, <1>1, Aside DEF Drifts, Types
<1>2. CASE Dies
  <2>1. \A c \in Clients : call'[c] = Idle
    BY <1>2 DEF Dies
  <2>. QED
    BY <1>2, <2>1, IdleType DEF Dies, Course
<1>3. ASSUME NEW c \in Clients, Step(c)
      PROVE  /\ call' \in [Clients -> Call] /\ writer' \in Clients \cup {None}
             /\ \A d \in Clients : Course(d)'
  <2>1. Only(c) /\ writer' \in {writer, None, c}
    BY <1>3 DEF Step, Stops, Begins, Goes, Opens, Looks, Observes, Lists, Details, Attaches,
       Defines, Creates, Advances, Puts, Commits, Turn
  <2>2. Course(c)'
    <3>0. Course(c) /\ \A m \in call[c].todo : m \in Markers /\ markers'[m] # None
      <4>1. \A m \in call[c].todo : m \in Markers /\ markers[m] # None
        BY <1>0, CallType DEF Course
      <4>. QED
        BY <1>0, <4>1, Grows
    <3>1. CASE Stops(c)
      BY <3>1, IdleType DEF Stops, Course
    <3>2. CASE Begins(c)
      <4>. DEFINE a == call'[c].args
      <4>1. a \in Arguments /\ call'[c].phase = FirstPhase(a.op)
            /\ (a.op = "define" => parse_definition(a.definition)) /\ call'[c].todo = {}
        BY <3>2 DEF Begins
      <4>2. \/ a.op = "advance" /\ FirstPhase(a.op) = "lock"
            \/ a.op # "advance" /\ FirstPhase(a.op) \in {"list", "admit"}
            \/ a.op \in StateWrites \cup Attachments /\ FirstPhase(a.op) = "open"
        BY <4>1, ArgumentFacts DEF FirstPhase, StateWrites, TaskWrites, Attachments
      <4>. QED
        BY <4>1, <4>2 DEF Course
    <3>3. CASE Goes(c, "lock", "replay") \/ Goes(c, "replay", "look")
      BY <3>0, <3>3 DEF Goes, Turn, Kept, Course
    <3>4. CASE Goes(c, "judge", "open") \/ Goes(c, "validate", "apply")
      BY <3>0, <3>4 DEF Goes, Turn, Kept, Course, StateWrites
    <3>5. CASE Goes(c, "admit", "write")
      BY <3>0, <3>5 DEF Goes, Turn, Kept, Course
    <3>6. CASE Opens(c)
      BY <3>0, <3>6 DEF Opens, Goes, Turn, Kept, Course
    <3>7. CASE Looks(c) \/ Observes(c)
      BY <3>0, <3>7 DEF Looks, Observes, Turn, Kept, Course
    <3>8. CASE Lists(c)
      <4>1. markers' = markers
        BY <3>8 DEF Lists, Calm
      <4>. QED
        BY <3>0, <3>8, <4>1 DEF Lists, Turn, Course
    <3>9. CASE Details(c)
      <4>1. call'[c].todo \subseteq call[c].todo
        BY <3>9 DEF Details
      <4>. QED
        BY <3>0, <3>9, <4>1 DEF Details, Turn, Course
    <3>10. CASE \E result : Commits(c, result)
      BY <3>0, <3>10 DEF Commits, Turn, Course
    <3>. QED
      BY <1>3, <3>1, <3>2, <3>3, <3>4, <3>5, <3>6, <3>7, <3>8, <3>9, <3>10
         DEF Step, Attaches, Defines, Creates, Advances, Puts
  <2>3. ASSUME NEW d \in Clients \ {c} PROVE Course(d)'
    BY <1>0, <2>1, Aside DEF Only
  <2>. QED
    BY <1>0, <2>1, <2>2, <2>3 DEF Only, Types
<1>. QED
  BY <1>1, <1>2, <1>3, StepCases

LEMMA TypeAlways == Spec => []TypeInv
<1>1. Init => TypeInv
  <2>. SUFFICES ASSUME Init PROVE TypeInv
    OBVIOUS
  <2>1. Types
    <3>1. history \in [Markers -> Seq(Entry)]
      BY DEF Init
    <3>2. call \in [Clients -> Call]
      BY IdleType DEF Init
    <3>3. attached \in [Optional -> BOOLEAN] /\ locks \in [RequestIds -> Clients \cup {None}]
      BY DEF Init
    <3>. QED
      BY <3>1, <3>2, <3>3 DEF Init, Types, TaskStatuses
  <2>2. Declared
    BY DEF Init, Declared
  <2>3. \A c \in Clients : Course(c)
    BY IdleType DEF Init, Course
  <2>. QED
    BY <2>1, <2>2, <2>3 DEF TypeInv
<1>2. TypeInv /\ Next => TypeInv'
  BY AnswersType, SurroundingsType, StoreType, CallsType DEF TypeInv, Types
<1>3. TypeInv /\ UNCHANGED vars => TypeInv'
  BY DEF TypeInv, Types, Declared, Stored, Course, vars, store, world
<1>. QED
  BY <1>1, <1>2, <1>3, PTL DEF Spec

(* Every variable keeps its type: whatever is defined, created and moved,  *)
(* markers are in states that some client's definition declares, receipts  *)
(* and answers are of requests that were made.                             *)
THEOREM StateTypeCorrect == Spec => []StateTypeOK
<1>1. TypeInv => StateTypeOK
  BY DEF TypeInv, Types, StateTypeOK
<1>. QED
  BY <1>1, TypeAlways, PTL

(* While the State plugin is detached, nothing of what it keeps changes,   *)
(* whatever calls were under way when it was detached: every write looks   *)
(* at the attachment again inside its transaction (state_define,           *)
(* state_create, state_advance).                                           *)
THEOREM DetachedIsFrozen == Spec => DetachedStateIsFrozen
<1>1. TypeInv /\ [Next]_vars =>
        [~attached["state"] => UNCHANGED <<definitions, markers, history>>]_vars
  BY StoreCases, PutFacts DEF Calm, Stored_, Attaches, Defines, CanWrite, vars, store
<1>. QED
  BY <1>1, TypeAlways, PTL DEF Spec, DetachedStateIsFrozen

-----------------------------------------------------------------------------
(* Markers and their histories.                                            *)

\* A marker k that has the history h is where it leads, by definitions of D.
Chain(k, h, D) ==
    IF k = None
    THEN h = <<>>
    ELSE /\ k.revision = Len(h)
         /\ k.state = h[Len(h)].to
         /\ \E d \in D : d.id = k.def /\ h[1].to = d.initial
         /\ \A i \in 2 .. Len(h) :
                /\ h[i].from = h[i - 1].to
                /\ \E d \in D : d.id = k.def /\ \E e \in ToSet(d.edges) :
                        e.from = h[i].from /\ e.to = h[i].to

Chained == \A m \in Markers : Chain(markers[m], history[m], definitions)

LEMMA Appending ==
    ASSUME NEW S, NEW h \in Seq(S), NEW e \in S, NEW g, g = Append(h, e)
    PROVE  /\ g \in Seq(S) /\ Len(g) = Len(h) + 1 /\ Len(h) \in Nat
           /\ g[Len(h) + 1] = e
           /\ \A i \in 1 .. Len(h) : g[i] = h[i]
  OBVIOUS

LEMMA ChainKept ==
    ASSUME NEW k, NEW h, NEW D, NEW E, D \subseteq E, Chain(k, h, D)
    PROVE  Chain(k, h, E)
<1>1. CASE k = None
  BY <1>1 DEF Chain
<1>2. CASE k # None
  <2>1. \E d \in E : d.id = k.def /\ h[1].to = d.initial
    BY <1>2 DEF Chain
  <2>2. \A i \in 2 .. Len(h) :
          /\ h[i].from = h[i - 1].to
          /\ \E d \in E : d.id = k.def /\ \E e \in ToSet(d.edges) :
                e.from = h[i].from /\ e.to = h[i].to
    BY <1>2 DEF Chain
  <2>. QED
    BY <1>2, <2>1, <2>2 DEF Chain
<1>. QED
  BY <1>1, <1>2

LEMMA ChainBegins ==
    ASSUME NEW k \in Marker, NEW D, NEW d \in D, d.id = k.def, k.state = d.initial,
           k.revision = 1, NEW e \in Entry, e.to = k.state, NEW g, g = Append(<<>>, e)
    PROVE  Chain(k, g, D)
<1>1. Len(g) = 1 /\ g[1] = e
  OBVIOUS
<1>2. 2 .. Len(g) = {}
  BY <1>1
<1>. QED
  BY <1>1, <1>2, MarkerAssumption DEF Chain

LEMMA ChainGoesOn ==
    ASSUME NEW k \in Marker, NEW h \in Seq(Entry), NEW D, Chain(k, h, D),
           NEW d \in D, d.id = k.def, NEW x \in ToSet(d.edges), x.from = k.state,
           NEW n \in Marker, n.def = k.def, n.state = x.to, n.revision = k.revision + 1,
           NEW e \in Entry, e.from = x.from, e.to = x.to, NEW g, g = Append(h, e)
    PROVE  Chain(n, g, D)
<1>1. /\ k # None /\ n # None /\ k.revision \in Nat \ {0}
      /\ k.revision = Len(h) /\ k.state = h[Len(h)].to
  BY MarkerAssumption, MarkerFields DEF Chain
<1>2. /\ Len(g) = Len(h) + 1 /\ Len(h) \in Nat /\ g[Len(h) + 1] = e
      /\ \A i \in 1 .. Len(h) : g[i] = h[i]
  BY Appending
<1>3. /\ n.revision = Len(g) /\ n.state = g[Len(g)].to
  BY <1>1, <1>2
<1>4. \E c \in D : c.id = n.def /\ g[1].to = c.initial
  <2>1. g[1] = h[1]
    BY <1>1, <1>2
  <2>. QED
    BY <1>1, <2>1 DEF Chain
<1>5. ASSUME NEW i \in 2 .. Len(g)
      PROVE  /\ g[i].from = g[i - 1].to
             /\ \E c \in D : c.id = n.def /\ \E y \in ToSet(c.edges) :
                    y.from = g[i].from /\ y.to = g[i].to
  <2>1. CASE i = Len(h) + 1
    <3>1. i - 1 = Len(h) /\ g[i - 1] = h[Len(h)] /\ g[i] = e
      BY <1>1, <1>2, <2>1
    <3>. QED
      BY <1>1, <3>1
  <2>2. CASE i # Len(h) + 1
    <3>1. i \in 2 .. Len(h) /\ g[i] = h[i] /\ g[i - 1] = h[i - 1]
      BY <1>2, <1>5, <2>2
    <3>. QED
      BY <1>1, <3>1 DEF Chain
  <2>. QED
    BY <2>1, <2>2
<1>. QED
  BY <1>1, <1>3, <1>4, <1>5 DEF Chain

\* The entry that a write appends to the history of its marker.
LEMMA HistoryPut ==
    ASSUME TypeInv, NEW c \in Clients, Creates(c) \/ Advances(c)
    PROVE  LET a == call[c].args IN
           \E e \in Entry :
               /\ history'[a.marker] = Append(history[a.marker], e)
               /\ e.to = markers'[a.marker].state /\ e.by = a.who
               /\ Advances(c) => e.from = markers[a.marker].state
<1>. DEFINE a == call[c].args
<1>0. a.marker \in Markers /\ a.who \in Participants /\ markers'[a.marker] \in Marker
  BY PutFacts
<1>1. CASE Creates(c)
  <2>1. ~Advances(c)
    BY <1>1 DEF Creates, Advances
  <2>2. PICK e : e = [from |-> None, to |-> markers'[a.marker].state, by |-> a.who]
    OBVIOUS
  <2>3. e \in Entry
    BY <1>0, <2>2, MarkerFields DEF Entry
  <2>4. history'[a.marker] = Append(history[a.marker], e)
    BY <1>1, <2>2, PutFacts
  <2>. QED
    BY <2>1, <2>2, <2>3, <2>4
<1>2. CASE Advances(c)
  <2>1. /\ markers[a.marker] \in Marker /\ markers'[a.marker].state = a.to
    BY <1>2, PutFacts
  <2>2. PICK e : e = [from |-> markers[a.marker].state, to |-> a.to, by |-> a.who]
    OBVIOUS
  <2>3. e \in Entry
    BY <1>0, <2>1, <2>2, MarkerFields DEF Entry
  <2>4. history'[a.marker] = Append(history[a.marker], e)
    BY <1>2, <2>2, PutFacts
  <2>. QED
    BY <2>1, <2>2, <2>3, <2>4
<1>. QED
  BY <1>1, <1>2

LEMMA ChainedStep ==
    ASSUME TypeInv, Next, Chained
    PROVE  Chained'
<1>. SUFFICES ASSUME NEW m \in Markers
              PROVE  Chain(markers'[m], history'[m], definitions')
  BY DEF Chained
<1>0. /\ Types /\ Declared /\ history[m] \in Seq(Entry)
      /\ Chain(markers[m], history[m], definitions)
  BY DEF TypeInv, Types, Chained
<1>1. CASE markers'[m] = markers[m] /\ history'[m] = history[m]
  <2>1. definitions \subseteq definitions'
    BY StoreCases DEF Calm, Stored_, Attaches, Defines, Creates, Advances, Puts
  <2>. QED
    BY <1>0, <1>1, <2>1, ChainKept
<1>2. ASSUME NEW c \in Clients, Creates(c) \/ Advances(c), m = call[c].args.marker
      PROVE  Chain(markers'[m], history'[m], definitions')
  <2>. DEFINE a == call[c].args
  <2>1. definitions' = definitions
    BY <1>2 DEF Creates, Advances, Puts
  <2>2. PICK e \in Entry :
          /\ history'[m] = Append(history[m], e) /\ e.to = markers'[m].state
          /\ Advances(c) => e.from = markers[m].state
    BY <1>2, HistoryPut
  <2>3. CASE Creates(c)
    <3>1. /\ markers[m] = None /\ markers'[m] \in Marker /\ markers'[m].revision = 1
          /\ \E d \in Stored(markers'[m].def) : markers'[m].state = d.initial
      BY <1>2, <2>3, PutFacts
    <3>2. history[m] = <<>>
      BY <1>0, <3>1 DEF Chain
    <3>3. PICK d \in definitions : d.id = markers'[m].def /\ markers'[m].state = d.initial
      BY <3>1 DEF Stored
    <3>. QED
      BY <2>1, <2>2, <3>1, <3>2, <3>3, ChainBegins
  <2>4. CASE Advances(c)
    <3>1. /\ markers[m] \in Marker /\ markers[m] # None /\ CanAdvance(a) /\ markers'[m] \in Marker
          /\ markers'[m].revision = markers[m].revision + 1 /\ markers'[m].def = markers[m].def
          /\ markers'[m].state = a.to /\ Stored(markers[m].def) # {}
      BY <1>0, <1>2, <2>4, PutFacts DEF Declared
    <3>2. PICK x \in Leaving(markers[m]) : x.to = a.to
      BY <1>2, <3>1 DEF CanAdvance
    <3>3. PICK d \in Stored(markers[m].def) : TRUE
      BY <3>1
    <3>4. /\ d \in definitions /\ d.id = markers[m].def
          /\ x \in ToSet(d.edges) /\ x.from = markers[m].state
      BY <1>0, <3>2, <3>3, LookedUp
    <3>. QED
      BY <1>0, <2>1, <2>2, <2>4, <3>1, <3>2, <3>4, ChainGoesOn
  <2>. QED
    BY <1>2, <2>3, <2>4
<1>3. CASE UNCHANGED <<markers, history>>
  BY <1>1, <1>3
<1>4. ASSUME NEW c \in Clients, Creates(c) \/ Advances(c), m # call[c].args.marker
      PROVE  Chain(markers'[m], history'[m], definitions')
  BY <1>1, <1>4, PutFacts
<1>. QED
  BY <1>2, <1>3, <1>4, StoreCases DEF Stored_, Calm, Attaches, Defines

LEMMA ChainedAlways == Spec => []Chained
<1>1. Init => Chained
  BY DEF Init, Chained, Chain
<1>2. TypeInv /\ Chained /\ Next => Chained'
  BY ChainedStep
<1>3. Chained /\ UNCHANGED vars => Chained'
  BY DEF Chained, vars, store
<1>. QED
  BY <1>1, <1>2, <1>3, TypeAlways, PTL DEF Spec

(* A marker is where its history says: it began in the initial state of    *)
(* its definition, each entry starts where the one before ended, along an  *)
(* edge of the definition, and its revision counts the entries, although   *)
(* several calls read it, judge it and write it (state_advance).           *)
THEOREM HistoriesAreChains == Spec => []HistoryIsChain
<1>1. Chained => HistoryIsChain
  <2>. SUFFICES ASSUME NEW m \in Markers, Chain(markers[m], history[m], definitions),
                       markers[m] # None
                PROVE  LET h == history[m] IN
                       /\ markers[m].revision = Len(h) /\ markers[m].state = Last(h).to
                       /\ \E d \in Stored(markers[m].def) : h[1].to = d.initial
                       /\ \A i \in 2 .. Len(h) :
                            /\ h[i].from = h[i - 1].to
                            /\ <<h[i].from, h[i].to>> \in EdgesOf(markers[m].def)
    BY DEF HistoryIsChain, Chained, Chain
  <2>. DEFINE h == history[m]
  <2>1. ASSUME NEW i \in 2 .. Len(h)
        PROVE  h[i].from = h[i - 1].to /\ <<h[i].from, h[i].to>> \in EdgesOf(markers[m].def)
    <3>1. PICK d \in definitions : d.id = markers[m].def /\ \E e \in ToSet(d.edges) :
                    e.from = h[i].from /\ e.to = h[i].to
      BY DEF Chain
    <3>2. PICK e \in ToSet(d.edges) : e.from = h[i].from /\ e.to = h[i].to
      BY <3>1
    <3>3. d \in Stored(markers[m].def)
      BY <3>1 DEF Stored
    <3>4. <<e.from, e.to>> \in EdgesOf(markers[m].def)
      BY <3>2, <3>3 DEF EdgesOf
    <3>5. h[i].from = h[i - 1].to
      BY DEF Chain
    <3>. QED
      BY <3>2, <3>4, <3>5
  <2>2. \E d \in Stored(markers[m].def) : h[1].to = d.initial
    BY DEF Chain, Stored
  <2>. QED
    BY <2>1, <2>2 DEF Chain, Last
<1>. QED
  BY <1>1, ChainedAlways, PTL

-----------------------------------------------------------------------------
(* What an advance has read before its transaction.                        *)

\* The facts that an advance k has read about marker value m hold of the revision
\* it expects, for as long as the marker is at it; by definitions D, witnessed in W.
Advancing(k) ==
    k.phase \in {"observe", "judge", "open", "validate", "apply"} /\ k.args.op = "advance"

Needed(a, m, e, W) ==
    /\ "subject_task_closed" \in ToSet(e.needs) =>
            m.task /\ <<a.marker, a.expected, "closed">> \in W
    /\ "reference_kind" \in ToSet(e.needs) => <<a.marker, a.expected, "resolves">> \in W

SeenOf(k, m, D, W) ==
    LET a == k.args
        e == k.edge
    IN
    Advancing(k) =>
        /\ m # None
        /\ m.revision >= a.expected
        /\ m.revision = a.expected =>
            /\ \E d \in D : d.id = m.def /\ e \in ToSet(d.edges)
            /\ e.from = m.state /\ e.to = a.to
            /\ (k.phase = "judge" /\ k.task = "closed" /\ m.task) =>
                    <<a.marker, a.expected, "closed">> \in W
            /\ k.phase \in {"open", "validate", "apply"} => Needed(a, m, e, W)
            /\ k.phase = "apply" => <<a.marker, a.expected, a.who>> \in W

Seen == \A c \in Clients : SeenOf(call[c], markers[call[c].args.marker], definitions, witnessed)

\* What holds in the state that a step leads to is witnessed of every marker.
LEMMA Witnessing ==
    ASSUME Next, NEW m \in Markers, markers'[m] # None, NEW f,
           f \in Facts(task', members', evidence')
    PROVE  <<m, markers'[m].revision, f>> \in witnessed'
  BY DEF Next, Watch

LEMMA SeenOn ==
    ASSUME TypeInv, Next, NEW c \in Clients, NEW k, k = call[c],
           SeenOf(k, markers[k.args.marker], definitions, witnessed)
    PROVE  SeenOf(k, markers'[k.args.marker], definitions', witnessed')
<1>. SUFFICES ASSUME Advancing(k)
              PROVE  SeenOf(k, markers'[k.args.marker], definitions', witnessed')
  BY DEF SeenOf
<1>. DEFINE a == k.args
<1>1. /\ a \in Arguments /\ a.marker \in Markers /\ a.expected \in Nat
      /\ Types /\ markers[a.marker] \in Marker \cup {None}
  <2>1. a \in Arguments /\ a.op = "advance" /\ Types
    BY DEF Advancing, TypeInv, Course
  <2>. QED
    BY <2>1, ArgumentFacts DEF Types
<1>2. /\ markers[a.marker] # None /\ markers[a.marker].revision \in Nat
      /\ markers[a.marker].revision >= a.expected
  BY <1>1, MarkerFields DEF SeenOf
<1>3. /\ markers'[a.marker] # None /\ witnessed \subseteq witnessed'
      /\ \/ markers'[a.marker] = markers[a.marker]
         \/ markers'[a.marker].revision = markers[a.marker].revision + 1
  BY <1>1, <1>2, Grows
<1>4. definitions \subseteq definitions'
  BY StoreCases DEF Calm, Stored_, Attaches, Defines, Creates, Advances, Puts
<1>5. CASE markers'[a.marker] = markers[a.marker]
  BY <1>3, <1>4, <1>5 DEF SeenOf, Needed
<1>6. CASE markers'[a.marker].revision = markers[a.marker].revision + 1
  <2>1. /\ markers'[a.marker].revision >= a.expected
        /\ markers'[a.marker].revision # a.expected
    BY <1>1, <1>2, <1>6
  <2>. QED
    BY <1>3, <2>1 DEF SeenOf
<1>. QED
  BY <1>3, <1>5, <1>6

\* The call of the client that moves.
LEMMA SeenTurns ==
    ASSUME TypeInv, Next, Seen, NEW c \in Clients, Step(c), NEW n, n = call'[c], Advancing(n)
    PROVE  SeenOf(n, markers'[n.args.marker], definitions', witnessed')
<1>. DEFINE k == call[c]
            a == call[c].args
            m == markers[a.marker]
<1>0. Types /\ Declared /\ Course(c) /\ SeenOf(k, m, definitions, witnessed)
  BY DEF TypeInv, Seen
<1>1. /\ Calm /\ n.args = a
      /\ \/ Looks(c)
         \/ Observes(c)
         \/ Goes(c, "judge", "open") /\ evidence' = evidence /\ Judged(c)
         \/ Goes(c, "open", "validate")
         \/ Goes(c, "validate", "apply") /\ members' = members /\ a.who \in members
  <2>1. ~Stops(c)
    BY IdleType DEF Stops, Advancing
  <2>2. ~Begins(c)
    BY DEF Begins, Advancing, FirstPhase
  <2>3. ~\E result : Commits(c, result)
    BY DEF Commits, Turn, Advancing
  <2>4. ~Attaches(c) /\ ~Defines(c) /\ ~Creates(c) /\ ~Advances(c)
    BY <2>3 DEF Attaches, Defines, Creates, Advances, Puts
  <2>5. /\ ~Goes(c, "lock", "replay") /\ ~Goes(c, "replay", "look") /\ ~Goes(c, "admit", "write")
        /\ ~Lists(c) /\ ~Details(c)
    BY DEF Goes, Lists, Details, Turn, Advancing
  <2>6. Opens(c) => Goes(c, "open", "validate")
    BY DEF Opens, Goes, Turn, Advancing, Attachments
  <2>. QED
    BY <2>1, <2>2, <2>4, <2>5, <2>6 DEF Step, Looks, Observes, Goes, Turn
<1>2. /\ a \in Arguments /\ a.op = "advance" /\ a.marker \in Markers /\ a.expected \in Nat
      /\ a.refs \in BOOLEAN /\ m \in Marker \cup {None}
      /\ markers' = markers /\ definitions' = definitions /\ witnessed \subseteq witnessed'
  <2>1. a \in Arguments /\ a.op = "advance"
    BY <1>0, <1>1 DEF Course, Looks, Observes, Goes, Advancing
  <2>. QED
    BY <1>0, <1>1, <2>1, ArgumentFacts, Grows DEF Calm, Types
<1>. SUFFICES SeenOf(n, m, definitions, witnessed')
  BY <1>1, <1>2
<1>3. CASE Looks(c)
  <2>1. /\ n.phase = "observe" /\ n.edge = declared_transition(m, a.to) /\ CanAdvance(a)
    BY <1>3 DEF Looks, Turn
  <2>2. /\ m # None /\ m.revision = a.expected /\ Stored(m.def) # {}
        /\ \E e \in Leaving(m) : e.to = a.to
    BY <1>0, <1>2, <2>1, AdvanceFacts
  <2>3. n.edge \in Leaving(m) /\ n.edge.to = a.to
    BY <1>0, <2>1, <2>2, DeclaredTransition
  <2>4. PICK d \in Stored(m.def) : TRUE
    BY <2>2
  <2>5. d \in definitions /\ d.id = m.def /\ n.edge \in ToSet(d.edges) /\ n.edge.from = m.state
    BY <1>0, <2>3, <2>4, LookedUp
  <2>6. m.revision >= a.expected
    BY <1>2, <2>2
  <2>. QED
    BY <1>1, <2>1, <2>2, <2>3, <2>5, <2>6 DEF SeenOf
<1>4. CASE ~Looks(c)
  <2>1. Advancing(k) /\ n.edge = k.edge
    BY <1>1, <1>2, <1>4 DEF Observes, Goes, Turn, Advancing
  <2>2. /\ m # None /\ m.revision >= a.expected
        /\ m.revision = a.expected =>
            /\ \E d \in definitions : d.id = m.def /\ k.edge \in ToSet(d.edges)
            /\ k.edge.from = m.state /\ k.edge.to = a.to
            /\ (k.phase = "judge" /\ k.task = "closed" /\ m.task) =>
                    <<a.marker, a.expected, "closed">> \in witnessed
            /\ k.phase \in {"open", "validate", "apply"} => Needed(a, m, k.edge, witnessed)
    BY <1>0, <2>1 DEF SeenOf
  <2>3. \A f \in Facts(task', members', evidence') :
            m.revision = a.expected => <<a.marker, a.expected, f>> \in witnessed'
    BY <1>2, <2>2, Witnessing
  <2>4. CASE Observes(c)
    <3>1. n.phase = "judge" /\ (m.task => n.task = task) /\ task' = task
      BY <2>4 DEF Observes, Turn
    <3>2. task' = "closed" => "closed" \in Facts(task', members', evidence')
      BY DEF Facts
    <3>. QED
      BY <1>1, <2>1, <2>2, <2>3, <3>1, <3>2 DEF SeenOf
  <2>5. CASE Goes(c, "judge", "open") /\ evidence' = evidence /\ Judged(c)
    <3>1. n.phase = "open" /\ k.phase = "judge"
      BY <2>5 DEF Goes, Turn
    <3>2. /\ "subject_task_closed" \in ToSet(k.edge.needs) => m.task /\ k.task = "closed"
          /\ "reference_kind" \in ToSet(k.edge.needs) => evidence
      BY <1>2, <2>5 DEF Judged, transition_readiness
    <3>3. evidence' => "resolves" \in Facts(task', members', evidence')
      BY DEF Facts
    <3>4. m.revision = a.expected => Needed(a, m, k.edge, witnessed')
      BY <1>2, <2>2, <2>3, <2>5, <3>1, <3>2, <3>3 DEF Needed
    <3>. QED
      BY <1>1, <2>1, <2>2, <3>1, <3>4 DEF SeenOf
  <2>6. CASE Goes(c, "open", "validate")
    <3>1. n.phase = "validate" /\ k.phase = "open"
      BY <2>6 DEF Goes, Turn
    <3>. QED
      BY <1>1, <1>2, <2>1, <2>2, <3>1 DEF SeenOf, Needed
  <2>7. CASE Goes(c, "validate", "apply") /\ members' = members /\ a.who \in members
    <3>1. n.phase = "apply" /\ k.phase = "validate"
      BY <2>7 DEF Goes, Turn
    <3>2. a.who \in Facts(task', members', evidence')
      BY <2>7 DEF Facts
    <3>. QED
      BY <1>1, <1>2, <2>1, <2>2, <2>3, <3>1, <3>2 DEF SeenOf, Needed
  <2>. QED
    BY <1>1, <1>4, <2>4, <2>5, <2>6, <2>7
<1>. QED
  BY <1>3, <1>4

LEMMA SeenStep ==
    ASSUME TypeInv, Next, Seen
    PROVE  Seen'
<1>. SUFFICES ASSUME NEW d \in Clients, NEW n, n = call'[d]
              PROVE  SeenOf(n, markers'[n.args.marker], definitions', witnessed')
  BY DEF Seen
<1>1. CASE call'[d] = call[d]
  BY <1>1, SeenOn DEF Seen
<1>2. CASE ~Advancing(n)
  BY <1>2 DEF SeenOf
<1>3. CASE Step(d)
  BY <1>2, <1>3, SeenTurns
<1>4. CASE Dies
  <2>1. n.phase = "idle"
    BY <1>4, IdleType DEF Dies
  <2>. QED
    BY <1>2, <2>1 DEF Advancing
<1>5. ASSUME NEW c \in Clients, Step(c), c # d
      PROVE  call'[d] = call[d]
  <2>1. Only(c)
    BY <1>5 DEF Step, Stops, Begins, Goes, Opens, Looks, Observes, Lists, Details, Attaches,
       Defines, Creates, Advances, Puts, Commits, Turn
  <2>. QED
    BY <1>5, <2>1 DEF Only
<1>. QED
  BY <1>1, <1>3, <1>4, <1>5, StepCases DEF Drifts

LEMMA SeenAlways == Spec => []Seen
<1>1. Init => Seen
  <2>. SUFFICES ASSUME Init, NEW c \in Clients PROVE ~Advancing(call[c])
    BY DEF Seen, SeenOf
  <2>. QED
    BY IdleType DEF Init, Advancing
<1>2. TypeInv /\ Seen /\ Next => Seen'
  BY SeenStep
<1>3. Seen /\ UNCHANGED vars => Seen'
  BY DEF Seen, vars, store
<1>. QED
  BY <1>1, <1>2, <1>3, TypeAlways, PTL DEF Spec

-----------------------------------------------------------------------------
(* Every move was justified.                                               *)

\* What entry e of the history of marker m, with the value k, asks for held at
\* revision r, by definitions D, witnessed in W.
Justified(m, k, e, r, D, W) ==
    /\ <<m, r, e.by>> \in W
    /\ \A d \in D : d.id = k.def => \A x \in ToSet(d.edges) :
        x.from = e.from /\ x.to = e.to =>
            /\ "subject_task_closed" \in ToSet(x.needs) => k.task /\ <<m, r, "closed">> \in W
            /\ "reference_kind" \in ToSet(x.needs) => <<m, r, "resolves">> \in W

Justifications ==
    \A m \in Markers : markers[m] # None => \A i \in 2 .. Len(history[m]) :
        Justified(m, markers[m], history[m][i], i - 1, definitions, witnessed)

\* Definitions of one name do not change: what was justified remains so.
LEMMA JustifiedKept ==
    ASSUME TypeInv, Next, NEW m \in Markers, NEW k, NEW n, NEW e, NEW r,
           k = markers[m], k # None, n = markers'[m],
           Justified(m, k, e, r, definitions, witnessed)
    PROVE  Justified(m, n, e, r, definitions', witnessed')
<1>1. n.def = k.def /\ n.task = k.task /\ witnessed \subseteq witnessed'
  BY Grows
<1>2. Stored(k.def) # {}
  BY DEF TypeInv, Declared
<1>3. PICK id : id = k.def
  OBVIOUS
<1>4. Stored(id)' = Stored(id)
  BY <1>2, <1>3, Grows
<1>5. {d \in definitions' : d.id = id} = {d \in definitions : d.id = id}
  BY <1>4 DEF Stored
<1>6. ASSUME NEW d \in definitions', d.id = n.def PROVE d \in definitions /\ d.id = k.def
  BY <1>1, <1>3, <1>5, <1>6
<1>. QED
  BY <1>1, <1>6 DEF Justified

LEMMA JustifiedMove ==
    ASSUME TypeInv, Next, Seen, Chained, NEW c \in Clients, Advances(c),
           NEW m \in Markers, m = call[c].args.marker, NEW k, k = markers[m],
           NEW e, e.from = k.state, e.to = call[c].args.to, e.by = call[c].args.who
    PROVE  /\ k # None /\ Len(history[m]) \in Nat
           /\ Justified(m, k, e, Len(history[m]), definitions, witnessed)
<1>. DEFINE a == call[c].args
            r == Len(history[m])
<1>1. /\ k \in Marker /\ k # None /\ k.revision = a.expected /\ a.op = "advance"
      /\ call[c].phase = "apply"
  BY PutFacts DEF Advances, Puts, Commits
<1>2. a.expected = r /\ r \in Nat
  BY <1>1, MarkerFields DEF Chained, Chain
<1>3. SeenOf(call[c], k, definitions, witnessed)
  BY DEF Seen
<1>4. PICK x : x = call[c].edge
  OBVIOUS
<1>5. /\ \E d \in definitions : d.id = k.def /\ x \in ToSet(d.edges)
      /\ x.from = k.state /\ x.to = a.to
      /\ Needed(a, k, x, witnessed)
      /\ <<m, r, a.who>> \in witnessed
  BY <1>1, <1>2, <1>3, <1>4 DEF SeenOf, Advancing
<1>6. ASSUME NEW d \in definitions, d.id = k.def, NEW y \in ToSet(d.edges),
             y.from = e.from, y.to = e.to
      PROVE  y = x
  <2>1. d \in Definitions /\ parse_definition(d) /\ x \in ToSet(d.edges)
    BY <1>5, <1>6 DEF TypeInv, Types, Declared
  <2>. QED
    BY <1>5, <1>6, <2>1, DefinitionFacts, SMTT(30)
<1>. QED
  BY <1>1, <1>2, <1>5, <1>6 DEF Justified, Needed

LEMMA JustificationsStep ==
    ASSUME TypeInv, Next, Seen, Chained, Justifications
    PROVE  Justifications'
<1>. SUFFICES ASSUME NEW m \in Markers, NEW n, n = markers'[m], n # None,
                     NEW i \in 2 .. Len(history'[m])
              PROVE  Justified(m, n, history'[m][i], i - 1, definitions', witnessed')
  BY DEF Justifications
<1>0. /\ history[m] \in Seq(Entry) /\ Chain(markers[m], history[m], definitions)
      /\ Len(history[m]) \in Nat
  BY DEF TypeInv, Types, Chained
<1>1. CASE history'[m] = history[m]
  <2>1. i \in 2 .. Len(history[m])
    BY <1>1
  <2>2. markers[m] # None
    <3>1. history[m] # <<>>
      BY <1>0, <2>1
    <3>. QED
      BY <1>0, <3>1 DEF Chain
  <2>3. PICK k : k = markers[m]
    OBVIOUS
  <2>4. PICK e : e = history[m][i]
    OBVIOUS
  <2>5. Justified(m, k, e, i - 1, definitions, witnessed)
    BY <2>1, <2>2, <2>3, <2>4 DEF Justifications
  <2>. QED
    BY <1>1, <2>2, <2>3, <2>4, <2>5, JustifiedKept
<1>2. ASSUME NEW c \in Clients, Creates(c) \/ Advances(c), m = call[c].args.marker
      PROVE  Justified(m, n, history'[m][i], i - 1, definitions', witnessed')
  <2>1. PICK e \in Entry :
          /\ history'[m] = Append(history[m], e) /\ e.to = markers'[m].state
          /\ e.by = call[c].args.who
          /\ Advances(c) => e.from = markers[m].state
    BY <1>2, HistoryPut
  <2>2. PICK g : g = history'[m]
    OBVIOUS
  <2>3. /\ Len(g) = Len(history[m]) + 1 /\ g[Len(history[m]) + 1] = e
        /\ \A j \in 1 .. Len(history[m]) : g[j] = history[m][j]
    BY <1>0, <2>1, <2>2, Appending
  <2>4. CASE Creates(c)
    <3>1. markers[m] = None
      BY <1>2, <2>4, PutFacts
    <3>2. history[m] = <<>>
      BY <1>0, <3>1 DEF Chain
    <3>. QED
      BY <2>2, <2>3, <3>2
  <2>5. CASE Advances(c)
    <3>1. PICK k : k = markers[m]
      OBVIOUS
    <3>2. /\ k # None /\ markers'[m].state = call[c].args.to
      BY <1>2, <2>5, <3>1, PutFacts
    <3>3. CASE i = Len(history[m]) + 1
      <4>1. Justified(m, k, e, Len(history[m]), definitions, witnessed)
        BY <1>2, <2>1, <2>5, <3>1, <3>2, JustifiedMove
      <4>2. PICK r : r = i - 1
        OBVIOUS
      <4>3. r = Len(history[m]) /\ history'[m][i] = e
        BY <1>0, <2>2, <2>3, <3>3, <4>2
      <4>4. Justified(m, n, e, r, definitions', witnessed')
        BY <3>1, <3>2, <4>1, <4>3, JustifiedKept
      <4>. QED
        BY <4>2, <4>3, <4>4
    <3>4. CASE i # Len(history[m]) + 1
      <4>1. i \in 2 .. Len(history[m]) /\ g[i] = history[m][i]
        BY <1>0, <2>2, <2>3, <3>4
      <4>2. PICK x : x = history[m][i]
        OBVIOUS
      <4>3. Justified(m, k, x, i - 1, definitions, witnessed)
        BY <3>1, <3>2, <4>1, <4>2 DEF Justifications
      <4>. QED
        BY <2>2, <3>1, <3>2, <4>1, <4>2, <4>3, JustifiedKept
    <3>. QED
      BY <3>3, <3>4
  <2>. QED
    BY <1>2, <2>4, <2>5
<1>3. ASSUME NEW c \in Clients, Creates(c) \/ Advances(c), m # call[c].args.marker
      PROVE  history'[m] = history[m]
  BY <1>3, PutFacts
<1>. QED
  BY <1>1, <1>2, <1>3, StoreCases DEF Stored_, Calm, Attaches, Defines

LEMMA JustificationsAlways == Spec => []Justifications
<1>1. Init => Justifications
  BY DEF Init, Justifications
<1>2. TypeInv /\ Seen /\ Chained /\ Justifications /\ Next => Justifications'
  BY JustificationsStep
<1>3. Justifications /\ UNCHANGED vars => Justifications'
  BY DEF Justifications, vars, store
<1>. QED
  BY <1>1, <1>2, <1>3, TypeAlways, ChainedAlways, SeenAlways, PTL DEF Spec

(* A marker left a state only while what the edge asks for held: at some   *)
(* moment of that very revision the task was closed, the reference         *)
(* resolved and the participant was registered.  The transaction that      *)
(* moves the marker checks none of it again (Host::state_advance observes  *)
(* first); its compare-and-swap of the revision is what makes it enough.   *)
THEOREM MovesWereJustified == Spec => []AdvanceWasJustified
<1>1. Justifications => AdvanceWasJustified
  <2>. SUFFICES ASSUME NEW m \in Markers, NEW i \in 2 .. Len(history[m]), markers[m] # None,
                       Justified(m, markers[m], history[m][i], i - 1, definitions, witnessed)
                PROVE  LET h == history[m][i]
                           Held(f) == <<m, i - 1, f>> \in witnessed
                       IN /\ Held(h.by)
                          /\ \A d \in Stored(markers[m].def) : \A e \in ToSet(d.edges) :
                               e.from = h.from /\ e.to = h.to =>
                                 /\ "subject_task_closed" \in ToSet(e.needs) =>
                                         markers[m].task /\ Held("closed")
                                 /\ "reference_kind" \in ToSet(e.needs) => Held("resolves")
    BY DEF AdvanceWasJustified, Justifications
  <2>. QED
    BY DEF Justified, Stored
<1>. QED
  BY <1>1, JustificationsAlways, PTL

-----------------------------------------------------------------------------
(* Opportunities.                                                          *)

\* State w was a state of the marker with history h at a revision up to r.
Was(h, r, w) == \E i \in 1 .. r : h[i].to = w

\* The markers a search for a has listed, and those it has found.
Found(f, a) ==
    /\ Stored(f.seen.def) # {} /\ Leaving(f.seen) # {}
    /\ a.capability \in CapabilitiesOf(f.seen) \cup {None}
    /\ f.seen.revision <= Len(history[f.marker])
    /\ a.wanted # None => Was(history[f.marker], f.seen.revision, a.wanted)

Listed(c) ==
    LET a == call[c].args IN
    /\ \A m \in call[c].todo : a.wanted # None => Was(history[m], markers[m].revision, a.wanted)
    /\ \A f \in call[c].found : Found(f, a)

LEMMA LookedUpKept ==
    ASSUME TypeInv, Next, NEW k, Stored(k.def) # {}
    PROVE  /\ Stored(k.def)' # {}
           /\ Leaving(k)' = Leaving(k) /\ CapabilitiesOf(k)' = CapabilitiesOf(k)
<1>1. PICK id : id = k.def
  OBVIOUS
<1>2. Stored(id)' = Stored(id)
  BY <1>1, Grows
<1>3. Stored(k.def)' = Stored(k.def)
  BY <1>1, <1>2
<1>4. Definition(k)' = Definition(k)
  BY <1>3 DEF Definition
<1>. QED
  BY <1>3, <1>4 DEF Leaving, CapabilitiesOf

\* Histories grow at their end: what was, was.
LEMMA WasKept ==
    ASSUME TypeInv, Next, NEW m \in Markers, NEW r \in Nat, r <= Len(history[m]), NEW w,
           Was(history[m], r, w)
    PROVE  /\ r <= Len(history'[m])
           /\ \A t \in Nat : r <= t => Was(history'[m], t, w)
<1>1. PICK i \in 1 .. r : history[m][i].to = w
  BY DEF Was
<1>2. Len(history[m]) \in Nat /\ Len(history'[m]) \in Nat
  BY StoreType DEF TypeInv, Types
<1>3. i \in 1 .. Len(history[m])
  BY <1>2
<1>4. history'[m][i] = history[m][i] /\ Len(history[m]) <= Len(history'[m])
  BY <1>3, Grows
<1>. QED
  BY <1>1, <1>2, <1>4 DEF Was

\* What is found stays so.
LEMMA FoundKept ==
    ASSUME TypeInv, Next, NEW f \in [marker: Markers, seen: Marker], NEW a, Found(f, a)
    PROVE  Found(f, a)'
<1>1. /\ f.marker \in Markers /\ f.seen \in Marker
      /\ Stored(f.seen.def) # {} /\ Leaving(f.seen) # {}
      /\ a.capability \in CapabilitiesOf(f.seen) \cup {None}
      /\ f.seen.revision <= Len(history[f.marker])
      /\ a.wanted # None => Was(history[f.marker], f.seen.revision, a.wanted)
  BY DEF Found
<1>2. PICK k : k = f.seen
  OBVIOUS
<1>3. Stored(k.def)' # {} /\ Leaving(k)' = Leaving(k) /\ CapabilitiesOf(k)' = CapabilitiesOf(k)
  BY <1>1, <1>2, LookedUpKept
<1>4. k.revision \in Nat
  BY <1>1, <1>2, MarkerFields
<1>5. Len(history'[f.marker]) \in Nat /\ Len(history[f.marker]) <= Len(history'[f.marker])
      /\ Len(history[f.marker]) \in Nat
  BY <1>1, StoreType, Grows DEF TypeInv, Types
<1>6. k.revision <= Len(history'[f.marker])
  BY <1>1, <1>2, <1>4, <1>5
<1>7. a.wanted # None => Was(history'[f.marker], k.revision, a.wanted)
  <2>1. ASSUME a.wanted # None
        PROVE  \A t \in Nat : k.revision <= t => Was(history'[f.marker], t, a.wanted)
    BY <1>1, <1>2, <1>4, <2>1, WasKept
  <2>. QED
    BY <1>4, <2>1
<1>. QED
  BY <1>1, <1>2, <1>3, <1>6, <1>7 DEF Found

\* A listed marker was in the wanted state, and remains one that was.
LEMMA TodoKept ==
    ASSUME TypeInv, Next, Chained, NEW m \in Markers, markers[m] # None, NEW w,
           Was(history[m], markers[m].revision, w)
    PROVE  Was(history'[m], markers'[m].revision, w)
<1>1. /\ markers[m] \in Marker /\ markers[m].revision \in Nat
      /\ markers[m].revision = Len(history[m])
  BY MarkerFields DEF TypeInv, Types, Chained, Chain
<1>2. markers'[m].revision \in Nat /\ markers[m].revision <= markers'[m].revision
  BY <1>1, Grows
<1>3. PICK r \in Nat : r = markers[m].revision
  BY <1>1
<1>4. r <= Len(history[m]) /\ Was(history[m], r, w)
  BY <1>1, <1>3
<1>5. \A t \in Nat : r <= t => Was(history'[m], t, w)
  BY <1>4, WasKept
<1>. QED
  BY <1>2, <1>3, <1>5

\* A call that lists and finds nothing more.
LEMMA ListedKept ==
    ASSUME TypeInv, Next, Chained, NEW c \in Clients, Listed(c), call'[c].args = call[c].args,
           call'[c].todo \subseteq call[c].todo, call'[c].found = call[c].found
    PROVE  Listed(c)'
<1>1. PICK a : a = call[c].args
  OBVIOUS
<1>2. /\ call[c].todo \subseteq Markers /\ call[c].found \subseteq [marker: Markers, seen: Marker]
      /\ \A m \in call[c].todo : markers[m] # None
  BY CallType DEF TypeInv, Types, Course
<1>3. ASSUME NEW m \in call'[c].todo, a.wanted # None
      PROVE  Was(history'[m], markers'[m].revision, a.wanted)
  BY <1>1, <1>2, <1>3, TodoKept DEF Listed
<1>4. ASSUME NEW f \in call'[c].found
      PROVE  Found(f, a)'
  BY <1>1, <1>2, <1>4, FoundKept DEF Listed
<1>. QED
  BY <1>1, <1>3, <1>4 DEF Listed

LEMMA ListedLists ==
    ASSUME TypeInv, Next, Chained, NEW c \in Clients, Listed(c), Lists(c)
    PROVE  Listed(c)'
<1>1. PICK a : a = call[c].args
  OBVIOUS
<1>2. /\ call'[c].args = a /\ call'[c].found = call[c].found
      /\ call'[c].todo = {m \in Markers : markers[m] # None /\ a.wanted \in {None, markers[m].state}}
      /\ markers' = markers /\ history' = history
  BY <1>1 DEF Lists, Turn, Calm
<1>3. ASSUME NEW m \in call'[c].todo, a.wanted # None
      PROVE  Was(history'[m], markers'[m].revision, a.wanted)
  <2>1. /\ m \in Markers /\ markers[m] # None /\ a.wanted = markers[m].state
        /\ markers[m] \in Marker
    BY <1>2, <1>3 DEF TypeInv, Types
  <2>2. markers[m].revision = Len(history[m]) /\ history[m][Len(history[m])].to = a.wanted
    BY <2>1 DEF Chained, Chain
  <2>3. markers[m].revision \in Nat /\ markers[m].revision >= 1
    BY <2>1, MarkerFields
  <2>. QED
    BY <1>2, <2>2, <2>3 DEF Was
<1>4. ASSUME NEW f \in call'[c].found
      PROVE  Found(f, a)'
  <2>1. f \in [marker: Markers, seen: Marker]
    BY <1>2, <1>4, CallType DEF TypeInv, Types
  <2>. QED
    BY <1>1, <1>2, <1>4, <2>1, FoundKept DEF Listed
<1>. QED
  BY <1>2, <1>3, <1>4 DEF Listed

LEMMA ListedDetails ==
    ASSUME TypeInv, Next, Chained, NEW c \in Clients, Listed(c), Details(c)
    PROVE  Listed(c)'
<1>1. PICK a : a = call[c].args
  OBVIOUS
<1>2. PICK m \in call[c].todo : call'[c].found = call[c].found \cup Offered(c, m)
  BY DEF Details
<1>3. /\ call'[c].args = a /\ call'[c].todo \subseteq call[c].todo
      /\ call[c].todo \subseteq Markers /\ call[c].found \subseteq [marker: Markers, seen: Marker]
      /\ \A x \in call[c].todo : markers[x] # None
  BY <1>1, CallType DEF Details, Turn, TypeInv, Types, Course
<1>4. ASSUME NEW x \in call'[c].todo, a.wanted # None
      PROVE  Was(history'[x], markers'[x].revision, a.wanted)
  BY <1>1, <1>3, <1>4, TodoKept DEF Listed
<1>5. ASSUME NEW f \in Offered(c, m) PROVE f \in [marker: Markers, seen: Marker] /\ Found(f, a)
  <2>1. /\ f = [marker |-> m, seen |-> markers[m]]
        /\ IsOpportunity(markers[m], a.capability)
    BY <1>1, <1>5 DEF Offered
  <2>2. /\ m \in Markers /\ markers[m] \in Marker /\ markers[m] # None
        /\ markers[m].revision = Len(history[m]) /\ Stored(markers[m].def) # {}
    BY <1>3, ZenonT(40) DEF TypeInv, Types, Declared, Chained, Chain
  <2>3. PICK k : k = markers[m]
    OBVIOUS
  <2>4. /\ f.marker = m /\ f.seen = k /\ Leaving(k) # {}
        /\ a.capability \in CapabilitiesOf(k) \cup {None}
    BY <2>1, <2>3 DEF IsOpportunity
  <2>5. k.revision \in Nat /\ k.revision <= Len(history[m])
    BY <2>2, <2>3, MarkerFields
  <2>6. a.wanted # None => Was(history[m], k.revision, a.wanted)
    BY <1>1, <2>3 DEF Listed
  <2>7. f \in [marker: Markers, seen: Marker]
    BY <2>1, <2>2
  <2>. QED
    BY <2>2, <2>3, <2>4, <2>5, <2>6, <2>7 DEF Found
<1>6. ASSUME NEW f \in call'[c].found
      PROVE  Found(f, a)'
  <2>1. f \in [marker: Markers, seen: Marker] /\ Found(f, a)
    BY <1>1, <1>2, <1>3, <1>5, <1>6 DEF Listed
  <2>. QED
    BY <2>1, FoundKept
<1>. QED
  BY <1>3, <1>4, <1>6 DEF Listed

LEMMA ListedStep ==
    ASSUME TypeInv, Next, Chained, \A c \in Clients : Listed(c), NEW d \in Clients
    PROVE  Listed(d)'
<1>1. CASE call'[d] = call[d]
  BY <1>1, ListedKept
<1>2. CASE call'[d].todo = {} /\ call'[d].found = {}
  BY <1>2 DEF Listed
<1>3. CASE Step(d)
  <2>1. CASE Lists(d)
    BY <2>1, ListedLists
  <2>2. CASE Details(d)
    BY <2>2, ListedDetails
  <2>3. CASE Stops(d) \/ Begins(d)
    BY <1>2, <2>3, IdleType DEF Stops, Begins
  <2>4. CASE \/ call'[d].args = call[d].args /\ call'[d].todo = call[d].todo
                /\ call'[d].found = call[d].found
    BY <2>4, ListedKept
  <2>. QED
    BY <1>3, <2>1, <2>2, <2>3, <2>4 DEF Step, Goes, Opens, Looks, Observes, Attaches,
       Defines, Creates, Advances, Puts, Commits, Turn, Kept
<1>4. CASE Dies
  BY <1>2, <1>4, IdleType DEF Dies
<1>5. ASSUME NEW c \in Clients, Step(c), c # d
      PROVE  call'[d] = call[d]
  <2>1. Only(c)
    BY <1>5 DEF Step, Stops, Begins, Goes, Opens, Looks, Observes, Lists, Details, Attaches,
       Defines, Creates, Advances, Puts, Commits, Turn
  <2>. QED
    BY <1>5, <2>1 DEF Only
<1>. QED
  BY <1>1, <1>3, <1>4, <1>5, StepCases DEF Drifts

LEMMA ListedAlways == Spec => [](\A c \in Clients : Listed(c))
<1>1. Init => \A c \in Clients : Listed(c)
  BY IdleType DEF Init, Listed
<1>2. TypeInv /\ Chained /\ (\A c \in Clients : Listed(c)) /\ Next
        => (\A c \in Clients : Listed(c))'
  BY ListedStep
<1>3. (\A c \in Clients : Listed(c)) /\ UNCHANGED vars => (\A c \in Clients : Listed(c))'
  BY ZenonT(60) DEF Listed, Found, Stored, Leaving, Definition, CapabilitiesOf, vars, store
<1>. QED
  BY <1>1, <1>2, <1>3, TypeAlways, ChainedAlways, PTL DEF Spec

(* The state an opportunity is reported in can be left and asks for the    *)
(* capability, and the marker was in the wanted state at the revision it   *)
(* is reported at or at an earlier one, although list and details are      *)
(* separate reads (Host::state_opportunities).                             *)
THEOREM OpportunitiesWereReal == Spec => []OpportunityWasReal
<1>1. (\A c \in Clients : Listed(c)) => OpportunityWasReal
  <2>. SUFFICES ASSUME NEW c \in Clients, NEW f \in call[c].found, Found(f, call[c].args)
                PROVE  /\ Leaving(f.seen) # {}
                       /\ call[c].args.capability \in CapabilitiesOf(f.seen) \cup {None}
                       /\ call[c].args.wanted # None =>
                            \E i \in 1 .. f.seen.revision :
                                history[f.marker][i].to = call[c].args.wanted
    BY DEF Listed, OpportunityWasReal
  <2>. QED
    BY DEF Found, Was
<1>. QED
  BY <1>1, ListedAlways, PTL

-----------------------------------------------------------------------------
(* Transactions and receipts.                                              *)

\* Call k of client c in a transaction holds the writer w and has no receipt in R;
\* once committed it has one.
TurnOf(c, k, w, R) ==
    /\ k.phase \in {"validate", "apply"} =>
        w = c /\ \A r \in R : ~(r.plugin = PluginOf(k.args) /\ r.args.rid = k.args.rid)
    /\ k.phase = "reply" =>
        [plugin |-> PluginOf(k.args), args |-> k.args, result |-> k.result] \in R

Turns ==
    /\ \A c \in Clients : TurnOf(c, call[c], writer, receipts)
    /\ \A r \in receipts : r.plugin = PluginOf(r.args)

LEMMA TurnsStep ==
    ASSUME TypeInv, Next, Turns
    PROVE  Turns'
<1>0. \A c \in Clients : c # None
  BY NoneAssumption
<1>1. ASSUME Calm, UNCHANGED <<call, writer>> PROVE Turns'
  BY <1>1 DEF Calm, Turns
<1>2. CASE Dies
  <2>1. \A c \in Clients : call'[c].phase = "idle"
    BY <1>2, IdleType DEF Dies
  <2>. QED
    BY <1>2, <2>1 DEF Dies, Calm, Turns, TurnOf
<1>3. ASSUME NEW c \in Clients, Step(c) PROVE Turns'
  <2>0. Only(c) /\ TurnOf(c, call[c], writer, receipts)
    BY <1>3 DEF Turns, Step, Stops, Begins, Goes, Opens, Looks, Observes, Lists, Details,
       Attaches, Defines, Creates, Advances, Puts, Commits, Turn
  <2>1. ASSUME \/ /\ receipts' = receipts
                  /\ writer' = writer \/ (writer \in {c, None} /\ writer' \in {c, None})
               \/ /\ writer = c
                  /\ \A r \in receipts' : r.plugin = PluginOf(r.args)
                  /\ receipts \subseteq receipts',
               TurnOf(c, call'[c], writer', receipts')
        PROVE  Turns'
    <3>1. \A r \in receipts' : r.plugin = PluginOf(r.args)
      BY <2>1 DEF Turns
    <3>2. ASSUME NEW d \in Clients, d # c PROVE TurnOf(d, call'[d], writer', receipts')
      <4>1. TurnOf(d, call[d], writer, receipts) /\ call'[d] = call[d]
        BY <2>0, <3>2 DEF Turns, Only
      <4>2. receipts \subseteq receipts'
        BY <2>1
      <4>3. call[d].phase \in {"validate", "apply"} => writer = d /\ d # c /\ d # None
        BY <1>0, <3>2, <4>1 DEF TurnOf
      <4>4. call[d].phase \in {"validate", "apply"} => receipts' = receipts /\ writer' = writer
        BY <2>1, <4>3
      <4>. QED
        BY <4>1, <4>2, <4>4 DEF TurnOf
    <3>. QED
      BY <2>1, <3>1, <3>2 DEF Turns
  <2>2. CASE Stops(c)
    <3>1. call'[c].phase = "idle" /\ receipts' = receipts
          /\ (writer' = writer \/ (writer = c /\ writer' = None))
      BY <2>2, IdleType DEF Stops, Calm
    <3>. QED
      BY <2>1, <3>1 DEF TurnOf
  <2>3. CASE Opens(c)
    <3>1. /\ call'[c].phase \in {"validate", "apply"} /\ call'[c].args = call[c].args
          /\ receipts' = receipts /\ writer = None /\ writer' = c
          /\ \A r \in receipts :
                ~(r.plugin = PluginOf(call[c].args) /\ r.args.rid = call[c].args.rid)
      BY <2>3 DEF Opens, Goes, Turn, Calm, Receipts
    <3>. QED
      BY <2>1, <3>1 DEF TurnOf
  <2>4. ASSUME NEW result, Commits(c, result) PROVE Turns'
    <3>1. writer = c
      BY <2>0, <2>4 DEF Commits, TurnOf
    <3>2. /\ receipts' = receipts \cup {[plugin |-> PluginOf(call[c].args),
                                         args |-> call[c].args, result |-> result]}
          /\ call'[c].phase = "reply" /\ call'[c].args = call[c].args /\ call'[c].result = result
      BY <2>4 DEF Commits, Turn
    <3>3. \A r \in receipts' : r.plugin = PluginOf(r.args)
      BY <3>2 DEF Turns
    <3>4. TurnOf(c, call'[c], writer', receipts')
      BY <3>2 DEF TurnOf
    <3>. QED
      BY <2>1, <3>1, <3>2, <3>3, <3>4
  <2>5. CASE Goes(c, "validate", "apply") /\ writer' = writer
    <3>1. /\ call[c].phase = "validate" /\ call'[c].phase = "apply"
          /\ call'[c].args = call[c].args /\ receipts' = receipts
      BY <2>5 DEF Goes, Turn, Calm
    <3>. QED
      BY <2>0, <2>1, <2>5, <3>1 DEF TurnOf
  <2>6. CASE /\ writer' = writer /\ Calm
             /\ call'[c].phase \notin {"validate", "apply", "reply"}
    BY <2>1, <2>6 DEF TurnOf, Calm
  <2>7. CASE Begins(c)
    <3>1. call'[c].phase \notin {"validate", "apply", "reply"}
      BY <2>7 DEF Begins, FirstPhase
    <3>. QED
      BY <2>6, <2>7, <3>1 DEF Begins
  <2>. QED
    BY <1>3, <2>2, <2>3, <2>4, <2>5, <2>6, <2>7 DEF Step, Goes, Looks, Observes, Lists, Details,
       Attaches, Defines, Creates, Advances, Puts, Turn
<1>. QED
  BY <1>1, <1>2, <1>3, StepCases DEF Drifts

LEMMA TurnsAlways == Spec => []Turns
<1>1. Init => Turns
  BY IdleType DEF Init, Turns, TurnOf
<1>2. TypeInv /\ Turns /\ Next => Turns'
  BY TurnsStep
<1>3. Turns /\ UNCHANGED vars => Turns'
  BY DEF Turns, vars, store
<1>. QED
  BY <1>1, <1>2, <1>3, TypeAlways, PTL DEF Spec

-----------------------------------------------------------------------------
(* The plugin implements versioned markers.                                *)

\* An answer is what the receipt of the request holds.
Answers(c, result) ==
    /\ Calm
    /\ answers' = answers \cup {[args |-> call[c].args, result |-> result]}
    /\ [plugin |-> PluginOf(call[c].args), args |-> call[c].args, result |-> result] \in receipts

LEMMA AnswerCases ==
    ASSUME TypeInv, Turns, Next
    PROVE  answers' = answers \/ \E c \in Clients : \E result : Answers(c, result)
<1>1. ASSUME NEW c \in Clients, Replayed(c)
      PROVE  \E result : Answers(c, result)
  <2>1. PICK r \in receipts : r.args = call[c].args /\ Deliver(c, r.result)
    BY <1>1 DEF Replayed, Receipts
  <2>2. r.plugin = PluginOf(call[c].args) /\ r \in Receipt
    BY <2>1 DEF Turns, TypeInv, Types
  <2>3. r = [plugin |-> PluginOf(call[c].args), args |-> call[c].args, result |-> r.result]
    BY <2>1, <2>2 DEF Receipt
  <2>. QED
    BY <2>1, <2>3 DEF Deliver, End, Answers, Calm, store
<1>2. ASSUME NEW c \in Clients, Reply(c)
      PROVE  \E result : Answers(c, result)
  <2>1. TurnOf(c, call[c], writer, receipts)
    BY DEF Turns
  <2>. QED
    BY <1>2, <2>1 DEF Reply, Deliver, End, Answers, Calm, store, TurnOf
<1>3. ASSUME NEW c \in Clients, Proceed(c)
      PROVE  answers' = answers \/ \E result : Answers(c, result)
  BY <1>1, <1>2, <1>3 DEF Proceed, Lock, Busy, Fail, state_replay, Refused,
     state_stored_detail, marker_task_observation, Judge, OpenTransaction, participant,
     set_attachment, Commit, state_define, state_create, state_advance, Put, WriteFails,
     ensure_plugin_write, TaskWrite, TaskWriteFails, state_opportunities, state_detail,
     OpportunitiesDone
<1>. QED
  BY <1>3 DEF Next, Begin, TaskMoves, MemberMoves, EvidenceMoves, Crash

LEMMA DoneGrows ==
    ASSUME NEW S, NEW x, NEW a, x.args = a
    PROVE  /\ a \in StateRequests =>
                Done(S \cup {x}) = Done(S) \cup {[args |-> a, result |-> x.result]}
           /\ a \notin StateRequests => Done(S \cup {x}) = Done(S)
  BY DEF Done

\* The transaction of a state write performs its request.
LEMMA Performs ==
    ASSUME TypeInv, Turns, NEW c \in Clients, NEW result, Commits(c, result), answers' = answers,
           NEW a, a = call[c].args, a.op \in StateWrites
    PROVE  Board!Perform(a, result)
<1>1. a \in Arguments /\ a \in StateRequests /\ PluginOf(a) = "state"
  <2>1. a \in Arguments
    BY DEF Commits, TypeInv, Course
  <2>. QED
    BY <2>1, ArgumentFacts DEF StateRequests
<1>2. \A r \in receipts : ~(r.plugin = "state" /\ r.args.rid = a.rid)
  BY <1>1 DEF Turns, TurnOf, Commits
<1>3. ASSUME NEW d \in Done(receipts) PROVE d.args.rid # a.rid
  <2>1. PICK r \in receipts : r.args \in StateRequests /\ d.args = r.args
    BY <1>3 DEF Done
  <2>2. r.plugin = "state"
    BY <2>1, ArgumentFacts DEF Turns, StateRequests
  <2>. QED
    BY <1>2, <2>1, <2>2
<1>4. PICK x : x = [plugin |-> PluginOf(a), args |-> a, result |-> result]
  OBVIOUS
<1>5. receipts' = receipts \cup {x} /\ x.args = a /\ x.result = result
  BY <1>4 DEF Commits
<1>6. Done(receipts') = Done(receipts) \cup {[args |-> a, result |-> result]}
  BY <1>1, <1>5, DoneGrows
<1>. QED
  BY <1>1, <1>3, <1>6 DEF Board!Perform

LEMMA DefinesImplements ==
    ASSUME TypeInv, Turns, NEW c \in Clients, Defines(c), answers' = answers
    PROVE  \E a \in StateRequests : Board!Define(a)
<1>1. PICK a : a = call[c].args
  OBVIOUS
<1>2. /\ a \in Arguments /\ a.op = "define" /\ a.op \in StateWrites
      /\ CanWrite(a) /\ definitions' = definitions \cup {a.definition} /\ markers' = markers
  BY <1>1 DEF Defines, Commits, TypeInv, Course, StateWrites
<1>3. Board!Perform(a, None)
  BY <1>1, <1>2, Performs DEF Defines
<1>4. \A d \in definitions : d.id # a.definition.id
  BY <1>2 DEF CanWrite, Stored
<1>5. Board!Define(a)
  BY <1>2, <1>3, <1>4 DEF Board!Define
<1>. QED
  BY <1>2, <1>5 DEF StateRequests

LEMMA CreatesImplements ==
    ASSUME TypeInv, Turns, NEW c \in Clients, Creates(c), answers' = answers
    PROVE  \E a \in StateRequests : Board!Create(a)
<1>1. PICK a : a = call[c].args
  OBVIOUS
<1>2. PICK d \in Stored(a.def) : Puts(c, Initial(d, a), None) /\ a.op = "create"
  BY <1>1 DEF Creates
<1>3. PICK n : n = Initial(d, a)
  OBVIOUS
<1>4. /\ a \in Arguments /\ a.op \in StateWrites /\ Commits(c, n) /\ CanWrite(a)
      /\ markers' = [markers EXCEPT ![a.marker] = n] /\ definitions' = definitions
      /\ d \in definitions /\ d.id = a.def
  BY <1>1, <1>2, <1>3 DEF Puts, Commits, TypeInv, Course, StateWrites, Stored
<1>5. Board!Perform(a, n)
  BY <1>1, <1>4, Performs
<1>6. Board!Place(a, n)
  BY <1>4, <1>5 DEF Board!Place
<1>7. markers[a.marker] = None
  BY <1>2, <1>4 DEF CanWrite
<1>8. Board!Create(a)
  BY <1>2, <1>3, <1>4, <1>6, <1>7 DEF Board!Create, Initial
<1>. QED
  BY <1>4, <1>8 DEF StateRequests

LEMMA AdvancesImplements ==
    ASSUME TypeInv, Turns, NEW c \in Clients, Advances(c), answers' = answers
    PROVE  \E a \in StateRequests : Board!Advance(a)
<1>0. Types /\ Declared
  BY DEF TypeInv
<1>1. PICK a : a = call[c].args
  OBVIOUS
<1>2. PICK m : m = markers[a.marker]
  OBVIOUS
<1>3. PICK n : n = Advanced(m, a.to)
  OBVIOUS
<1>4. /\ a \in Arguments /\ a.op = "advance" /\ a.op \in StateWrites /\ Commits(c, n)
      /\ CanAdvance(a) /\ m # None
      /\ markers' = [markers EXCEPT ![a.marker] = n] /\ definitions' = definitions
  BY <1>1, <1>2, <1>3 DEF Advances, Puts, Commits, CanWrite, TypeInv, Course, StateWrites
<1>5. Board!Place(a, n)
  <2>1. Board!Perform(a, n)
    BY <1>1, <1>4, Performs
  <2>. QED
    BY <1>4, <2>1 DEF Board!Place
<1>6. \E d \in definitions : \E i \in DOMAIN d.edges :
        /\ d.id = m.def
        /\ d.edges[i].from = m.state /\ d.edges[i].to = a.to
  <2>1. Stored(m.def) # {} /\ \E e \in Leaving(m) : e.to = a.to
    BY <1>0, <1>2, <1>4, AdvanceFacts
  <2>2. PICK d \in Stored(m.def) : TRUE
    BY <2>1
  <2>3. PICK e \in Leaving(m) : e.to = a.to
    BY <2>1
  <2>4. /\ d \in definitions /\ d \in Definitions /\ d.id = m.def
        /\ e \in ToSet(d.edges) /\ e.from = m.state
    BY <1>0, <2>2, <2>3, LookedUp
  <2>. QED
    BY <2>3, <2>4, DefinitionFacts
<1>7. m.revision = a.expected
  BY <1>2, <1>4 DEF CanAdvance
<1>8. Board!Advance(a)
  BY <1>2, <1>3, <1>4, <1>5, <1>6, <1>7 DEF Board!Advance, Advanced
<1>. QED
  BY <1>4, <1>8 DEF StateRequests

LEMMA StepImplements ==
    ASSUME TypeInv, Turns, [Next]_vars
    PROVE  [Board!Next]_(Board!vars)
<1>1. CASE UNCHANGED vars
  BY <1>1 DEF vars, store, Board!vars
<1>2. CASE Next /\ answers' = answers
  <2>1. CASE Calm
    BY <1>2, <2>1 DEF Calm, Board!vars
  <2>2. ASSUME NEW c \in Clients, Attaches(c) PROVE UNCHANGED Board!vars
    <3>1. PICK a : a = call[c].args
      OBVIOUS
    <3>2. a \notin StateRequests
      BY <2>2, <3>1 DEF Attaches, StateRequests, StateWrites, Attachments
    <3>3. PICK x : x = [plugin |-> PluginOf(a), args |-> a, result |-> None]
      OBVIOUS
    <3>4. receipts' = receipts \cup {x} /\ x.args = a
      BY <2>2, <3>1, <3>3 DEF Attaches, Commits
    <3>5. Done(receipts') = Done(receipts)
      BY <3>2, <3>4, DoneGrows
    <3>. QED
      BY <1>2, <2>2, <3>5 DEF Attaches, Board!vars
  <2>3. ASSUME NEW c \in Clients, Defines(c) \/ Creates(c) \/ Advances(c) PROVE Board!Next
    BY <1>2, <2>3, DefinesImplements, CreatesImplements, AdvancesImplements DEF Board!Next
  <2>. QED
    BY <1>2, <2>1, <2>2, <2>3, StoreCases DEF Stored_
<1>3. ASSUME NEW c \in Clients, NEW result, Answers(c, result)
      PROVE  [Board!Next]_(Board!vars)
  <2>1. PICK a : a = call[c].args
    OBVIOUS
  <2>2. PICK x : x = [args |-> a, result |-> result]
    OBVIOUS
  <2>3. Calm /\ answers' = answers \cup {x} /\ x.args = a /\ x.result = result
    BY <1>3, <2>1, <2>2 DEF Answers
  <2>4. CASE a \in StateRequests
    <3>1. Done(answers') = Done(answers) \cup {x}
      BY <2>2, <2>3, <2>4, DoneGrows
    <3>2. x \in Done(receipts)
      <4>1. PICK r \in receipts : r.args = a /\ r.result = result
        BY <1>3, <2>1 DEF Answers
      <4>. QED
        BY <2>2, <2>4, <4>1 DEF Done
    <3>3. Board!Answer
      BY <2>3, <3>1, <3>2 DEF Board!Answer, Calm
    <3>. QED
      BY <3>3 DEF Board!Next
  <2>5. CASE a \notin StateRequests
    <3>1. Done(answers') = Done(answers)
      BY <2>3, <2>5, DoneGrows
    <3>. QED
      BY <2>3, <3>1 DEF Calm, Board!vars
  <2>. QED
    BY <2>4, <2>5
<1>. QED
  BY <1>1, <1>2, <1>3, AnswerCases

(* Seen from its clients the plugin is a set of versioned markers: every   *)
(* move is one atomic compare-and-swap of one request, done at most once,  *)
(* and an answer repeats what was done, also for a request that is sent    *)
(* again after a crash (the plugin_receipt rows of Host's plugin_db).      *)
THEOREM MarkersAreVersioned == Spec => ImplementsVersionedMarkers
<1>1. Init => Board!Init
  BY DEF Init, Board!Init, Done
<1>2. TypeInv /\ Turns /\ [Next]_vars => [Board!Next]_(Board!vars)
  BY StepImplements
<1>. QED
  BY <1>1, <1>2, TypeAlways, TurnsAlways, PTL DEF Spec, Board!Spec, ImplementsVersionedMarkers

=============================================================================
