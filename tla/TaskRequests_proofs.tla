------------------------- MODULE TaskRequests_proofs -------------------------
(***************************************************************************)
(* Proofs about TaskRequests, for any number of threads, request ids,      *)
(* tasks and participants, and for every combination of faults.            *)
(***************************************************************************)
EXTENDS TaskRequests, TLAPS

LEMMA NoneFacts ==
    /\ None \notin RequestIds /\ None \notin Tasks /\ None \notin Participants
    /\ None \notin Threads /\ None \notin Statuses /\ None \notin Outcomes
  BY NoneAssumption

(* A thread in a call serves one of Calls.                                 *)
LEMMA CallFacts ==
    ASSUME TypeOK, Control, NEW th \in Threads, pc[th] # "idle"
    PROVE  /\ call[th] \in Calls
           /\ call[th] # None
           /\ call[th].rid \in RequestIds
           /\ call[th].sem \in Semantics
           /\ WellFormed(call[th].sem)
           /\ call[th] = [rid |-> call[th].rid, sem |-> call[th].sem]
<1>1. call[th] \in Calls
  BY DEF TypeOK, Control
<1>2. call[th] \in [rid: RequestIds, sem: Semantics]
  BY <1>1, CallsAssumption
<1> QED
  BY <1>1, <1>2, CallsAssumption DEF Control

Returns(th) == Return(th, TRUE) \/ Return(th, FALSE)

(* A call that records its verdict returns with success or with an error.  *)
LEMMA ReturnVerdict ==
    ASSUME NEW th \in Threads, Return(th, Succeeds(verdict[th]))
    PROVE  Returns(th)
  BY DEF Return, Returns, Succeeds

LEMMA ReturnTypes ==
    ASSUME TypeOK, NEW th \in Threads, call[th] \in Calls, Returns(th)
    PROVE  /\ pc' \in [Threads -> Phases]
           /\ call' \in [Threads -> Calls \cup {None}]
           /\ verdict' \in [Threads -> Verdicts]
           /\ reqLock' \in [RequestIds -> Threads \cup {None}]
           /\ storeLock' \in Threads \cup {None}
           /\ told' \subseteq Calls
  BY DEF TypeOK, Returns, Return, Goto, Unlock, Phases, Verdicts

LEMMA ConcludeTypes ==
    ASSUME TypeOK, NEW th \in Threads, NEW v \in Verdicts, Conclude(th, v),
           child' \in [RequestIds -> Child \cup {None}]
    PROVE  TypeOK'
  BY DEF TypeOK, Conclude, Goto, Phases, durable, history

(* Every step of a thread keeps the types.                                 *)
LEMMA TypeOfThreadStep ==
    ASSUME TypeOK, Control, NEW th \in Threads,
           Lock(th) \/ Proceed(th) \/ Fail(th)
    PROVE  TypeOK'
<1>1. pc[th] # "idle"
  BY DEF Lock, Proceed, Fail, Acquire, EnterStore, Replay, Reconcile, Unproved,
     LookConflict, LookRejected, LookReady, RecordIntent, Reject, FoundCreated,
     Spawn, RunSucceeds, RunFails, ReadBack, Inspect, Record, RecordProved,
     LookFails, RecordIntentFails, StoreGone, NotLaunched, ReadBackFails,
     InspectFails, RecordFails, ReplayFails, ReconcileFails, RecordProvedFails
<1>2. /\ call[th] \in Calls
      /\ call[th].rid \in RequestIds
      /\ call[th].sem \in Semantics
      /\ WellFormed(call[th].sem)
  BY <1>1, CallFacts
<1> DEFINE r == call[th].rid
           s == call[th].sem
\* Steps that only move on.
<1>a. ASSUME Acquire(th) \/ EnterStore(th) \/ Reconcile(th) \/ LookReady(th)
             \/ NotLaunched(th)
      PROVE  TypeOK'
  BY <1>a, <1>2 DEF TypeOK, Acquire, EnterStore, Reconcile, LookReady, NotLaunched,
     Goto, NextPhase, Phases, durable, history
\* Steps that only return.
<1>b. ASSUME LookConflict(th) \/ LookRejected(th) \/ LookFails(th) \/ Replay(th)
             \/ ReplayFails(th) \/ Unproved(th) \/ ReconcileFails(th)
             \/ RecordFails(th)
      PROVE  TypeOK'
  <2>1. Returns(th)
    BY <1>b, ReturnVerdict DEF LookConflict, LookRejected, LookFails, Replay,
       ReplayFails, Unproved, ReconcileFails, RecordFails, Returns
  <2>2. UNCHANGED <<receipts, issue, created, registered, child, spawns, applied>>
    BY <1>b DEF LookConflict, LookRejected, LookFails, Replay, ReplayFails,
       Unproved, ReconcileFails, RecordFails, durable
  <2> QED
    BY <1>2, <2>1, <2>2, ReturnTypes DEF TypeOK
\* Steps that may write a receipt.
<1>c. ASSUME RecordIntent(th) \/ RecordIntentFails(th) \/ Record(th)
             \/ RecordProved(th) \/ RecordProvedFails(th)
      PROVE  TypeOK'
  <2>1. NewReceipt(call[th], "task_intent", "pending") \in Receipt
    BY <1>2 DEF NewReceipt, Receipt, Kinds, Outcomes
  <2>2. ASSUME NEW v \in Outcomes
        PROVE  ReceiptFor(call[th], v) \in Receipt
    BY <1>2 DEF ReceiptFor, NewReceipt, Receipt, Kinds, Outcomes
  <2>3. CASE RecordIntent(th)
    BY <2>1, <2>3 DEF TypeOK, RecordIntent, Goto, Phases, history
  <2>4. CASE RecordIntentFails(th)
    <3>1. receipts' \subseteq Receipt
      BY <2>1, <2>4 DEF TypeOK, RecordIntentFails
    <3> QED
      BY <1>2, <2>4, <3>1, ReturnTypes DEF TypeOK, RecordIntentFails, Returns
  <2>5. CASE Record(th)
    <3>0. verdict[th] \in Outcomes
      BY <2>5 DEF Record, TypeOK, Control, Verdicts, Outcomes
    <3>1. receipts' \subseteq Receipt
      BY <2>2, <2>5, <3>0 DEF TypeOK, Record
    <3> QED
      BY <1>2, <2>5, <3>1, ReturnTypes, ReturnVerdict DEF TypeOK, Record
  <2>6. CASE RecordProved(th) \/ RecordProvedFails(th)
    <3>0. ReceiptFor(call[th], "observed") \in Receipt
      BY <2>2 DEF Outcomes
    <3>1. receipts' \subseteq Receipt
      BY <2>6, <3>0 DEF TypeOK, RecordProved, RecordProvedFails
    <3>2. Returns(th)
      BY <2>6 DEF RecordProved, RecordProvedFails, Returns
    <3> QED
      BY <1>2, <2>6, <3>1, <3>2, ReturnTypes
      DEF TypeOK, RecordProved, RecordProvedFails
  <2> QED
    BY <1>c, <2>3, <2>4, <2>5, <2>6
\* Steps that leave the store.
<1>d. ASSUME StoreGone(th) \/ Reject(th) \/ FoundCreated(th) \/ ReadBack(th)
             \/ ReadBackFails(th) \/ Inspect(th) \/ InspectFails(th)
      PROVE  TypeOK'
  <2>1. PICK v \in Verdicts : Conclude(th, v)
    BY <1>d DEF StoreGone, Reject, FoundCreated, ReadBack, ReadBackFails, Inspect,
       InspectFails, Verdicts, Outcomes
  <2>2. child' = child
    BY <1>d DEF StoreGone, Reject, FoundCreated, ReadBack, ReadBackFails, Inspect,
       InspectFails
  <2> QED
    BY <2>1, <2>2, ConcludeTypes DEF TypeOK
<1>e. ASSUME Spawn(th) PROVE TypeOK'
  <2>1. s \in Command
    BY <1>e, <1>2 DEF Spawn, Ready, Admissible, Command
  <2>2. [sem |-> s, committed |-> FALSE] \in Child
    BY <2>1 DEF Child
  <2> QED
    BY <1>e, <1>2, <2>2 DEF TypeOK, Spawn, Goto, Phases, durable
<1>f. ASSUME RunSucceeds(th) \/ RunFails(th) PROVE TypeOK'
  BY <1>f, <1>2 DEF TypeOK, RunSucceeds, RunFails, Goto, Phases, durable, history
<1> QED
  BY <1>a, <1>b, <1>c, <1>d, <1>e, <1>f DEF Lock, Proceed, Fail

(* What br writes is an issue table again.                                 *)
LEMMA BrWritesType ==
    ASSUME issue \in [Tasks -> Issue], NEW s \in Command
    PROVE  BrWrites(s) \in [Tasks -> Issue]
<1>1. s.op # "create" => s.task \in Tasks
  BY NoneFacts DEF Command, Semantics, WellFormed
<1>2. s.op = "claim" => s.who \in Participants
  BY NoneFacts DEF Command, Semantics, WellFormed
<1>3. s.op = "update" => s.status \in Statuses
  BY DEF Command, Semantics
<1> QED
  BY <1>1, <1>2, <1>3 DEF BrWrites, Issue, Statuses, Command, Semantics, Operations

LEMMA TypeOfStep ==
    ASSUME TypeOK, Control, [Next]_vars
    PROVE  TypeOK'
<1>1. ASSUME NEW th \in Threads, Lock(th) \/ Proceed(th) \/ Fail(th)
      PROVE  TypeOK'
  BY <1>1, TypeOfThreadStep
<1>2. ASSUME NEW th \in Threads, NEW c \in Calls, Begin(th, c)
      PROVE  TypeOK'
  BY <1>2 DEF TypeOK, Begin, Goto, Phases, durable, history
<1>3. ASSUME NEW r \in RequestIds, BrCommits(r)
      PROVE  TypeOK'
  <2>1. child[r] \in Child
    BY <1>3 DEF TypeOK, BrCommits
  <2>2. child[r].sem \in Command
    BY <2>1 DEF Child
  <2>3. [child[r] EXCEPT !.committed = TRUE] \in Child
    BY <2>1 DEF Child
  <2>4. issue' \in [Tasks -> Issue]
    BY <1>3, <2>2, BrWritesType DEF BrCommits, TypeOK
  <2>5. child' \in [RequestIds -> Child \cup {None}]
    BY <1>3, <2>3 DEF BrCommits, TypeOK
  <2> QED
    BY <1>3, <2>4, <2>5 DEF TypeOK, BrCommits, volatile
<1>4. ASSUME NEW r \in RequestIds, OrphanExits(r) \/ ExternalCreate(r)
      PROVE  TypeOK'
  BY <1>4 DEF TypeOK, OrphanExits, ExternalCreate, durable, volatile, history
<1>5. ASSUME NEW p \in Participants, Leave(p) \/ Resume(p)
      PROVE  TypeOK'
  BY <1>5 DEF TypeOK, Leave, Resume, volatile, history
<1>6. ASSUME NEW t \in Tasks, External(t)
      PROVE  TypeOK'
  BY <1>6 DEF TypeOK, External, volatile, history
<1>7. CASE Crash
  BY <1>7 DEF TypeOK, Crash, Phases, Verdicts, durable, history
<1>8. CASE UNCHANGED vars
  BY <1>8 DEF TypeOK, vars, durable, volatile, history
<1> QED
  BY <1>1, <1>2, <1>3, <1>4, <1>5, <1>6, <1>7, <1>8 DEF Next

-----------------------------------------------------------------------------
(* The request lock: two threads past "acquire" serve different requests.  *)
LEMMA Apart ==
    ASSUME TypeOK, Control, NEW th \in Threads, NEW o \in Threads, o # th,
           pc[th] \notin {"idle", "acquire"}, pc[o] \notin {"idle", "acquire"}
    PROVE  call[o].rid # call[th].rid
  BY DEF Control

\* Threads other than th, and the locks they hold, are as before.
Frame(th) ==
    /\ \A o \in Threads : o # th =>
        pc'[o] = pc[o] /\ call'[o] = call[o] /\ verdict'[o] = verdict[o]
    /\ \A r \in RequestIds : reqLock[r] \notin {None, th} => reqLock'[r] = reqLock[r]

\* Steps of a thread within its call, that write neither receipts nor answers.
Moves(th) ==
    \/ EnterStore(th) \/ Reconcile(th) \/ LookReady(th) \/ NotLaunched(th)
    \/ StoreGone(th) \/ Reject(th) \/ FoundCreated(th) \/ ReadBack(th)
    \/ ReadBackFails(th) \/ Inspect(th) \/ InspectFails(th)
    \/ RunSucceeds(th) \/ RunFails(th)

\* Steps that end a call and write no receipt.
Leaves(th) ==
    \/ LookConflict(th) \/ LookRejected(th) \/ LookFails(th) \/ Replay(th)
    \/ ReplayFails(th) \/ Unproved(th) \/ ReconcileFails(th) \/ RecordFails(th)

\* Steps that end a call and may write a receipt.
Writes(th) ==
    RecordIntentFails(th) \/ Record(th) \/ RecordProved(th) \/ RecordProvedFails(th)

LEMMA ThreadSteps ==
    ASSUME NEW th \in Threads, Lock(th) \/ Proceed(th) \/ Fail(th)
    PROVE  \/ Acquire(th) \/ Moves(th) \/ Leaves(th)
           \/ RecordIntent(th) \/ Writes(th) \/ Spawn(th)
  BY DEF Lock, Proceed, Fail, Moves, Leaves, Writes

(* What a move does: the next phase and what is left alone.                *)
LEMMA MoveFacts ==
    ASSUME IInv, NEW th \in Threads, Moves(th)
    PROVE  /\ Frame(th)
           /\ pc[th] \notin {"idle", "acquire"}
           /\ pc'[th] \notin {"idle", "acquire", "look"}
           /\ pc'[th] = "intend" => ReceiptsOf(call[th].rid) = {}
           /\ pc'[th] # "intend" => ReceiptsOf(call[th].rid) # {}
           /\ pc'[th] = "check" => pc[th] = "enter"
           /\ pc'[th] # "enter"
           /\ pc'[th] = "record" => verdict'[th] # None
           /\ \A m \in ReceiptsOf(call[th].rid) : m.sem = call[th].sem
           /\ UNCHANGED <<receipts, call, reqLock, spawns, applied, told>>
           /\ \A r \in RequestIds : child'[r] \in {child[r], None}
<1> USE DEF IInv
<1>1. CASE EnterStore(th) \/ Reconcile(th) \/ NotLaunched(th)
  BY <1>1 DEF TypeOK, Pending, Frame, EnterStore, Reconcile, NotLaunched, Goto, durable, history
<1>2. CASE LookReady(th)
  BY <1>2 DEF TypeOK, Pending, Frame, LookReady, NextPhase, Results, Conflict, Goto, durable, history
<1>3. CASE \/ StoreGone(th) \/ Reject(th) \/ FoundCreated(th) \/ ReadBack(th)
           \/ ReadBackFails(th) \/ Inspect(th) \/ InspectFails(th)
  <2>1. PICK v \in Verdicts \ {None} : Conclude(th, v)
    BY <1>3, NoneFacts DEF StoreGone, Reject, FoundCreated, ReadBack,
       ReadBackFails, Inspect, InspectFails, Verdicts, Outcomes
  <2>2. child' = child /\ pc[th] \notin {"idle", "acquire", "look", "intend"}
    BY <1>3 DEF StoreGone, Reject, FoundCreated, ReadBack, ReadBackFails, Inspect,
       InspectFails
  <2> QED
    BY <2>1, <2>2 DEF TypeOK, Pending, Frame, Conclude, Goto, durable, history
<1>4. CASE RunSucceeds(th) \/ RunFails(th)
  BY <1>4 DEF TypeOK, Pending, Frame, RunSucceeds, RunFails, Goto, durable, history
<1> QED
  BY <1>1, <1>2, <1>3, <1>4 DEF Moves

\* What the four new parts of IInv say, for the step lemmas below.
Rest == Control /\ Pending /\ OneBrPerRequest /\ OneMeaningPerRequest

LEMMA RestAcquire ==
    ASSUME IInv, NEW th \in Threads, Acquire(th)
    PROVE  Rest'
<1> USE DEF IInv
<1>0. pc[th] = "acquire"
  BY DEF Acquire
<1>1. /\ call[th] # None /\ call[th].rid \in RequestIds
  BY <1>0, CallFacts
<1>2. Control'
  <2>1. reqLock[call[th].rid] = None /\ th # None
    BY NoneFacts DEF Acquire
  <2> QED
    BY <1>1, <2>1, NoneFacts DEF TypeOK, Control, Acquire, Goto
<1>3. /\ \A o \in Threads : o # th => pc'[o] = pc[o]
      /\ pc'[th] = "look"
      /\ UNCHANGED <<call, receipts, spawns, child, told>>
  BY DEF TypeOK, Acquire, Goto, durable, history
<1>4. Pending'
  BY <1>3 DEF Pending, ReceiptsOf
<1>5. OneBrPerRequest' /\ OneMeaningPerRequest'
  BY <1>3 DEF OneBrPerRequest, OneMeaningPerRequest, ReceiptsOf
<1> QED
  BY <1>2, <1>4, <1>5 DEF Rest

LEMMA RestMoves ==
    ASSUME IInv, NEW th \in Threads, Moves(th)
    PROVE  Rest'
<1> USE DEF IInv
<1>1. /\ Frame(th)
      /\ pc[th] \notin {"idle", "acquire"}
      /\ pc'[th] \notin {"idle", "acquire", "look"}
      /\ pc'[th] = "intend" => ReceiptsOf(call[th].rid) = {}
      /\ pc'[th] # "intend" => ReceiptsOf(call[th].rid) # {}
      /\ pc'[th] = "check" => pc[th] = "enter"
      /\ pc'[th] # "enter"
      /\ pc'[th] = "record" => verdict'[th] # None
      /\ \A m \in ReceiptsOf(call[th].rid) : m.sem = call[th].sem
      /\ UNCHANGED <<receipts, call, reqLock, spawns, applied, told>>
      /\ \A r \in RequestIds : child'[r] \in {child[r], None}
  BY MoveFacts
<1>2. call[th].rid \in RequestIds
  BY <1>1, CallFacts
<1>3. Control'
  BY <1>1 DEF Control, Frame
<1>4. Pending'
  <2>1. ASSUME NEW r \in RequestIds, spawns[r] > 0
        PROVE  ReceiptsOf(r) # {}
    BY <2>1 DEF Pending
  <2>2. pc'[th] = "intend" => spawns[call[th].rid] = 0
    BY <1>1, <1>2, <2>1 DEF TypeOK
  <2>3. pc'[th] = "check" => spawns[call[th].rid] = 0
    BY <1>1 DEF Pending
  <2> QED
    BY <1>1, <2>1, <2>2, <2>3 DEF Pending, Frame, ReceiptsOf
<1>5. OneBrPerRequest' /\ OneMeaningPerRequest'
  BY <1>1 DEF OneBrPerRequest, OneMeaningPerRequest, ReceiptsOf
<1> QED
  BY <1>3, <1>4, <1>5 DEF Rest

LEMMA RestSpawn ==
    ASSUME IInv, NEW th \in Threads, Spawn(th)
    PROVE  Rest'
<1> USE DEF IInv
<1> DEFINE r == call[th].rid
<1>0. pc[th] = "check"
  BY DEF Spawn
<1>1. /\ call[th] # None /\ r \in RequestIds
      /\ \A m \in ReceiptsOf(r) : m.sem = call[th].sem
      /\ ReceiptsOf(r) # {}
      /\ spawns[r] = 0
  BY <1>0, CallFacts DEF Pending
<1>2. /\ Frame(th) /\ pc'[th] = "run"
      /\ UNCHANGED <<receipts, call, reqLock, told>>
      /\ spawns' = [spawns EXCEPT ![r] = 1]
      /\ child' = [child EXCEPT ![r] = [sem |-> call[th].sem, committed |-> FALSE]]
  BY <1>1 DEF Spawn, Frame, Goto, TypeOK, durable
<1>3. Control'
  BY <1>0, <1>2 DEF Control, Frame
<1>4. Pending'
  <2>1. ASSUME NEW o \in Threads, o # th, pc[o] \notin {"idle", "acquire"}
        PROVE  spawns'[call[o].rid] = spawns[call[o].rid]
    BY <1>0, <1>1, <1>2, <2>1, Apart, CallFacts DEF TypeOK
  <2> QED
    BY <1>1, <1>2, <2>1 DEF TypeOK, Pending, Frame, ReceiptsOf
<1>5. OneBrPerRequest'
  BY <1>1, <1>2 DEF OneBrPerRequest, TypeOK
<1>6. OneMeaningPerRequest'
  BY <1>1, <1>2 DEF OneMeaningPerRequest, TypeOK, ReceiptsOf
<1> QED
  BY <1>3, <1>4, <1>5, <1>6 DEF Rest

(* A call ends and no receipt is written.                                  *)
LEMMA LeaveFacts ==
    ASSUME IInv, NEW th \in Threads, Leaves(th)
    PROVE  /\ Frame(th) /\ pc'[th] = "idle"
           /\ pc[th] \notin {"idle", "acquire"}
           /\ UNCHANGED <<receipts, child, spawns, applied, issue, created>>
           /\ told' \in {told, told \cup {call[th]}}
           /\ told' # told => pc[th] \in {"record", "replay"}
           /\ told' # told => pc[th] = "replay" \/ Succeeds(verdict[th])
<1> USE DEF IInv
<1>1. Returns(th) /\ pc[th] \notin {"idle", "acquire"}
  BY ReturnVerdict DEF Leaves, LookConflict, LookRejected, LookFails, Replay,
     ReplayFails, Unproved, ReconcileFails, RecordFails, Returns
<1>2. Frame(th) /\ pc'[th] = "idle" /\ told' \in {told, told \cup {call[th]}}
  BY <1>1 DEF Returns, Return, Goto, Unlock, Frame, TypeOK
<1>3. UNCHANGED <<receipts, child, spawns, applied, issue, created>>
  BY DEF Leaves, LookConflict, LookRejected, LookFails, Replay, ReplayFails,
     Unproved, ReconcileFails, RecordFails, durable
<1>4. /\ told' # told => pc[th] \in {"record", "replay"}
      /\ told' # told => pc[th] = "replay" \/ Succeeds(verdict[th])
  BY DEF Leaves, LookConflict, LookRejected, LookFails, Replay, ReplayFails,
     Unproved, ReconcileFails, RecordFails, Return
<1> QED
  BY <1>1, <1>2, <1>3, <1>4

LEMMA RestLeaves ==
    ASSUME IInv, NEW th \in Threads, Leaves(th)
    PROVE  Rest'
<1> USE DEF IInv
<1>1. /\ Frame(th) /\ pc'[th] = "idle"
      /\ pc[th] \notin {"idle", "acquire"}
      /\ UNCHANGED <<receipts, child, spawns>>
      /\ told' \in {told, told \cup {call[th]}}
      /\ told' # told => pc[th] \in {"record", "replay"}
  BY LeaveFacts
<1>2. \A o \in Threads : pc[o] \notin {"idle", "acquire"} => call[o].rid \in RequestIds
  BY CallFacts
<1>3. Control'
  BY <1>1, <1>2, NoneFacts, Apart DEF Control, Frame
<1>4. Pending'
  BY <1>1 DEF Pending, Frame, ReceiptsOf
<1>5. OneBrPerRequest' /\ OneMeaningPerRequest'
  BY <1>1 DEF OneBrPerRequest, OneMeaningPerRequest, Pending, ReceiptsOf
<1> QED
  BY <1>3, <1>4, <1>5 DEF Rest

(* An intent is written: the request had no receipt, and now has one.      *)
LEMMA RestIntent ==
    ASSUME IInv, NEW th \in Threads, RecordIntent(th)
    PROVE  Rest'
<1> USE DEF IInv
<1> DEFINE r == call[th].rid
           new == NewReceipt(call[th], "task_intent", "pending")
<1>0. pc[th] = "intend"
  BY DEF RecordIntent
<1>1. r \in RequestIds /\ new.rid = r /\ new.sem = call[th].sem /\ spawns[r] = 0
      /\ ReceiptsOf(r) = {}
  BY <1>0, CallFacts DEF NewReceipt, Pending
<1>2. /\ Frame(th) /\ pc'[th] = "enter"
      /\ UNCHANGED <<call, reqLock, told, spawns, child>>
      /\ receipts' = receipts \cup {new}
  BY DEF RecordIntent, Frame, Goto, TypeOK, history
<1> HIDE DEF new
<1>3. Control'
  BY <1>0, <1>2 DEF Control, Frame
<1>4. Pending'
  <2>1. ASSUME NEW o \in Threads, o # th, pc[o] \notin {"idle", "acquire"}
        PROVE  call[o].rid # r
    BY <1>0, <2>1, Apart
  <2> QED
    BY <1>1, <1>2, <2>1 DEF Pending, Frame, ReceiptsOf
<1>5. OneBrPerRequest' /\ OneMeaningPerRequest'
  BY <1>1, <1>2 DEF OneBrPerRequest, OneMeaningPerRequest, ReceiptsOf
<1> QED
  BY <1>3, <1>4, <1>5 DEF Rest

(* A call ends and may leave a receipt, which says what the call says.     *)
LEMMA WriteFacts ==
    ASSUME IInv, NEW th \in Threads, Writes(th)
    PROVE  /\ Frame(th) /\ pc'[th] = "idle"
           /\ pc[th] \notin {"idle", "acquire", "look"}
           /\ UNCHANGED <<child, spawns, applied, issue, created>>
           /\ told' \in {told, told \cup {call[th]}}
           /\ \/ receipts' = receipts /\ told' = told
              \/ /\ receipts' = receipts \cup {NewReceipt(call[th], "task_intent", "pending")}
                 /\ told' = told
              \/ \E v \in Outcomes : receipts' = receipts \cup {ReceiptFor(call[th], v)}
<1> USE DEF IInv
<1>1. Returns(th) /\ pc[th] \notin {"idle", "acquire", "look"}
  BY ReturnVerdict DEF Writes, RecordIntentFails, Record, RecordProved,
     RecordProvedFails, Returns
<1>2. Frame(th) /\ pc'[th] = "idle" /\ told' \in {told, told \cup {call[th]}}
  BY <1>1 DEF Returns, Return, Goto, Unlock, Frame, TypeOK
<1>3. UNCHANGED <<child, spawns, applied, issue, created>>
  BY DEF Writes, RecordIntentFails, Record, RecordProved, RecordProvedFails
<1>4. CASE RecordIntentFails(th)
  BY <1>1, <1>2, <1>3, <1>4 DEF RecordIntentFails, Return
<1>5. CASE Record(th)
  <2>1. verdict[th] \in Outcomes
    BY <1>5 DEF Record, TypeOK, Control, Verdicts
  <2> QED
    BY <1>1, <1>2, <1>3, <1>5, <2>1 DEF Record
<1>6. CASE RecordProved(th) \/ RecordProvedFails(th)
  <2>1. "observed" \in Outcomes
    BY DEF Outcomes
  <2> QED
    BY <1>1, <1>2, <1>3, <1>6, <2>1 DEF RecordProved, RecordProvedFails, Return
<1> QED
  BY <1>4, <1>5, <1>6 DEF Writes

LEMMA RestWrites ==
    ASSUME IInv, NEW th \in Threads, Writes(th)
    PROVE  Rest'
<1> USE DEF IInv
<1> DEFINE r == call[th].rid
<1>1. /\ Frame(th) /\ pc'[th] = "idle"
      /\ pc[th] \notin {"idle", "acquire", "look"}
      /\ UNCHANGED <<child, spawns>>
      /\ told' \in {told, told \cup {call[th]}}
  BY WriteFacts
<1>2. \A o \in Threads : pc[o] \notin {"idle", "acquire"} => call[o].rid \in RequestIds
  BY CallFacts
<1>3. \/ receipts' = receipts /\ told' = told
      \/ \E m \in Receipt : /\ m.rid = r /\ m.sem = call[th].sem
                            /\ receipts' = receipts \cup {m}
  <2>1. call[th].rid \in RequestIds /\ call[th].sem \in Semantics
    BY <1>1, CallFacts
  <2>2. LET m == NewReceipt(call[th], "task_intent", "pending")
        IN  m \in Receipt /\ m.rid = r /\ m.sem = call[th].sem
    BY <2>1 DEF NewReceipt, Receipt, Kinds, Outcomes
  <2>3. ASSUME NEW v \in Outcomes
        PROVE  LET m == ReceiptFor(call[th], v)
               IN  m \in Receipt /\ m.rid = r /\ m.sem = call[th].sem
    BY <2>1 DEF ReceiptFor, NewReceipt, Receipt, Kinds, Outcomes
  <2> QED
    BY <2>2, <2>3, WriteFacts
<1>4. Control'
  BY <1>1, <1>2, NoneFacts, Apart DEF Control, Frame
<1>5. Pending'
  <2>1. ASSUME NEW o \in Threads, o # th, pc[o] \notin {"idle", "acquire"}
        PROVE  call[o].rid # r
    BY <1>1, <2>1, Apart
  <2> QED
    BY <1>1, <1>3, <2>1 DEF Pending, Frame, ReceiptsOf
<1>6. OneBrPerRequest'
  BY <1>1 DEF OneBrPerRequest
<1>7. OneMeaningPerRequest'
  <2>1. \A m \in ReceiptsOf(r) : m.sem = call[th].sem
    BY <1>1 DEF Pending
  <2> QED
    BY <1>1, <1>3, <2>1 DEF OneMeaningPerRequest, ReceiptsOf, TypeOK
<1> QED
  BY <1>4, <1>5, <1>6, <1>7 DEF Rest

LEMMA RestOfStep ==
    ASSUME IInv, [Next]_vars
    PROVE  Rest'
<1> USE DEF IInv
<1>1. ASSUME NEW th \in Threads, Lock(th) \/ Proceed(th) \/ Fail(th)
      PROVE  Rest'
  BY <1>1, ThreadSteps, RestAcquire, RestMoves, RestLeaves, RestIntent, RestWrites,
     RestSpawn
<1>2. ASSUME NEW th \in Threads, NEW c \in Calls, Begin(th, c)
      PROVE  Rest'
  <2>1. /\ \A o \in Threads : o # th => pc'[o] = pc[o] /\ call'[o] = call[o]
        /\ pc'[th] = "acquire" /\ call'[th] # None
        /\ UNCHANGED <<receipts, child, verdict, reqLock, spawns, told>>
    BY <1>2, CallsAssumption DEF Begin, Goto, TypeOK, durable, history
  <2>2. Control'
    BY <2>1 DEF Control
  <2>3. Pending'
    BY <2>1 DEF Pending, ReceiptsOf
  <2>4. OneBrPerRequest' /\ OneMeaningPerRequest'
    BY <2>1 DEF OneBrPerRequest, OneMeaningPerRequest, ReceiptsOf
  <2> QED
    BY <2>2, <2>3, <2>4 DEF Rest
<1>3. ASSUME \E r \in RequestIds : BrCommits(r) \/ OrphanExits(r) \/ ExternalCreate(r)
      PROVE  Rest'
  <2>1. /\ UNCHANGED <<receipts, pc, call, verdict, reqLock, spawns, told>>
        /\ \A x \in RequestIds : child'[x] # None =>
             child[x] # None /\ child'[x].sem = child[x].sem
    BY <1>3 DEF BrCommits, OrphanExits, ExternalCreate, TypeOK, Child, durable,
       volatile, history
  <2>2. Control' /\ OneBrPerRequest'
    BY <2>1 DEF Control, OneBrPerRequest
  <2>3. Pending'
    BY <2>1 DEF Pending, ReceiptsOf
  <2>4. OneMeaningPerRequest'
    BY <2>1 DEF OneMeaningPerRequest, ReceiptsOf
  <2> QED
    BY <2>2, <2>3, <2>4 DEF Rest
<1>4. CASE \/ \E p \in Participants : Leave(p) \/ Resume(p)
           \/ \E t \in Tasks : External(t)
           \/ UNCHANGED vars
  <2>1. UNCHANGED <<receipts, pc, call, verdict, reqLock, spawns, told, child>>
    BY <1>4 DEF Leave, Resume, External, vars, durable, volatile, history
  <2>2. Control' /\ OneBrPerRequest'
    BY <2>1 DEF Control, OneBrPerRequest
  <2>3. Pending' /\ OneMeaningPerRequest'
    BY <2>1 DEF Pending, OneMeaningPerRequest, ReceiptsOf
  <2> QED
    BY <2>2, <2>3 DEF Rest
<1>5. CASE Crash
  <2>1. /\ \A th \in Threads : pc'[th] = "idle"
        /\ UNCHANGED <<receipts, spawns, told, child>>
    BY <1>5 DEF Crash, durable, history
  <2>2. Control' /\ OneBrPerRequest'
    BY <2>1 DEF Control, OneBrPerRequest
  <2>3. Pending' /\ OneMeaningPerRequest'
    BY <2>1 DEF Pending, OneMeaningPerRequest, ReceiptsOf
  <2> QED
    BY <2>2, <2>3 DEF Rest
<1> QED
  BY <1>1, <1>2, <1>3, <1>4, <1>5 DEF Next

(* IInv holds initially and is kept by every step.                         *)
LEMMA InitIInv == Init => IInv
<1> SUFFICES ASSUME Init PROVE IInv
  OBVIOUS
<1>1. TypeOK
  BY DEF Init, TypeOK, Issue, Statuses, Phases, Verdicts
<1>2. Control /\ Pending
  BY DEF Init, Control, Pending
<1>3. OneBrPerRequest /\ OneMeaningPerRequest
  BY DEF Init, OneBrPerRequest, OneMeaningPerRequest
<1> QED
  BY <1>1, <1>2, <1>3 DEF IInv

LEMMA NextIInv == IInv /\ [Next]_vars => IInv'
  BY TypeOfStep, RestOfStep DEF IInv, Rest

(* The locks, receipts and br processes stay consistent for ever, under    *)
(* crashes, lost receipts, failed reads and external writers.              *)
THEOREM Consistent == Spec => []IInv
  BY InitIInv, NextIInv, PTL DEF Spec

(* Every variable keeps its type.                                          *)
THEOREM TypeCorrect == Spec => []TypeOK
<1>1. IInv => TypeOK
  BY DEF IInv
<1> QED
  BY <1>1, Consistent, PTL

(* br is started at most once for a request id.                            *)
THEOREM AtMostOneBr == Spec => []OneBrPerRequest
<1>1. IInv => OneBrPerRequest
  BY DEF IInv
<1> QED
  BY <1>1, Consistent, PTL

(* A request id never changes what it means.                               *)
THEOREM OneMeaning == Spec => []OneMeaningPerRequest
<1>1. IInv => OneMeaningPerRequest
  BY DEF IInv
<1> QED
  BY <1>1, Consistent, PTL

-----------------------------------------------------------------------------
(* Rejections, while the task can be read ("read" is not among the faults).*)

NoReadFaults == "read" \notin Faults

\* What a move does to what RejectedInv talks about.
LEMMA MoveVerdict ==
    ASSUME NoReadFaults, IInv, RejectedInv, NEW th \in Threads, Moves(th)
    PROVE  /\ (pc'[th] = "record" /\ verdict'[th] = "rejected") =>
                pc[th] \in {"enter", "check"}
           /\ \A m \in ReceiptsOf(call[th].rid) : m.outcome # "rejected"
<1> USE DEF IInv
<1>1. CASE LookReady(th)
  <2>1. \A m \in ReceiptsOf(call[th].rid) : m.outcome = "rejected" => m.kind = "task_result"
    BY DEF RejectedInv, ReceiptsOf
  <2>2. pc'[th] # "record"
    BY <1>1 DEF LookReady, Goto, NextPhase, TypeOK
  <2> QED
    BY <1>1, <2>1, <2>2 DEF LookReady, Results
<1>2. CASE ~LookReady(th)
  <2>1. pc[th] \notin {"idle", "acquire", "look"}
    BY <1>2 DEF Moves, EnterStore, Reconcile, NotLaunched, StoreGone, Reject,
       FoundCreated, ReadBack, ReadBackFails, Inspect, InspectFails, RunSucceeds,
       RunFails
  <2>2. (pc'[th] = "record" /\ verdict'[th] = "rejected") => pc[th] \in {"enter", "check"}
    BY <1>2, NoneFacts DEF Moves, EnterStore, Reconcile, NotLaunched, StoreGone, Reject,
       FoundCreated, ReadBack, ReadBackFails, Inspect, InspectFails, RunSucceeds,
       RunFails, Conclude, Goto, TypeOK, NoReadFaults
  <2> QED
    BY <2>1, <2>2 DEF RejectedInv
<1> QED
  BY <1>1, <1>2

LEMMA RejectedMoves ==
    ASSUME NoReadFaults, IInv, RejectedInv, NEW th \in Threads, Moves(th)
    PROVE  RejectedInv'
<1> USE DEF IInv
<1> DEFINE r == call[th].rid
<1>1. /\ Frame(th)
      /\ pc[th] \notin {"idle", "acquire"}
      /\ pc'[th] = "intend" => ReceiptsOf(r) = {}
      /\ pc'[th] = "check" => pc[th] = "enter"
      /\ pc'[th] # "enter"
      /\ UNCHANGED <<receipts, call, spawns, applied, told>>
      /\ \A x \in RequestIds : child'[x] \in {child[x], None}
  BY MoveFacts
<1>2. r \in RequestIds
  BY <1>1, CallFacts
<1>3. pc'[th] = "intend" => spawns[r] = 0 /\ Untold(r)
  BY <1>1, <1>2 DEF Pending, TypeOK, OneMeaningPerRequest, Untold
<1>4. (pc'[th] = "check" \/ (pc'[th] = "record" /\ verdict'[th] = "rejected")) =>
        spawns[r] = 0 /\ Untold(r)
  BY <1>1, MoveVerdict DEF RejectedInv
<1>5. \A m \in ReceiptsOf(r) : m.outcome # "rejected"
  BY MoveVerdict
<1> QED
  BY <1>1, <1>3, <1>4, <1>5 DEF RejectedInv, Frame, ReceiptsOf, Untold

LEMMA RejectedLeaves ==
    ASSUME IInv, RejectedInv, NEW th \in Threads, Leaves(th)
    PROVE  RejectedInv'
<1> USE DEF IInv
<1>1. /\ Frame(th) /\ pc'[th] = "idle"
      /\ pc[th] \notin {"idle", "acquire"}
      /\ UNCHANGED <<receipts, child, spawns, applied>>
      /\ told' \in {told, told \cup {call[th]}}
      /\ told' # told => pc[th] \in {"record", "replay"}
  BY LeaveFacts
<1>2. ASSUME NEW o \in Threads, o # th, pc[o] \notin {"idle", "acquire"}
      PROVE  call[o].rid # call[th].rid
  BY <1>1, <1>2, Apart
<1>3. told' # told => \A m \in ReceiptsOf(call[th].rid) : m.outcome # "rejected"
  BY <1>1 DEF RejectedInv
<1>4. \A m \in receipts : m.outcome = "rejected" => Untold(m.rid)'
  BY <1>1, <1>3 DEF RejectedInv, Untold, ReceiptsOf
<1> QED
  BY <1>1, <1>2, <1>4 DEF RejectedInv, Frame, ReceiptsOf, Untold

LEMMA RejectedIntent ==
    ASSUME IInv, RejectedInv, NEW th \in Threads, RecordIntent(th)
    PROVE  RejectedInv'
<1> USE DEF IInv
<1> DEFINE new == NewReceipt(call[th], "task_intent", "pending")
<1>1. /\ Frame(th) /\ pc'[th] = "enter" /\ pc[th] = "intend"
      /\ UNCHANGED <<call, told, spawns, child, applied>>
      /\ receipts' = receipts \cup {new}
  BY DEF RecordIntent, Frame, Goto, TypeOK, history
<1>2. new.outcome # "rejected"
  BY DEF NewReceipt
<1> HIDE DEF new
<1> QED
  BY <1>1, <1>2 DEF RejectedInv, Frame, ReceiptsOf, Untold

\* A receipt that is written names its outcome, and a call that is answered
\* with success was not just recorded as rejected.
LEMMA WriteOutcome ==
    ASSUME IInv, NEW th \in Threads, Writes(th), NEW m \in receipts', m \notin receipts,
           m.outcome = "rejected"
    PROVE  /\ m.kind = "task_result" /\ m.rid = call[th].rid
           /\ pc[th] = "record" /\ verdict[th] = "rejected" /\ told' = told
<1> USE DEF IInv, NewReceipt, ReceiptFor
<1>1. CASE RecordIntentFails(th)
  BY <1>1 DEF RecordIntentFails
<1>2. CASE Record(th)
  BY <1>2 DEF Record, Return, Succeeds
<1>3. CASE RecordProved(th) \/ RecordProvedFails(th)
  <2>1. receipts' \subseteq receipts \cup {ReceiptFor(call[th], "observed")}
    BY <1>3 DEF RecordProved, RecordProvedFails
  <2>2. ReceiptFor(call[th], "observed").outcome = "observed"
    OBVIOUS
  <2> QED
    BY <2>1, <2>2
<1> QED
  BY <1>1, <1>2, <1>3 DEF Writes

LEMMA RejectedWrites ==
    ASSUME IInv, RejectedInv, NEW th \in Threads, Writes(th)
    PROVE  RejectedInv'
<1> USE DEF IInv
<1> DEFINE r == call[th].rid
<1>1. /\ Frame(th) /\ pc'[th] = "idle"
      /\ pc[th] \notin {"idle", "acquire", "look"}
      /\ UNCHANGED <<child, spawns, applied>>
      /\ told' \in {told, told \cup {call[th]}}
  BY WriteFacts
<1>2. ASSUME NEW o \in Threads, o # th, pc[o] \notin {"idle", "acquire"}
      PROVE  call[o].rid # r
  BY <1>1, <1>2, Apart
<1>3. \A m \in ReceiptsOf(r) : m.outcome # "rejected"
  BY <1>1 DEF RejectedInv
<1>4. ASSUME NEW m \in receipts', m.outcome = "rejected"
      PROVE  m.kind = "task_result" /\ spawns'[m.rid] = 0 /\ Untold(m.rid)'
  <2>1. CASE m \in receipts
    <3>1. m.rid # r
      BY <1>3, <1>4, <2>1 DEF ReceiptsOf
    <3> QED
      BY <1>1, <1>4, <2>1, <3>1 DEF RejectedInv, Untold
  <2>2. CASE m \notin receipts
    BY <1>1, <1>4, <2>2, WriteOutcome DEF RejectedInv, Untold
  <2> QED
    BY <2>1, <2>2
<1>5. ASSUME NEW m \in receipts', m \notin receipts
      PROVE  m.rid = r
  BY <1>5, WriteFacts DEF NewReceipt, ReceiptFor
<1>6. \A x \in RequestIds : spawns'[x] = 0 => applied'[x] = 0 /\ child'[x] = None
  BY <1>1 DEF RejectedInv
<1>7. ASSUME NEW o \in Threads
      PROVE  /\ (\/ pc'[o] \in {"intend", "enter", "check"}
                 \/ (pc'[o] = "record" /\ verdict'[o] = "rejected"))
                => (spawns'[call'[o].rid] = 0 /\ Untold(call[o].rid)')
             /\ pc'[o] \notin {"idle", "acquire", "look"} =>
                  \A m \in receipts' : m.rid = call'[o].rid => m.outcome # "rejected"
  <2>1. CASE o = th
    BY <1>1, <2>1
  <2>2. CASE o # th
    BY <1>1, <1>2, <1>5, <2>2 DEF RejectedInv, Frame, ReceiptsOf, Untold
  <2> QED
    BY <2>1, <2>2
<1> QED
  BY <1>1, <1>4, <1>6, <1>7 DEF RejectedInv, ReceiptsOf, Untold, Frame

LEMMA RejectedSpawn ==
    ASSUME IInv, RejectedInv, NEW th \in Threads, Spawn(th)
    PROVE  RejectedInv'
<1> USE DEF IInv
<1> DEFINE r == call[th].rid
<1>0. pc[th] = "check"
  BY DEF Spawn
<1>1. r \in RequestIds /\ \A m \in ReceiptsOf(r) : m.outcome # "rejected"
  BY <1>0, CallFacts DEF RejectedInv
<1>2. /\ Frame(th) /\ pc'[th] = "run"
      /\ UNCHANGED <<receipts, call, told, applied>>
      /\ spawns'[r] = spawns[r] + 1
      /\ \A x \in RequestIds : x # r => child'[x] = child[x] /\ spawns'[x] = spawns[x]
  BY <1>1 DEF Spawn, Frame, Goto, TypeOK, durable
<1>3. spawns'[r] # 0
  BY <1>1, <1>2 DEF TypeOK
<1>4. ASSUME NEW o \in Threads, o # th, pc[o] \notin {"idle", "acquire"}
      PROVE  call[o].rid \in RequestIds /\ call[o].rid # r
  BY <1>0, <1>4, Apart, CallFacts
<1>5. \A x \in RequestIds : spawns'[x] = 0 => applied'[x] = 0 /\ child'[x] = None
  BY <1>2, <1>3 DEF RejectedInv
<1>6. \A m \in receipts' : m.outcome = "rejected" =>
        m.kind = "task_result" /\ spawns'[m.rid] = 0 /\ Untold(m.rid)'
  BY <1>1, <1>2 DEF RejectedInv, ReceiptsOf, TypeOK, Receipt, Untold
<1> QED
  BY <1>0, <1>1, <1>2, <1>4, <1>5, <1>6 DEF RejectedInv, Frame, ReceiptsOf, Untold

LEMMA RejectedOfStep ==
    ASSUME NoReadFaults, IInv, RejectedInv, [Next]_vars
    PROVE  RejectedInv'
<1> USE DEF IInv
<1>1. ASSUME NEW th \in Threads, Lock(th) \/ Proceed(th) \/ Fail(th)
      PROVE  RejectedInv'
  <2>1. CASE Acquire(th)
    <3>1. /\ \A o \in Threads : o # th => pc'[o] = pc[o]
          /\ pc'[th] = "look"
          /\ UNCHANGED <<receipts, call, verdict, child, spawns, applied, told>>
      BY <2>1 DEF Acquire, Goto, TypeOK, durable, history
    <3> QED
      BY <3>1 DEF RejectedInv, ReceiptsOf, Untold
  <2> QED
    BY <1>1, <2>1, ThreadSteps, RejectedMoves, RejectedLeaves, RejectedIntent,
       RejectedWrites, RejectedSpawn
<1>2. ASSUME NEW th \in Threads, NEW c \in Calls, Begin(th, c)
      PROVE  RejectedInv'
  <2>1. /\ \A o \in Threads : o # th => pc'[o] = pc[o] /\ call'[o] = call[o]
        /\ pc'[th] = "acquire"
        /\ UNCHANGED <<receipts, child, verdict, spawns, applied, told>>
    BY <1>2 DEF Begin, Goto, TypeOK, durable, history
  <2> QED
    BY <2>1 DEF RejectedInv, ReceiptsOf, Untold
<1>3. ASSUME NEW r \in RequestIds, BrCommits(r)
      PROVE  RejectedInv'
  <2>1. /\ UNCHANGED <<receipts, pc, call, verdict, spawns, told>>
        /\ \A x \in RequestIds : x # r => child'[x] = child[x] /\ applied'[x] = applied[x]
    BY <1>3 DEF BrCommits, TypeOK, volatile
  <2>2. spawns[r] # 0
    BY <1>3 DEF BrCommits, RejectedInv
  <2> QED
    BY <2>1, <2>2 DEF RejectedInv, ReceiptsOf, Untold
<1>4. ASSUME NEW r \in RequestIds, OrphanExits(r) \/ ExternalCreate(r)
      PROVE  RejectedInv'
  <2>1. /\ UNCHANGED <<receipts, pc, call, verdict, spawns, applied, told>>
        /\ \A x \in RequestIds : child'[x] \in {child[x], None}
    BY <1>4 DEF OrphanExits, ExternalCreate, TypeOK, durable, volatile, history
  <2> QED
    BY <2>1 DEF RejectedInv, ReceiptsOf, Untold
<1>5. CASE \/ \E p \in Participants : Leave(p) \/ Resume(p)
           \/ \E t \in Tasks : External(t)
           \/ UNCHANGED vars
  <2>1. UNCHANGED <<receipts, pc, call, verdict, spawns, applied, told, child>>
    BY <1>5 DEF Leave, Resume, External, vars, durable, volatile, history
  <2> QED
    BY <2>1 DEF RejectedInv, ReceiptsOf, Untold
<1>6. CASE Crash
  <2>1. /\ \A th \in Threads : pc'[th] = "idle"
        /\ UNCHANGED <<receipts, spawns, applied, told, child>>
    BY <1>6 DEF Crash, durable, history
  <2> QED
    BY <2>1 DEF RejectedInv, ReceiptsOf, Untold
<1> QED
  BY <1>1, <1>2, <1>3, <1>4, <1>5, <1>6 DEF Next

LEMMA RejectedAlways ==
    ASSUME NoReadFaults
    PROVE  Spec => []RejectedInv
<1>1. Init => RejectedInv
  BY DEF Init, RejectedInv, ReceiptsOf, Untold
<1>2. IInv /\ IInv' /\ RejectedInv /\ [Next]_vars => RejectedInv'
  BY RejectedOfStep
<1> QED
  BY <1>1, <1>2, Consistent, PTL DEF Spec

LEMMA RejectedMeans ==
    ASSUME IInv, RejectedInv
    PROVE  RejectedMeansUntouched
  BY DEF IInv, TypeOK, Receipt, RejectedInv, RejectedMeansUntouched, Untold

(* As long as tasks can be read, a request recorded as rejected was not    *)
(* carried out, will not be, and was never answered with success.          *)
THEOREM RejectionsAreFinal ==
    ASSUME NoReadFaults
    PROVE  Spec => []RejectedMeansUntouched
<1>1. IInv /\ RejectedInv => RejectedMeansUntouched
  BY RejectedMeans
<1> QED
  BY <1>1, Consistent, RejectedAlways, PTL

-----------------------------------------------------------------------------
(* Commits of br.                                                          *)

\* br commits a request at most once, and only a request it was started for.
CommitInv ==
    \A r \in RequestIds :
        /\ spawns[r] = 0 => child[r] = None /\ applied[r] = 0
        /\ applied[r] \in {0, 1}
        /\ child[r] # None => (applied[r] = 1 <=> child[r].committed)

LEMMA SpawnFacts ==
    ASSUME IInv, NEW th \in Threads, Spawn(th)
    PROVE  LET r == call[th].rid IN
           /\ r \in RequestIds /\ pc[th] = "check" /\ spawns[r] = 0 /\ spawns'[r] = 1
           /\ Frame(th) /\ pc'[th] = "run"
           /\ child'[r].sem = call[th].sem /\ child'[r].committed = FALSE
           /\ \A x \in RequestIds : x # r => child'[x] = child[x] /\ spawns'[x] = spawns[x]
           /\ UNCHANGED <<receipts, issue, created, call, verdict, reqLock, storeLock,
                          applied, told>>
<1> DEFINE r == call[th].rid
<1>1. pc[th] = "check" /\ r \in RequestIds /\ spawns[r] = 0 /\ TypeOK
  BY CallFacts DEF Spawn, IInv, Pending
<1>2. PICK k : k = [sem |-> call[th].sem, committed |-> FALSE]
  OBVIOUS
<1>a. spawns' = [spawns EXCEPT ![r] = spawns[r] + 1] /\ child' = [child EXCEPT ![r] = k]
      /\ k.sem = call[th].sem /\ k.committed = FALSE
  BY <1>2 DEF Spawn
<1>3. Frame(th) /\ pc'[th] = "run"
      /\ UNCHANGED <<receipts, issue, created, call, verdict, reqLock, storeLock, applied, told>>
  BY <1>1 DEF Spawn, Frame, Goto, TypeOK, durable
<1>4. /\ child'[r] = k /\ spawns'[r] = 1
      /\ \A x \in RequestIds : x # r => child'[x] = child[x] /\ spawns'[x] = spawns[x]
  BY <1>1, <1>a DEF TypeOK
<1> QED
  BY <1>1, <1>a, <1>3, <1>4

LEMMA BrFacts ==
    ASSUME IInv, NEW r \in RequestIds, BrCommits(r)
    PROVE  /\ child[r] # None /\ child[r] \in Child /\ ~child[r].committed
           /\ BrAllows(r, child[r].sem)
           /\ child'[r].sem = child[r].sem /\ child'[r].committed = TRUE
           /\ applied'[r] = applied[r] + 1
           /\ \A x \in RequestIds : x # r => child'[x] = child[x] /\ applied'[x] = applied[x]
           /\ issue' = BrWrites(child[r].sem)
           /\ created' = IF child[r].sem.op = "create" THEN created \cup {r} ELSE created
           /\ UNCHANGED <<receipts, pc, call, verdict, reqLock, storeLock, spawns, told>>
<1>1. child[r] # None /\ child[r] \in Child /\ ~child[r].committed /\ TypeOK
  BY DEF BrCommits, IInv, TypeOK
<1>2. PICK k : k = [child[r] EXCEPT !.committed = TRUE]
  OBVIOUS
<1>3. k.sem = child[r].sem /\ k.committed = TRUE
  BY <1>1, <1>2 DEF Child
<1>4. child' = [child EXCEPT ![r] = k]
  BY <1>2 DEF BrCommits
<1> QED
  BY <1>1, <1>3, <1>4 DEF BrCommits, TypeOK, volatile

\* Steps that neither start br nor let it commit.
LEMMA Quiet ==
    ASSUME IInv, [Next]_vars,
           ~\E th \in Threads : Spawn(th), ~\E r \in RequestIds : BrCommits(r)
    PROVE  /\ UNCHANGED <<spawns, applied>>
           /\ \A r \in RequestIds : child'[r] \in {child[r], None}
<1>1. ASSUME NEW th \in Threads, Lock(th) \/ Proceed(th) \/ Fail(th)
      PROVE  /\ UNCHANGED <<spawns, applied>>
             /\ \A r \in RequestIds : child'[r] \in {child[r], None}
  <2>1. CASE Acquire(th) \/ RecordIntent(th)
    BY <2>1 DEF Acquire, RecordIntent, durable, history
  <2> QED
    BY <1>1, <2>1, ThreadSteps, MoveFacts, LeaveFacts, WriteFacts
<1> QED
  BY <1>1 DEF Next, Begin, OrphanExits, ExternalCreate, Leave, Resume, External, Crash,
     IInv, TypeOK, vars, durable, volatile, history

LEMMA CommitStep ==
    ASSUME IInv, CommitInv, [Next]_vars
    PROVE  CommitInv'
<1>1. ASSUME NEW th \in Threads, Spawn(th)
      PROVE  CommitInv'
  <2>1. PICK r \in RequestIds :
          /\ spawns[r] = 0 /\ spawns'[r] = 1 /\ child'[r].committed = FALSE
          /\ \A x \in RequestIds : x # r => child'[x] = child[x] /\ spawns'[x] = spawns[x]
          /\ applied' = applied
    BY <1>1, SpawnFacts
  <2>2. applied[r] = 0
    BY <2>1 DEF CommitInv
  <2> QED
    BY <2>1, <2>2 DEF CommitInv
<1>2. ASSUME NEW r \in RequestIds, BrCommits(r)
      PROVE  CommitInv'
  <2>1. /\ child[r] # None /\ ~child[r].committed /\ child'[r].committed = TRUE
        /\ applied'[r] = applied[r] + 1
        /\ \A x \in RequestIds : x # r => child'[x] = child[x] /\ applied'[x] = applied[x]
        /\ spawns' = spawns
    BY <1>2, BrFacts
  <2>2. applied[r] = 0 /\ spawns[r] # 0
    BY <2>1 DEF CommitInv
  <2>3. applied'[r] = 1 /\ spawns'[r] # 0
    BY <2>1, <2>2
  <2> QED
    BY <2>1, <2>3 DEF CommitInv
<1>3. CASE /\ ~\E th \in Threads : Spawn(th)
           /\ ~\E r \in RequestIds : BrCommits(r)
  BY <1>3, Quiet DEF CommitInv
<1> QED
  BY <1>1, <1>2, <1>3

LEMMA CommitAlways == Spec => []CommitInv
<1>1. Init => CommitInv
  BY DEF Init, CommitInv
<1>2. IInv /\ CommitInv /\ [Next]_vars => CommitInv'
  BY CommitStep
<1> QED
  BY <1>1, <1>2, Consistent, PTL DEF Spec

-----------------------------------------------------------------------------
(* Successes, while nobody else writes the store.                          *)

NoOtherWriter == "external" \notin Faults

\* What a thread in a phase, with a verdict v, knows of n commits of its call c.
Knows(c, phase, v, n) ==
    /\ phase = "readback" => n = 1
    /\ (phase = "record" /\ v = "br_success") => n = 1
    /\ (c.sem.op \in OwnOnly /\ (phase \in {"proved", "replay"}
                                 \/ (phase = "record" /\ v = "observed"))) => n = 1

OwnInv ==
    /\ SuccessIsOwn
    /\ \A r \in created : applied[r] = 1
    /\ \A m \in receipts : m.kind = "task_result" => m.outcome \notin {"pending", "unknown"}
    /\ \A th \in Threads : pc[th] # "idle" =>
        Knows(call[th], pc[th], verdict[th], applied[call[th].rid])

\* A success of request r, recorded or answered, is its own.
Counts(m, n) == (m.outcome = "br_success" \/ (m.outcome = "observed" /\ m.sem.op \in OwnOnly)) => n = 1

\* What a step must show to keep OwnInv.
LEMMA OwnKept ==
    ASSUME IInv, OwnInv,
           \A r \in RequestIds : applied[r] = 1 => applied'[r] = 1,
           created \subseteq RequestIds,
           \A r \in created' : r \in created \/ applied'[r] = 1,
           \A m \in receipts' : m \in receipts
             \/ /\ m.kind = "task_result" => m.outcome \notin {"pending", "unknown"}
                /\ Counts(m, applied'[m.rid]),
           \A c \in told' : c \in told \/ (c.sem.op \in OwnOnly => applied'[c.rid] = 1),
           \A th \in Threads : pc'[th] # "idle" =>
             Knows(call'[th], pc'[th], verdict'[th], applied'[call'[th].rid])
    PROVE  OwnInv'
<1>1. /\ \A m \in receipts : m.rid \in RequestIds
      /\ \A c \in told : c.rid \in RequestIds
  BY CallsAssumption DEF IInv, TypeOK, Receipt
<1>2. SuccessIsOwn'
  <2>1. ASSUME NEW m \in receipts' PROVE Counts(m, applied'[m.rid])
    <3>1. m \in receipts => Counts(m, applied[m.rid])
      BY DEF OwnInv, SuccessIsOwn, Counts
    <3> QED
      BY <1>1, <2>1, <3>1 DEF Counts
  <2>2. ASSUME NEW c \in told', c.sem.op \in OwnOnly PROVE applied'[c.rid] = 1
    BY <1>1, <2>2 DEF OwnInv, SuccessIsOwn
  <2> QED
    BY <2>1, <2>2 DEF SuccessIsOwn, Counts
<1>3. \A r \in created' : applied'[r] = 1
  BY DEF OwnInv
<1>4. \A m \in receipts' : m.kind = "task_result" => m.outcome \notin {"pending", "unknown"}
  BY DEF OwnInv
<1> QED
  BY <1>2, <1>3, <1>4 DEF OwnInv

\* The threads that do not move know what they knew.
LEMMA KnowsStill ==
    ASSUME IInv, OwnInv, NEW o \in Threads, pc'[o] = pc[o], call'[o] = call[o],
           verdict'[o] = verdict[o], pc[o] # "idle",
           \A r \in RequestIds : applied[r] = 1 => applied'[r] = 1
    PROVE  Knows(call'[o], pc'[o], verdict'[o], applied'[call'[o].rid])
<1>1. call[o].rid \in RequestIds /\ Knows(call[o], pc[o], verdict[o], applied[call[o].rid])
  BY CallFacts DEF IInv, OwnInv
<1> QED
  BY <1>1 DEF Knows

\* What the store shows of a create, claim or release is the request's own doing.
LEMMA ShownIsOwn ==
    ASSUME OwnInv, NEW r, NEW s, Shows(r, s), s.op \in OwnOnly
    PROVE  applied[r] = 1
  BY DEF OwnInv, Shows, OwnOnly

LEMMA MoveKnows ==
    ASSUME IInv, CommitInv, OwnInv, NEW th \in Threads, Moves(th)
    PROVE  /\ created' = created
           /\ Knows(call[th], pc'[th], verdict'[th], applied[call[th].rid])
<1> DEFINE r == call[th].rid
           n == applied[call[th].rid]
<1>0. TypeOK /\ created' = created
  BY DEF IInv, Moves, EnterStore, Reconcile, LookReady, NotLaunched, StoreGone, Reject,
     FoundCreated, ReadBack, ReadBackFails, Inspect, InspectFails, RunSucceeds, RunFails,
     Conclude, durable
<1>1. /\ r \in RequestIds /\ pc[th] # "idle" /\ Knows(call[th], pc[th], verdict[th], n)
      /\ \A m \in ReceiptsOf(r) : m.sem = call[th].sem
  <2>1. pc[th] \notin {"idle", "acquire"} /\ \A m \in ReceiptsOf(r) : m.sem = call[th].sem
    BY MoveFacts
  <2> QED
    BY <2>1, CallFacts DEF IInv, OwnInv
<1>2. CASE Reconcile(th)
  BY <1>0, <1>2, ShownIsOwn DEF Reconcile, Goto, TypeOK, Knows
<1>3. CASE LookReady(th)
  <2>1. pc'[th] \in {"replay", "reconcile", "intend"}
        /\ (pc'[th] = "replay" => Results(r) # {})
    BY <1>0, <1>3 DEF LookReady, Goto, TypeOK, NextPhase
  <2>2. ASSUME pc'[th] = "replay", call[th].sem.op \in OwnOnly PROVE n = 1
    <3>1. PICK m \in Results(r) : m.outcome # "rejected"
      BY <1>3, <2>1, <2>2 DEF LookReady
    <3>2. /\ m \in receipts /\ m.rid = r /\ m.kind = "task_result" /\ m.sem = call[th].sem
          /\ m.outcome \in Outcomes
      BY <1>0, <1>1, <3>1 DEF Results, ReceiptsOf, TypeOK, Receipt
    <3>3. m.outcome \in {"br_success", "observed"}
      BY <3>1, <3>2 DEF OwnInv, Outcomes
    <3> QED
      BY <2>2, <3>2, <3>3 DEF OwnInv, SuccessIsOwn
  <2> QED
    BY <1>0, <2>1, <2>2 DEF Knows
<1>4. CASE RunSucceeds(th)
  <2>1. child[r] # None /\ child[r].committed /\ pc'[th] = "readback"
    BY <1>0, <1>4 DEF RunSucceeds, Goto, TypeOK
  <2>2. n = 1
    BY <1>1, <2>1 DEF CommitInv
  <2> QED
    BY <1>0, <2>1, <2>2 DEF Knows
<1>5. CASE EnterStore(th) \/ NotLaunched(th) \/ RunFails(th)
  BY <1>0, <1>5 DEF EnterStore, NotLaunched, RunFails, Goto, TypeOK, Knows
<1>6. ASSUME NEW v, Conclude(th, v),
             \/ v \in {"rejected", "unknown"}
             \/ v = "br_success" /\ n = 1
             \/ v = "observed" /\ (call[th].sem.op \in OwnOnly => n = 1)
      PROVE  Knows(call[th], pc'[th], verdict'[th], n)
  <2>1. pc'[th] = "record" /\ verdict'[th] = v
    BY <1>0, <1>6 DEF Conclude, Goto, TypeOK
  <2> QED
    BY <1>6, <2>1 DEF Knows
<1>7. CASE StoreGone(th) \/ Reject(th) \/ ReadBackFails(th) \/ InspectFails(th)
  BY <1>0, <1>6, <1>7 DEF StoreGone, Reject, ReadBackFails, InspectFails
<1>8. CASE FoundCreated(th)
  <2>1. n = 1
    BY <1>8 DEF FoundCreated, OwnInv
  <2> QED
    BY <1>0, <1>6, <1>8, <2>1 DEF FoundCreated
<1>9. CASE ReadBack(th)
  <2>1. n = 1
    BY <1>1, <1>9 DEF ReadBack, Knows
  <2> QED
    BY <1>0, <1>6, <1>9, <2>1 DEF ReadBack
<1>10. CASE Inspect(th)
  BY <1>0, <1>6, <1>10, ShownIsOwn DEF Inspect
<1> QED
  BY <1>0, <1>2, <1>3, <1>4, <1>5, <1>7, <1>8, <1>9, <1>10 DEF Moves

\* A receipt that ends a call records what the call knows.
LEMMA WriteKnows ==
    ASSUME IInv, OwnInv, NEW th \in Threads, Writes(th) \/ Leaves(th)
    PROVE  LET n == applied[call[th].rid] IN
           /\ \A m \in receipts' : m \in receipts
                \/ /\ m.rid = call[th].rid
                   /\ m.kind = "task_result" => m.outcome \notin {"pending", "unknown"}
                   /\ Counts(m, n)
           /\ \A c \in told' : c \in told
                \/ (c = call[th] /\ (c.sem.op \in OwnOnly => n = 1))
<1> DEFINE n == applied[call[th].rid]
<1>0. /\ pc[th] # "idle" /\ Knows(call[th], pc[th], verdict[th], n)
      /\ pc[th] = "record" => verdict[th] \in Outcomes \ {"pending"}
  <2>1. pc[th] # "idle"
    BY WriteFacts, LeaveFacts
  <2> QED
    BY <2>1 DEF IInv, OwnInv, Control, TypeOK, Verdicts
<1>1. CASE Leaves(th)
  <2>1. receipts' = receipts /\ told' \in {told, told \cup {call[th]}}
        /\ (told' # told => pc[th] = "replay" \/ (pc[th] = "record" /\ Succeeds(verdict[th])))
    BY <1>1, LeaveFacts
  <2> QED
    BY <1>0, <2>1 DEF Knows, Succeeds
<1>2. CASE RecordIntentFails(th)
  <2>1. told' = told /\ receipts' \subseteq
            receipts \cup {NewReceipt(call[th], "task_intent", "pending")}
    BY <1>2 DEF RecordIntentFails, Return
  <2> QED
    BY <2>1 DEF NewReceipt, Counts
<1>3. CASE Record(th)
  <2>1. PICK m : m = ReceiptFor(call[th], verdict[th])
    OBVIOUS
  <2>2. /\ m.rid = call[th].rid /\ m.sem = call[th].sem /\ m.outcome = verdict[th]
        /\ m.kind = IF verdict[th] = "unknown" THEN "task_unknown" ELSE "task_result"
    BY <2>1 DEF ReceiptFor, NewReceipt
  <2>3. /\ receipts' = receipts \cup {m} /\ pc[th] = "record"
        /\ told' = IF Succeeds(verdict[th]) THEN told \cup {call[th]} ELSE told
    BY <1>3, <2>1 DEF Record, Return
  <2>4. m.kind = "task_result" => m.outcome \notin {"pending", "unknown"}
    BY <1>0, <2>2, <2>3
  <2>5. Counts(m, n)
    BY <1>0, <2>2, <2>3 DEF Knows, Counts
  <2>6. Succeeds(verdict[th]) /\ call[th].sem.op \in OwnOnly => n = 1
    BY <1>0, <2>3 DEF Knows, Succeeds
  <2> QED
    BY <2>2, <2>3, <2>4, <2>5, <2>6
<1>4. CASE RecordProved(th) \/ RecordProvedFails(th)
  <2>1. PICK m : m = ReceiptFor(call[th], "observed")
    OBVIOUS
  <2>2. m.rid = call[th].rid /\ m.sem = call[th].sem /\ m.outcome = "observed"
    BY <2>1 DEF ReceiptFor, NewReceipt
  <2>3. /\ receipts' \subseteq receipts \cup {m} /\ pc[th] = "proved"
        /\ told' \in {told, told \cup {call[th]}}
    BY <1>4, <2>1 DEF RecordProved, RecordProvedFails, Return
  <2>4. call[th].sem.op \in OwnOnly => n = 1
    BY <1>0, <2>3 DEF Knows
  <2> QED
    BY <2>2, <2>3, <2>4 DEF Counts
<1> QED
  BY <1>1, <1>2, <1>3, <1>4 DEF Writes

LEMMA OwnStep ==
    ASSUME NoOtherWriter, IInv, CommitInv, OwnInv, [Next]_vars
    PROVE  OwnInv'
<1>0. TypeOK /\ created \subseteq RequestIds
  BY DEF IInv, TypeOK
<1>1. ASSUME NEW th \in Threads, Lock(th) \/ Proceed(th) \/ Fail(th)
      PROVE  OwnInv'
  <2>1. ASSUME Frame(th), applied' = applied, NEW o \in Threads, o # th, pc'[o] # "idle"
        PROVE  Knows(call'[o], pc'[o], verdict'[o], applied'[call'[o].rid])
    BY <2>1, KnowsStill DEF Frame
  <2>2. CASE Moves(th)
    <3>1. Frame(th) /\ UNCHANGED <<receipts, call, applied, told>>
      BY <2>2, MoveFacts
    <3>2. created' = created /\ Knows(call[th], pc'[th], verdict'[th], applied[call[th].rid])
      BY <2>2, MoveKnows
    <3> QED
      BY <1>0, <2>1, <3>1, <3>2, OwnKept
  <2>3. CASE Leaves(th) \/ Writes(th)
    <3>1. Frame(th) /\ pc'[th] = "idle" /\ applied' = applied /\ created' = created
      BY <2>3, LeaveFacts, WriteFacts
    <3>2. /\ \A m \in receipts' : m \in receipts
                \/ /\ m.kind = "task_result" => m.outcome \notin {"pending", "unknown"}
                   /\ Counts(m, applied'[m.rid])
          /\ \A c \in told' : c \in told \/ (c.sem.op \in OwnOnly => applied'[c.rid] = 1)
      BY <2>3, <3>1, WriteKnows
    <3> QED
      BY <1>0, <2>1, <3>1, <3>2, OwnKept
  <2>4. CASE RecordIntent(th)
    <3>1. PICK m : m = NewReceipt(call[th], "task_intent", "pending")
      OBVIOUS
    <3>2. /\ Frame(th) /\ pc'[th] = "enter" /\ UNCHANGED <<applied, created, told>>
          /\ receipts' = receipts \cup {m} /\ m.kind = "task_intent" /\ m.outcome = "pending"
      BY <1>0, <2>4, <3>1 DEF RecordIntent, Frame, Goto, TypeOK, history, NewReceipt
    <3>3. Knows(call'[th], pc'[th], verdict'[th], applied'[call'[th].rid])
      BY <3>2 DEF Knows
    <3>4. Counts(m, applied'[m.rid])
      BY <3>2 DEF Counts
    <3> QED
      BY <1>0, <2>1, <3>2, <3>3, <3>4, OwnKept
  <2>5. CASE Spawn(th)
    <3>1. Frame(th) /\ pc'[th] = "run" /\ UNCHANGED <<applied, created, told, receipts>>
      BY <2>5, SpawnFacts
    <3>2. Knows(call'[th], pc'[th], verdict'[th], applied'[call'[th].rid])
      BY <3>1 DEF Knows
    <3> QED
      BY <1>0, <2>1, <3>1, <3>2, OwnKept
  <2>6. CASE Acquire(th)
    <3>1. /\ \A o \in Threads : o # th => pc'[o] = pc[o]
          /\ pc'[th] = "look"
          /\ UNCHANGED <<receipts, created, call, verdict, applied, told>>
      BY <1>0, <2>6 DEF Acquire, Goto, TypeOK, durable, history
    <3>2. Knows(call'[th], pc'[th], verdict'[th], applied'[call'[th].rid])
      BY <3>1 DEF Knows
    <3> QED
      BY <1>0, <3>1, <3>2, KnowsStill, OwnKept
  <2> QED
    BY <1>1, <2>2, <2>3, <2>4, <2>5, <2>6, ThreadSteps
<1>2. ASSUME NEW th \in Threads, NEW c \in Calls, Begin(th, c)
      PROVE  OwnInv'
  <2>1. /\ \A o \in Threads : o # th => pc'[o] = pc[o] /\ call'[o] = call[o]
        /\ pc'[th] = "acquire"
        /\ UNCHANGED <<receipts, created, verdict, applied, told>>
    BY <1>0, <1>2 DEF Begin, Goto, TypeOK, durable, history
  <2>2. Knows(call'[th], pc'[th], verdict'[th], applied'[call'[th].rid])
    BY <2>1 DEF Knows
  <2> QED
    BY <1>0, <2>1, <2>2, KnowsStill, OwnKept
<1>3. ASSUME NEW r \in RequestIds, BrCommits(r)
      PROVE  OwnInv'
  <2>1. /\ child[r] # None /\ ~child[r].committed /\ applied'[r] = applied[r] + 1
        /\ \A x \in RequestIds : x # r => applied'[x] = applied[x]
        /\ created' \subseteq created \cup {r}
        /\ UNCHANGED <<receipts, pc, call, verdict, told>>
    BY <1>3, BrFacts
  <2>2. applied[r] = 0 /\ applied'[r] = 1
    BY <2>1 DEF CommitInv
  <2> QED
    BY <1>0, <2>1, <2>2, KnowsStill, OwnKept
<1>4. CASE \/ \E r \in RequestIds : OrphanExits(r)
           \/ \E p \in Participants : Leave(p) \/ Resume(p)
           \/ UNCHANGED vars
  <2>1. UNCHANGED <<receipts, created, pc, call, verdict, applied, told>>
    BY <1>4 DEF OrphanExits, Leave, Resume, vars, durable, volatile, history
  <2> QED
    BY <1>0, <2>1, KnowsStill, OwnKept
<1>5. CASE Crash
  <2>1. /\ \A th \in Threads : pc'[th] = "idle"
        /\ UNCHANGED <<receipts, created, applied, told>>
    BY <1>5 DEF Crash, durable, history
  <2> QED
    BY <1>0, <2>1, OwnKept
<1>6. /\ \A t \in Tasks : ~External(t)
      /\ \A r \in RequestIds : ~ExternalCreate(r)
  BY DEF NoOtherWriter, External, ExternalCreate
<1> QED
  BY <1>1, <1>2, <1>3, <1>4, <1>5, <1>6 DEF Next

LEMMA OwnAlways ==
    ASSUME NoOtherWriter
    PROVE  Spec => []OwnInv
<1>1. Init => OwnInv
  BY DEF Init, OwnInv, SuccessIsOwn
<1>2. IInv /\ CommitInv /\ OwnInv /\ [Next]_vars => OwnInv'
  BY OwnStep
<1> QED
  BY <1>1, <1>2, Consistent, CommitAlways, PTL DEF Spec

(* A create, claim or release that is recorded or answered as a success    *)
(* was committed by br for this very request, as long as only the host     *)
(* writes the store: what another program leaves there under the same      *)
(* external_ref is taken for the request's own (create_task finds it).     *)
THEOREM SuccessesAreOwn ==
    ASSUME NoOtherWriter
    PROVE  Spec => []SuccessIsOwn
<1>1. OwnInv => SuccessIsOwn
  BY DEF OwnInv
<1> QED
  BY <1>1, OwnAlways, PTL

-----------------------------------------------------------------------------
(* The store, while the host stays up and nobody else writes it.           *)

Undisturbed == "crash" \notin Faults /\ "external" \notin Faults

\* Phases between taking and dropping the lock of the store.
InStore == {"check", "run", "readback", "inspect"}

\* What the check of a claim or a release saw of the task in a table of issues.
Sees(s, table) ==
    /\ s.op = "claim" => table[s.task].status = "open" /\ table[s.task].assignee = None
    /\ s.op = "release" => table[s.task].status # "closed" /\ table[s.task].assignee = s.who

Holding == \A th \in Threads : pc[th] \in InStore => storeLock = th

\* A br process is waited for, and until it commits the check it passed holds.
Attended ==
    \A r \in RequestIds : child[r] # None =>
        /\ \E th \in Threads : pc[th] = "run" /\ call[th].rid = r
        /\ ~child[r].committed => Sees(child[r].sem, issue)

LEMMA AdmissibleSees ==
    ASSUME NEW s, Admissible(s)
    PROVE  Sees(s, issue)
  BY DEF Admissible, Sees

\* How a step of a thread treats the store's lock and the br of its request.
LEMMA StoreFacts ==
    ASSUME IInv, Holding, NEW th \in Threads, Lock(th) \/ Proceed(th) \/ Fail(th)
    PROVE  /\ storeLock \notin {None, th} => storeLock' = storeLock
           /\ pc'[th] \in InStore => storeLock' = th
           /\ pc'[th] = "run" => Spawn(th)
           /\ issue' = issue
           /\ \A o \in Threads : o # th => pc'[o] = pc[o] /\ call'[o] = call[o]
           /\ \A r \in RequestIds : r # call[th].rid => child'[r] = child[r]
           /\ ~Spawn(th) => child'[call[th].rid] \in {child[call[th].rid], None}
           /\ pc[th] = "run" => child'[call[th].rid] = None
<1>0. TypeOK
  BY DEF IInv
<1>1. CASE Acquire(th)
  BY <1>0, <1>1 DEF Acquire, Spawn, Goto, TypeOK, InStore, durable
<1>2. CASE RecordIntent(th)
  BY <1>0, <1>2 DEF RecordIntent, Spawn, Goto, TypeOK, InStore, history
<1>3. CASE Spawn(th)
  <2>1. /\ pc[th] = "check" /\ Frame(th) /\ pc'[th] = "run"
        /\ \A x \in RequestIds : x # call[th].rid => child'[x] = child[x]
        /\ UNCHANGED <<issue, storeLock>>
    BY <1>3, SpawnFacts
  <2> QED
    BY <1>3, <2>1 DEF Frame, Holding, InStore
<1>4. CASE Leaves(th) \/ Writes(th)
  <2>1. Returns(th)
    BY <1>4, ReturnVerdict DEF Leaves, Writes, LookConflict, LookRejected, LookFails, Replay,
       ReplayFails, Unproved, ReconcileFails, RecordFails, RecordIntentFails, Record,
       RecordProved, RecordProvedFails, Returns
  <2>2. Frame(th) /\ pc'[th] = "idle" /\ child' = child /\ issue' = issue
    BY <1>4, LeaveFacts, WriteFacts
  <2>3. pc[th] # "run"
    BY <1>4 DEF Leaves, Writes, LookConflict, LookRejected, LookFails, Replay, ReplayFails,
       Unproved, ReconcileFails, RecordFails, RecordIntentFails, Record, RecordProved,
       RecordProvedFails
  <2> QED
    BY <2>1, <2>2, <2>3 DEF Returns, Return, Unlock, Frame, InStore
<1>5. CASE EnterStore(th) \/ Reconcile(th) \/ LookReady(th) \/ NotLaunched(th)
  BY <1>0, <1>5 DEF EnterStore, Reconcile, LookReady, NextPhase, NotLaunched, Goto, TypeOK,
     Holding, InStore, durable
<1>6. CASE RunSucceeds(th) \/ RunFails(th)
  <2>1. pc[th] = "run" /\ pc'[th] \in {"readback", "inspect"} /\ call[th].rid \in RequestIds
    BY <1>0, <1>6, CallFacts DEF RunSucceeds, RunFails, Goto, TypeOK, IInv
  <2>2. /\ child'[call[th].rid] = None
        /\ \A r \in RequestIds : r # call[th].rid => child'[r] = child[r]
    BY <1>0, <1>6, <2>1 DEF RunSucceeds, RunFails, TypeOK
  <2> QED
    BY <1>0, <1>6, <2>1, <2>2 DEF RunSucceeds, RunFails, Goto, TypeOK, Holding, InStore, durable
<1>7. CASE \/ StoreGone(th) \/ Reject(th) \/ FoundCreated(th) \/ ReadBack(th)
           \/ ReadBackFails(th) \/ Inspect(th) \/ InspectFails(th)
  <2>1. PICK v : Conclude(th, v)
    BY <1>7 DEF StoreGone, Reject, FoundCreated, ReadBack, ReadBackFails, Inspect, InspectFails
  <2>2. child' = child /\ pc[th] # "run"
    BY <1>7 DEF StoreGone, Reject, FoundCreated, ReadBack, ReadBackFails, Inspect, InspectFails
  <2> QED
    BY <1>0, <2>1, <2>2 DEF Conclude, Goto, TypeOK, InStore, durable
<1> QED
  BY <1>1, <1>2, <1>3, <1>4, <1>5, <1>6, <1>7, ThreadSteps DEF Moves

\* A br process that may run belongs to the one thread that holds the store.
LEMMA OneAttended ==
    ASSUME Holding, Attended, NEW r \in RequestIds, NEW x \in RequestIds,
           child[r] # None, child[x] # None
    PROVE  x = r
<1>1. PICK th \in Threads : pc[th] = "run" /\ call[th].rid = r
  BY DEF Attended
<1>2. PICK o \in Threads : pc[o] = "run" /\ call[o].rid = x
  BY DEF Attended
<1>3. o = th
  BY <1>1, <1>2 DEF Holding, InStore
<1> QED
  BY <1>1, <1>2, <1>3

LEMMA StoreStep ==
    ASSUME Undisturbed, IInv, Holding, Attended, [Next]_vars
    PROVE  Holding' /\ Attended'
<1>1. ASSUME NEW th \in Threads, Lock(th) \/ Proceed(th) \/ Fail(th)
      PROVE  Holding' /\ Attended'
  <2>0. PICK r : r = call[th].rid
    OBVIOUS
  <2>1. /\ storeLock \notin {None, th} => storeLock' = storeLock
        /\ pc'[th] \in InStore => storeLock' = th
        /\ pc'[th] = "run" => Spawn(th)
        /\ issue' = issue
        /\ \A o \in Threads : o # th => pc'[o] = pc[o] /\ call'[o] = call[o]
        /\ \A x \in RequestIds : x # r => child'[x] = child[x]
        /\ ~Spawn(th) => child'[r] \in {child[r], None}
        /\ pc[th] = "run" => child'[r] = None
    BY <1>1, <2>0, StoreFacts
  <2>2. \A o \in Threads : o # th /\ pc'[o] \in InStore => storeLock' = o
    BY <2>1, NoneFacts DEF Holding
  <2>3. Holding'
    BY <2>1, <2>2 DEF Holding
  <2>4. ASSUME NEW x \in RequestIds, child'[x] # None, ~Spawn(th)
        PROVE  /\ \E o \in Threads : pc'[o] = "run" /\ call'[o].rid = x
               /\ ~child'[x].committed => Sees(child'[x].sem, issue')
    <3>1. child'[x] = child[x]
      BY <2>1, <2>4
    <3>2. PICK o \in Threads : pc[o] = "run" /\ call[o].rid = x
      BY <2>4, <3>1 DEF Attended
    <3>3. o # th
      BY <2>0, <2>1, <2>4, <3>2
    <3> QED
      BY <2>1, <2>4, <3>1, <3>2, <3>3 DEF Attended
  <2>5. ASSUME Spawn(th), NEW x \in RequestIds, child'[x] # None
        PROVE  /\ \E o \in Threads : pc'[o] = "run" /\ call'[o].rid = x
               /\ ~child'[x].committed => Sees(child'[x].sem, issue')
    <3>1. /\ r \in RequestIds /\ pc[th] = "check" /\ pc'[th] = "run" /\ call' = call
          /\ child'[r].sem = call[th].sem
      BY <2>0, <2>5, SpawnFacts
    <3>2. CASE x = r
      <4>1. Sees(call[th].sem, issue)
        BY <2>5, AdmissibleSees DEF Spawn, Ready
      <4> QED
        BY <2>0, <2>1, <3>1, <3>2, <4>1
    <3>3. CASE x # r
      <4>1. child[x] # None
        BY <2>1, <2>5, <3>3
      <4>2. PICK o \in Threads : pc[o] = "run" /\ call[o].rid = x
        BY <4>1 DEF Attended
      <4>3. o = th
        BY <3>1, <4>2 DEF Holding, InStore
      <4> QED
        BY <2>0, <3>3, <4>2, <4>3
    <3> QED
      BY <3>2, <3>3
  <2> QED
    BY <2>3, <2>4, <2>5 DEF Attended
<1>2. ASSUME NEW th \in Threads, NEW c \in Calls, Begin(th, c)
      PROVE  Holding' /\ Attended'
  <2>1. /\ \A o \in Threads : o # th => pc'[o] = pc[o] /\ call'[o] = call[o]
        /\ pc'[th] = "acquire" /\ pc[th] = "idle"
        /\ UNCHANGED <<issue, child, storeLock>>
    BY <1>2 DEF Begin, Goto, IInv, TypeOK, durable
  <2>2. \A o \in Threads : pc[o] = "run" => pc'[o] = "run" /\ call'[o] = call[o]
    BY <2>1
  <2> QED
    BY <2>1, <2>2 DEF Holding, Attended, InStore
<1>3. ASSUME NEW r \in RequestIds, BrCommits(r)
      PROVE  Holding' /\ Attended'
  <2>1. /\ child[r] # None /\ child'[r].committed = TRUE
        /\ \A x \in RequestIds : x # r => child'[x] = child[x]
        /\ UNCHANGED <<pc, call, storeLock>>
    BY <1>3, BrFacts
  <2>2. \A x \in RequestIds : x # r => child'[x] = None
    BY <2>1, OneAttended
  <2> QED
    BY <2>1, <2>2 DEF Holding, Attended
<1>4. ASSUME NEW r \in RequestIds, OrphanExits(r)
      PROVE  Holding' /\ Attended'
  <2>1. /\ UNCHANGED <<issue, pc, call, storeLock>>
        /\ \A x \in RequestIds : child'[x] \in {child[x], None}
    BY <1>4 DEF OrphanExits, IInv, TypeOK, durable, volatile
  <2> QED
    BY <2>1 DEF Holding, Attended
<1>5. CASE \/ \E p \in Participants : Leave(p) \/ Resume(p)
           \/ UNCHANGED vars
  <2>1. UNCHANGED <<issue, child, pc, call, storeLock>>
    BY <1>5 DEF Leave, Resume, vars, durable, volatile
  <2> QED
    BY <2>1 DEF Holding, Attended
<1>6. /\ \A t \in Tasks : ~External(t)
      /\ \A r \in RequestIds : ~ExternalCreate(r)
      /\ ~Crash
  BY DEF Undisturbed, External, ExternalCreate, Crash
<1> QED
  BY <1>1, <1>2, <1>3, <1>4, <1>5, <1>6 DEF Next

LEMMA StoreAlways ==
    ASSUME Undisturbed
    PROVE  Spec => [](Holding /\ Attended)
<1>1. Init => Holding /\ Attended
  BY DEF Init, Holding, Attended, InStore
<1>2. IInv /\ Holding /\ Attended /\ [Next]_vars => Holding' /\ Attended'
  BY StoreStep
<1> QED
  BY <1>1, <1>2, Consistent, PTL DEF Spec

\* What br does to one task.
LEMMA BrWritesFacts ==
    ASSUME issue \in [Tasks -> Issue], NEW s \in Command, NEW t \in Tasks, NEW table,
           table = BrWrites(s)
    PROVE  /\ table[t].assignee # issue[t].assignee =>
                /\ s.task = t
                /\ s.op = "claim" \/ (s.op = "release" /\ table[t].assignee = None)
           /\ issue[t].status = "closed" /\ table[t].status # "closed" =>
                s.task = t /\ s.op \in {"claim", "release", "update"}
<1>1. s.op # "create" => s.task \in Tasks
  BY NoneFacts DEF Command, Semantics, WellFormed
<1>2. s.op \in Operations
  BY DEF Command, Semantics
<1>3. CASE s.op = "create" \/ s.task # t
  <2>1. table[t] = issue[t]
    BY <1>1, <1>3 DEF BrWrites
  <2> QED
    BY <2>1
<1>4. CASE s.op # "create" /\ s.task = t
  <2>1. CASE s.op = "claim"
    BY <1>4, <2>1
  <2>2. CASE s.op = "release"
    BY <1>4, <2>2 DEF BrWrites
  <2>3. CASE s.op = "update"
    BY <1>4, <2>3 DEF BrWrites, Issue
  <2>4. CASE s.op = "close"
    BY <1>4, <2>4 DEF BrWrites, Issue
  <2> QED
    BY <1>2, <1>4, <2>1, <2>2, <2>3, <2>4 DEF Operations
<1> QED
  BY <1>3, <1>4

\* Only a br process, whose check still holds, changes a task.
LEMMA StoreChange ==
    ASSUME Undisturbed, IInv, Holding, Attended, [Next]_vars, issue' # issue
    PROVE  \E r \in RequestIds :
             /\ child[r] # None /\ child[r].sem \in Command
             /\ Sees(child[r].sem, issue) /\ issue' = BrWrites(child[r].sem)
<1>1. ~\E th \in Threads : Lock(th) \/ Proceed(th) \/ Fail(th)
  BY StoreFacts
<1>2. /\ ~\E th \in Threads, c \in Calls : Begin(th, c)
      /\ ~\E r \in RequestIds : OrphanExits(r) \/ ExternalCreate(r)
      /\ ~\E p \in Participants : Leave(p) \/ Resume(p)
      /\ ~\E t \in Tasks : External(t)
      /\ ~Crash
      /\ ~UNCHANGED vars
  BY DEF Undisturbed, Begin, OrphanExits, ExternalCreate, Leave, Resume, External, Crash,
     vars, durable
<1>3. PICK r \in RequestIds : BrCommits(r)
  BY <1>1, <1>2 DEF Next
<1>4. /\ child[r] # None /\ child[r] \in Child /\ ~child[r].committed
      /\ issue' = BrWrites(child[r].sem)
  BY <1>3, BrFacts
<1> QED
  BY <1>4 DEF Attended, Child

(* A claimed task changes hands only through its holder, in any number of  *)
(* concurrent calls that fail in any way, while the host stays up and      *)
(* nobody else writes the store: a br process that outlives the host may   *)
(* still commit a claim or a release that the next host knows nothing of.  *)
THEOREM HoldersKeepTheirTask ==
    ASSUME Undisturbed
    PROVE  Spec => HolderKeepsTask
<1> DEFINE Kept == \A t \in Tasks : issue'[t].assignee # issue[t].assignee =>
        \/ issue[t].assignee = None
        \/ /\ issue'[t].assignee = None
           /\ \E r \in RequestIds :
                /\ child[r] # None /\ child[r].sem.op = "release"
                /\ child[r].sem.task = t
                /\ child[r].sem.who = issue[t].assignee
<1>1. IInv /\ Holding /\ Attended /\ [Next]_vars => [Kept]_vars
  <2> SUFFICES ASSUME IInv, Holding, Attended, [Next]_vars, NEW t \in Tasks,
                      issue'[t].assignee # issue[t].assignee, issue[t].assignee # None
               PROVE  /\ issue'[t].assignee = None
                      /\ \E r \in RequestIds :
                           /\ child[r] # None /\ child[r].sem.op = "release"
                           /\ child[r].sem.task = t
                           /\ child[r].sem.who = issue[t].assignee
    OBVIOUS
  <2>1. PICK r \in RequestIds :
          /\ child[r] # None /\ child[r].sem \in Command
          /\ Sees(child[r].sem, issue) /\ issue' = BrWrites(child[r].sem)
    BY StoreChange
  <2>2. PICK s \in Command : s = child[r].sem
    BY <2>1
  <2>3. s.task = t /\ (s.op = "claim" \/ (s.op = "release" /\ issue'[t].assignee = None))
    BY <2>1, <2>2, BrWritesFacts DEF IInv, TypeOK
  <2> QED
    BY <2>1, <2>2, <2>3 DEF Sees
<1> QED
  BY <1>1, Consistent, StoreAlways, PTL DEF Spec, HolderKeepsTask

(* Only an update reopens a closed task, under the same conditions.        *)
THEOREM ClosedTasksStayClosed ==
    ASSUME Undisturbed
    PROVE  Spec => ClosedStaysClosed
<1> DEFINE Kept == \A t \in Tasks : issue[t].status = "closed" /\ issue'[t].status # "closed" =>
        \E r \in RequestIds :
            /\ child[r] # None /\ child[r].sem.op = "update"
            /\ child[r].sem.task = t
<1>1. IInv /\ Holding /\ Attended /\ [Next]_vars => [Kept]_vars
  <2> SUFFICES ASSUME IInv, Holding, Attended, [Next]_vars, NEW t \in Tasks,
                      issue[t].status = "closed", issue'[t].status # "closed"
               PROVE  \E r \in RequestIds :
                        /\ child[r] # None /\ child[r].sem.op = "update"
                        /\ child[r].sem.task = t
    OBVIOUS
  <2>1. PICK r \in RequestIds :
          /\ child[r] # None /\ child[r].sem \in Command
          /\ Sees(child[r].sem, issue) /\ issue' = BrWrites(child[r].sem)
    BY StoreChange
  <2>2. PICK s \in Command : s = child[r].sem
    BY <2>1
  <2>3. s.task = t /\ s.op \in {"claim", "release", "update"}
    BY <2>1, <2>2, BrWritesFacts DEF IInv, TypeOK
  <2> QED
    BY <2>1, <2>2, <2>3 DEF Sees
<1> QED
  BY <1>1, Consistent, StoreAlways, PTL DEF Spec, ClosedStaysClosed

-----------------------------------------------------------------------------
(* The refinement of AtMostOnce.                                           *)

\* Phases in which a call has found its request without a result.
Unanswered ==
    {"intend", "enter", "check", "run", "readback", "inspect", "record", "reconcile", "proved"}

NoResult(R, r) == \A m \in R : m.rid = r => m.kind # "task_result"

AnswerInv == \A th \in Threads : pc[th] \in Unanswered => NoResult(receipts, call[th].rid)

\* A move reaches an unanswered phase from one, or by looking.
LEMMA AnswerMoves ==
    ASSUME IInv, NEW th \in Threads, Moves(th), pc'[th] \in Unanswered
    PROVE  pc[th] \in Unanswered \/ NoResult(receipts, call[th].rid)
<1>1. CASE LookReady(th)
  <2>1. pc'[th] = NextPhase(call[th].rid)
    BY <1>1 DEF LookReady, Goto, IInv, TypeOK
  <2> QED
    BY <2>1 DEF NextPhase, Unanswered, NoResult, Results, ReceiptsOf
<1> QED
  BY <1>1 DEF Moves, EnterStore, Reconcile, NotLaunched, StoreGone, Reject, FoundCreated,
     ReadBack, ReadBackFails, Inspect, InspectFails, RunSucceeds, RunFails, Unanswered

\* A step of th that writes receipts of its own request only, and goes where it may.
LEMMA AnswerKept ==
    ASSUME IInv, AnswerInv, NEW th \in Threads, pc[th] \notin {"idle", "acquire"},
           \A o \in Threads : o # th => pc'[o] = pc[o] /\ call'[o] = call[o],
           \A m \in receipts : m \in receipts',
           \A m \in receipts' : m \in receipts \/ m.rid = call[th].rid,
           pc'[th] \in Unanswered => NoResult(receipts', call'[th].rid)
    PROVE  AnswerInv'
<1> SUFFICES ASSUME NEW o \in Threads, pc'[o] \in Unanswered
             PROVE  NoResult(receipts', call'[o].rid)
  BY DEF AnswerInv
<1>1. CASE o # th
  <2>1. pc'[o] = pc[o] /\ call'[o] = call[o] /\ NoResult(receipts, call[o].rid)
    BY <1>1 DEF AnswerInv
  <2>2. call[o].rid # call[th].rid
    BY <1>1, <2>1, Apart DEF IInv, Unanswered
  <2> QED
    BY <2>1, <2>2 DEF NoResult
<1> QED
  BY <1>1

LEMMA AnswerStep ==
    ASSUME IInv, AnswerInv, [Next]_vars
    PROVE  AnswerInv'
<1>0. TypeOK
  BY DEF IInv
<1>1. ASSUME NEW th \in Threads, Lock(th) \/ Proceed(th) \/ Fail(th)
      PROVE  AnswerInv'
  <2>1. CASE Acquire(th)
    <3>1. /\ \A o \in Threads : o # th => pc'[o] = pc[o]
          /\ pc'[th] = "look"
          /\ UNCHANGED <<receipts, call>>
      BY <1>0, <2>1 DEF Acquire, Goto, TypeOK, durable
    <3> QED
      BY <3>1 DEF AnswerInv, Unanswered, NoResult
  <2>2. CASE Moves(th)
    <3>1. Frame(th) /\ pc[th] \notin {"idle", "acquire"} /\ UNCHANGED <<receipts, call>>
      BY <2>2, MoveFacts
    <3>2. pc'[th] \in Unanswered => NoResult(receipts, call[th].rid)
      BY <2>2, AnswerMoves DEF AnswerInv
    <3> QED
      BY <3>1, <3>2, AnswerKept DEF Frame, NoResult
  <2>3. CASE Leaves(th)
    BY <2>3, LeaveFacts, AnswerKept DEF Frame, Unanswered
  <2>4. CASE Writes(th)
    <3>1. /\ Frame(th) /\ pc'[th] = "idle" /\ pc[th] \notin {"idle", "acquire"}
          /\ \A m \in receipts' : m \in receipts \/ m.rid = call[th].rid
          /\ \A m \in receipts : m \in receipts'
      BY <2>4, WriteFacts DEF NewReceipt, ReceiptFor
    <3> QED
      BY <3>1, AnswerKept DEF Frame, Unanswered
  <2>5. CASE RecordIntent(th)
    <3>1. PICK m : m = NewReceipt(call[th], "task_intent", "pending")
      OBVIOUS
    <3>2. /\ pc[th] = "intend" /\ Frame(th) /\ call' = call /\ receipts' = receipts \cup {m}
          /\ m.rid = call[th].rid /\ m.kind = "task_intent"
      BY <1>0, <2>5, <3>1 DEF RecordIntent, Goto, Frame, TypeOK, history, NewReceipt
    <3>3. NoResult(receipts, call[th].rid)
      BY <3>2 DEF AnswerInv, Unanswered
    <3>4. NoResult(receipts', call'[th].rid)
      BY <3>2, <3>3 DEF NoResult
    <3> QED
      BY <3>2, <3>4, AnswerKept DEF Frame
  <2>6. CASE Spawn(th)
    <3>1. pc[th] = "check" /\ Frame(th) /\ UNCHANGED <<receipts, call>>
      BY <2>6, SpawnFacts
    <3>2. NoResult(receipts, call[th].rid)
      BY <3>1 DEF AnswerInv, Unanswered
    <3>3. NoResult(receipts', call'[th].rid)
      BY <3>1, <3>2 DEF NoResult
    <3> QED
      BY <3>1, <3>3, AnswerKept DEF Frame
  <2> QED
    BY <1>1, <2>1, <2>2, <2>3, <2>4, <2>5, <2>6, ThreadSteps
<1>2. ASSUME NEW th \in Threads, NEW c \in Calls, Begin(th, c)
      PROVE  AnswerInv'
  <2>1. /\ \A o \in Threads : o # th => pc'[o] = pc[o] /\ call'[o] = call[o]
        /\ pc'[th] = "acquire" /\ receipts' = receipts
    BY <1>0, <1>2 DEF Begin, Goto, TypeOK, durable
  <2> QED
    BY <2>1 DEF AnswerInv, Unanswered, NoResult
<1>3. CASE \/ \E r \in RequestIds : BrCommits(r) \/ OrphanExits(r) \/ ExternalCreate(r)
           \/ \E p \in Participants : Leave(p) \/ Resume(p)
           \/ \E t \in Tasks : External(t)
           \/ UNCHANGED vars
  <2>1. UNCHANGED <<receipts, pc, call>>
    BY <1>3 DEF BrCommits, OrphanExits, ExternalCreate, Leave, Resume, External, vars,
       durable, volatile
  <2> QED
    BY <2>1 DEF AnswerInv, NoResult
<1>4. CASE Crash
  BY <1>4 DEF Crash, AnswerInv, Unanswered
<1> QED
  BY <1>1, <1>2, <1>3, <1>4 DEF Next

LEMMA AnswerAlways == Spec => []AnswerInv
<1>1. Init => AnswerInv
  BY DEF Init, AnswerInv, NoResult
<1>2. IInv /\ AnswerInv /\ [Next]_vars => AnswerInv'
  BY AnswerStep
<1> QED
  BY <1>1, <1>2, Consistent, PTL DEF Spec

\* The meaning and the answer of a request, as a function of the receipts.
MeaningOf(S) == IF S = {} THEN None ELSE (CHOOSE m \in S : TRUE).sem

MeaningIn(R, r) == MeaningOf({m \in R : m.rid = r})

AnswerIn(R, r) ==
    IF NoResult(R, r) THEN "open"
    ELSE IF \E m \in R : m.rid = r /\ m.kind = "task_result" /\ m.outcome = "rejected"
         THEN "denied"
         ELSE "confirmed"

Bounds(R) == [r \in RequestIds |-> MeaningIn(R, r)]
Answers(R) == [r \in RequestIds |-> AnswerIn(R, r)]

LEMMA Mapping ==
    /\ [r \in RequestIds |-> boundTo(r)] = Bounds(receipts)
    /\ [r \in RequestIds |-> answerTo(r)] = Answers(receipts)
<1>1. ASSUME NEW r \in RequestIds
      PROVE  boundTo(r) = MeaningIn(receipts, r) /\ answerTo(r) = AnswerIn(receipts, r)
  BY DEF boundTo, answerTo, MeaningIn, MeaningOf, AnswerIn, NoResult, Results, ReceiptsOf
<1> QED
  BY <1>1 DEF Bounds, Answers

LEMMA MappingNext ==
    /\ [r \in RequestIds |-> boundTo(r)]' = Bounds(receipts')
    /\ [r \in RequestIds |-> answerTo(r)]' = Answers(receipts')
<1>1. ASSUME NEW r \in RequestIds
      PROVE  boundTo(r)' = MeaningIn(receipts', r) /\ answerTo(r)' = AnswerIn(receipts', r)
  BY DEF boundTo, answerTo, MeaningIn, MeaningOf, AnswerIn, NoResult, Results, ReceiptsOf
<1> QED
  BY <1>1 DEF Bounds, Answers

LEMMA MeaningFacts ==
    ASSUME NEW R \in SUBSET Receipt, NEW r
    PROVE  /\ (\A m \in R : m.rid # r) => MeaningIn(R, r) = None
           /\ \A n \in R : n.rid = r /\ (\A m \in R : m.rid = r => m.sem = n.sem)
                => MeaningIn(R, r) = n.sem /\ n.sem # None
<1>1. ASSUME \A m \in R : m.rid # r PROVE MeaningIn(R, r) = None
  BY <1>1 DEF MeaningIn, MeaningOf
<1>2. ASSUME NEW n \in R, n.rid = r, \A m \in R : m.rid = r => m.sem = n.sem
      PROVE  MeaningIn(R, r) = n.sem /\ n.sem # None
  <2>1. PICK x \in {m \in R : m.rid = r} : x = CHOOSE m \in {m \in R : m.rid = r} : TRUE
    BY <1>2
  <2>2. {m \in R : m.rid = r} # {}
    BY <1>2
  <2>3. MeaningIn(R, r) = x.sem
    BY <2>1, <2>2 DEF MeaningIn, MeaningOf
  <2> QED
    BY <1>2, <2>1, <2>3, CallsAssumption DEF Receipt
<1> QED
  BY <1>1, <1>2

Meant == {c.sem : c \in Calls}

\* A receipt that is written repeats the meaning, and answers a request once.
Written(m, r, s) ==
    /\ r \in RequestIds /\ s \in Meant
    /\ receipts' = receipts \cup {m}
    /\ m.rid = r /\ m.sem = s
    /\ \A n \in receipts : n.rid = r => n.sem = s
    /\ m.kind = "task_result" =>
        /\ \E n \in receipts : n.rid = r
        /\ NoResult(receipts, r)
        /\ m.outcome = "rejected" => applied[r] = 0
        /\ (m.outcome # "rejected" /\ s.op \in OwnOnly) => applied[r] = 1

LEMMA ReceiptStep ==
    ASSUME IInv, OwnInv, RejectedInv, AnswerInv, NEW th \in Threads,
           RecordIntent(th) \/ Writes(th), receipts' # receipts
    PROVE  \E m, r, s : Written(m, r, s)
<1>1. PICK r \in RequestIds : r = call[th].rid
  BY CallFacts DEF IInv, RecordIntent, Writes, RecordIntentFails, Record, RecordProved,
     RecordProvedFails
<1>2. PICK s \in Meant : s = call[th].sem
  <2>1. call[th] \in Calls
    BY CallFacts DEF IInv, RecordIntent, Writes, RecordIntentFails, Record, RecordProved,
       RecordProvedFails
  <2> QED
    BY <2>1 DEF Meant
<1>3. pc[th] \in {"intend", "record", "proved"}
  BY DEF RecordIntent, Writes, RecordIntentFails, Record, RecordProved, RecordProvedFails
<1>4. /\ \A n \in receipts : n.rid = r => n.sem = s
      /\ NoResult(receipts, r)
      /\ pc[th] # "intend" => \E n \in receipts : n.rid = r
  <2>1. /\ \A n \in ReceiptsOf(r) : n.sem = s
        /\ pc[th] # "intend" => ReceiptsOf(r) # {}
    BY <1>1, <1>2, <1>3 DEF IInv, Pending
  <2>2. NoResult(receipts, r)
    BY <1>1, <1>3 DEF AnswerInv, Unanswered
  <2> QED
    BY <2>1, <2>2 DEF ReceiptsOf
<1>5. CASE RecordIntent(th) \/ RecordIntentFails(th)
  <2>1. PICK m : m = NewReceipt(call[th], "task_intent", "pending")
    OBVIOUS
  <2>2. m.rid = r /\ m.sem = s /\ m.kind = "task_intent" /\ receipts' = receipts \cup {m}
    BY <1>1, <1>2, <1>5, <2>1 DEF NewReceipt, RecordIntent, RecordIntentFails
  <2>3. Written(m, r, s)
    BY <1>4, <2>2 DEF Written
  <2> QED
    BY <2>3
<1>6. CASE Record(th)
  <2>1. PICK m : m = ReceiptFor(call[th], verdict[th])
    OBVIOUS
  <2>2. /\ m.rid = r /\ m.sem = s /\ m.outcome = verdict[th]
        /\ m.kind = IF verdict[th] = "unknown" THEN "task_unknown" ELSE "task_result"
        /\ receipts' = receipts \cup {m} /\ pc[th] = "record"
    BY <1>1, <1>2, <1>6, <2>1 DEF NewReceipt, ReceiptFor, Record
  <2>3. verdict[th] \in {"br_success", "observed", "rejected", "unknown"}
    BY <2>2 DEF IInv, TypeOK, Control, Verdicts, Outcomes
  <2>4. verdict[th] = "rejected" => applied[r] = 0
    BY <1>1, <2>2 DEF RejectedInv
  <2>5. verdict[th] \in {"br_success", "observed"} /\ s.op \in OwnOnly => applied[r] = 1
    BY <1>1, <1>2, <2>2 DEF OwnInv, Knows
  <2>6. Written(m, r, s)
    BY <1>4, <2>2, <2>3, <2>4, <2>5 DEF Written
  <2> QED
    BY <2>6
<1>7. CASE RecordProved(th) \/ RecordProvedFails(th)
  <2>1. PICK m : m = ReceiptFor(call[th], "observed")
    OBVIOUS
  <2>2. /\ m.rid = r /\ m.sem = s /\ m.outcome = "observed"
        /\ receipts' = receipts \cup {m} /\ pc[th] = "proved"
    BY <1>1, <1>2, <1>7, <2>1 DEF NewReceipt, ReceiptFor, RecordProved, RecordProvedFails
  <2>3. s.op \in OwnOnly => applied[r] = 1
    BY <1>1, <1>2, <2>2 DEF OwnInv, Knows
  <2>4. Written(m, r, s)
    BY <1>4, <2>2, <2>3 DEF Written
  <2> QED
    BY <2>4
<1> QED
  BY <1>5, <1>6, <1>7 DEF Writes

\* Every step is one that AtMostOnce knows of, or shows it nothing.
LEMMA StepCases ==
    ASSUME NoReadFaults, NoOtherWriter, IInv, OwnInv, RejectedInv, AnswerInv, [Next]_vars
    PROVE  \/ receipts' = receipts /\ applied' = applied
           \/ receipts' = receipts /\ \E r \in RequestIds : BrCommits(r)
           \/ applied' = applied /\ \E m, r, s : Written(m, r, s)
<1>1. ASSUME NEW th \in Threads, Lock(th) \/ Proceed(th) \/ Fail(th)
      PROVE  \/ receipts' = receipts /\ applied' = applied
             \/ applied' = applied /\ \E m, r, s : Written(m, r, s)
  <2>1. CASE RecordIntent(th) \/ Writes(th)
    <3>1. applied' = applied
      BY <2>1, WriteFacts DEF RecordIntent, history
    <3> QED
      BY <2>1, <3>1, ReceiptStep
  <2>2. CASE Acquire(th) \/ Spawn(th) \/ Moves(th) \/ Leaves(th)
    BY <2>2, MoveFacts, LeaveFacts, SpawnFacts DEF Acquire, durable, history
  <2> QED
    BY <1>1, <2>1, <2>2, ThreadSteps
<1>2. ASSUME NEW r \in RequestIds, BrCommits(r)
      PROVE  receipts' = receipts /\ \E x \in RequestIds : BrCommits(x)
  BY <1>2 DEF BrCommits
<1>3. CASE \/ \E th \in Threads, c \in Calls : Begin(th, c)
           \/ \E r \in RequestIds : OrphanExits(r) \/ ExternalCreate(r)
           \/ \E p \in Participants : Leave(p) \/ Resume(p)
           \/ \E t \in Tasks : External(t)
           \/ Crash
           \/ UNCHANGED vars
  BY <1>3 DEF Begin, OrphanExits, ExternalCreate, Leave, Resume, External, Crash, vars,
     durable, history
<1> QED
  BY <1>1, <1>2, <1>3 DEF Next

\* What a receipt shows to the abstract request.
LEMMA WrittenMaps ==
    ASSUME TypeOK, TypeOK', NEW m, NEW r, NEW s, Written(m, r, s), m \notin receipts
    PROVE  LET B == Bounds(receipts)
               A == Answers(receipts)
               known == \E n \in receipts : n.rid = r
           IN
           /\ r \in DOMAIN B /\ r \in DOMAIN A
           /\ ~known => B[r] = None /\ Bounds(receipts') = [B EXCEPT ![r] = s]
           /\ known => B[r] = s /\ s # None /\ Bounds(receipts') = B
           /\ m.kind # "task_result" => Answers(receipts') = A
           /\ m.kind = "task_result" =>
                /\ A[r] = "open"
                /\ Answers(receipts') =
                     [A EXCEPT ![r] = IF m.outcome = "rejected" THEN "denied" ELSE "confirmed"]
<1> DEFINE known == \E n \in receipts : n.rid = r
<1>0. /\ receipts \in SUBSET Receipt /\ receipts' \in SUBSET Receipt
      /\ receipts' = receipts \cup {m} /\ m \in receipts' /\ m.rid = r /\ m.sem = s
      /\ r \in RequestIds /\ \A n \in receipts' : n.rid = r => n.sem = s
  BY DEF TypeOK, Written
<1>1. \A x \in RequestIds : x # r => MeaningIn(receipts', x) = MeaningIn(receipts, x)
  <2> SUFFICES ASSUME NEW x \in RequestIds, x # r
               PROVE  MeaningIn(receipts', x) = MeaningIn(receipts, x)
    OBVIOUS
  <2>1. {n \in receipts' : n.rid = x} = {n \in receipts : n.rid = x}
    BY <1>0
  <2> QED
    BY <2>1 DEF MeaningIn
<1>2. \A x \in RequestIds : x # r => AnswerIn(receipts', x) = AnswerIn(receipts, x)
  BY <1>0 DEF AnswerIn, NoResult
<1>3. MeaningIn(receipts', r) = s /\ s # None
  BY <1>0, MeaningFacts
<1>4. known => MeaningIn(receipts, r) = s
  BY <1>0, MeaningFacts
<1>5. ~known => MeaningIn(receipts, r) = None
  BY <1>0, MeaningFacts
<1>6. m.kind # "task_result" => AnswerIn(receipts', r) = AnswerIn(receipts, r)
  BY <1>0 DEF AnswerIn, NoResult
<1>7. m.kind = "task_result" =>
        /\ AnswerIn(receipts, r) = "open"
        /\ AnswerIn(receipts', r) = IF m.outcome = "rejected" THEN "denied" ELSE "confirmed"
  BY <1>0 DEF AnswerIn, NoResult, Written
<1>8. ~known => Bounds(receipts') = [Bounds(receipts) EXCEPT ![r] = s]
  BY <1>0, <1>1, <1>3 DEF Bounds
<1>9. known => Bounds(receipts') = Bounds(receipts)
  BY <1>0, <1>1, <1>3, <1>4 DEF Bounds
<1>10. m.kind # "task_result" => Answers(receipts') = Answers(receipts)
  BY <1>0, <1>2, <1>6 DEF Answers
<1>11. m.kind = "task_result" => Answers(receipts') =
         [Answers(receipts) EXCEPT ![r] = IF m.outcome = "rejected" THEN "denied" ELSE "confirmed"]
  BY <1>0, <1>2, <1>7 DEF Answers
<1> QED
  BY <1>0, <1>3, <1>4, <1>5, <1>7, <1>8, <1>9, <1>10, <1>11 DEF Bounds, Answers

(* The receipts and the commits of the host implement AtMostOnce: a        *)
(* request id is bound to one meaning, takes effect at most once and after *)
(* that, and gets one lasting answer: a denial only if the effect has not  *)
(* happened and will not, a confirmation of a create, claim or release     *)
(* only after its own effect.  Tasks can be read, and only the host writes *)
(* the store; receipts may be lost and the host may crash anywhere.        *)
THEOREM RequestsAreAtMostOnce ==
    ASSUME NoReadFaults, NoOtherWriter
    PROVE  Spec => ImplementsAtMostOnce
<1>1. Init => Abstract!Init
  <2> SUFFICES ASSUME Init PROVE Abstract!Init
    OBVIOUS
  <2>1. receipts = {} /\ applied = [r \in RequestIds |-> 0]
    BY DEF Init
  <2>2. \A r \in RequestIds : boundTo(r) = None /\ answerTo(r) = "open"
    BY <2>1 DEF boundTo, answerTo, ReceiptsOf, Results
  <2> QED
    BY <2>1, <2>2 DEF Abstract!Init
<1>2. IInv /\ IInv' /\ CommitInv /\ OwnInv /\ RejectedInv /\ AnswerInv /\ [Next]_vars
        => [Abstract!Next]_(Abstract!vars)
  <2> SUFFICES ASSUME IInv, IInv', CommitInv, OwnInv, RejectedInv, AnswerInv, [Next]_vars
               PROVE  [Abstract!Next]_(Abstract!vars)
    OBVIOUS
  <2>0. TypeOK /\ TypeOK'
    BY DEF IInv
  <2> DEFINE B == Bounds(receipts)
             A == Answers(receipts)
             Bn == Bounds(receipts')
             An == Answers(receipts')
  <2>1. /\ [r \in RequestIds |-> boundTo(r)] = B /\ [r \in RequestIds |-> boundTo(r)]' = Bn
        /\ [r \in RequestIds |-> answerTo(r)] = A /\ [r \in RequestIds |-> answerTo(r)]' = An
    BY Mapping, MappingNext
  <2> HIDE DEF B, A, Bn, An
  <2>2. CASE receipts' = receipts /\ applied' = applied
    <3>1. Bn = B /\ An = A
      BY <2>2 DEF Bn, B, An, A
    <3> QED
      BY <2>1, <2>2, <3>1 DEF Abstract!vars
  <2>3. ASSUME receipts' = receipts, NEW r \in RequestIds, BrCommits(r)
        PROVE  Abstract!Apply(r)
    <3>1. child[r] # None /\ ~child[r].committed /\ applied'[r] = applied[r] + 1
          /\ applied' = [applied EXCEPT ![r] = @ + 1]
      BY <2>3, BrFacts DEF BrCommits
    <3>2. applied[r] = 0
      BY <3>1 DEF CommitInv
    <3>3. PICK n \in receipts : n.rid = r /\ \A m \in receipts : m.rid = r => m.sem = n.sem
      BY <3>1 DEF IInv, OneMeaningPerRequest, ReceiptsOf
    <3>4. B[r] # None
      BY <2>0, <3>3, MeaningFacts DEF B, Bounds, TypeOK
    <3>5. A[r] # "denied"
      BY <3>1, RejectedMeans DEF A, Answers, AnswerIn, RejectedMeansUntouched
    <3>6. applied' = [applied EXCEPT ![r] = 1]
      BY <2>0, <3>1, <3>2 DEF TypeOK
    <3>7. Bn = B /\ An = A
      BY <2>3 DEF Bn, B, An, A
    <3> QED
      BY <2>1, <3>2, <3>4, <3>5, <3>6, <3>7 DEF Abstract!Apply
  <2>4. ASSUME applied' = applied, NEW m, NEW r, NEW s, Written(m, r, s), m \notin receipts
        PROVE  Abstract!Bind(r) \/ Abstract!Confirm(r) \/ Abstract!Deny(r)
               \/ UNCHANGED Abstract!vars
    <3> DEFINE known == \E n \in receipts : n.rid = r
    <3>1. /\ ~known => B[r] = None /\ Bn = [B EXCEPT ![r] = s]
          /\ known => B[r] = s /\ s # None /\ Bn = B
          /\ m.kind # "task_result" => An = A
          /\ m.kind = "task_result" =>
               /\ A[r] = "open"
               /\ An = [A EXCEPT ![r] = IF m.outcome = "rejected" THEN "denied" ELSE "confirmed"]
      BY <2>0, <2>4, WrittenMaps DEF B, A, Bn, An
    <3>2. /\ s \in Meant
          /\ m.kind = "task_result" =>
               /\ known
               /\ m.outcome = "rejected" => applied[r] = 0
               /\ (m.outcome # "rejected" /\ s.op \in OwnOnly) => applied[r] = 1
      BY <2>4 DEF Written
    <3> HIDE DEF known
    <3>3. CASE m.kind = "task_result" /\ m.outcome = "rejected"
      BY <2>1, <2>4, <3>1, <3>2, <3>3 DEF Abstract!Deny
    <3>4. CASE m.kind = "task_result" /\ m.outcome # "rejected"
      <4>1. B[r] \in {x \in Meant : x.op \in OwnOnly} => applied[r] = 1
        BY <3>1, <3>2, <3>4
      <4> QED
        BY <2>1, <2>4, <3>1, <3>2, <3>4, <4>1 DEF Abstract!Confirm, Meant
    <3>5. CASE m.kind # "task_result" /\ known
      BY <2>1, <2>4, <3>1, <3>5 DEF Abstract!vars
    <3>6. CASE m.kind # "task_result" /\ ~known
      BY <2>1, <2>4, <3>1, <3>2, <3>6 DEF Abstract!Bind, Meant
    <3> QED
      BY <3>3, <3>4, <3>5, <3>6
  <2>5. ASSUME applied' = applied, NEW m, NEW r, NEW s, Written(m, r, s), receipts' # receipts
        PROVE  [Abstract!Next]_(Abstract!vars)
    <3>1. m \notin receipts /\ r \in RequestIds
      BY <2>5 DEF Written
    <3> QED
      BY <2>4, <2>5, <3>1 DEF Abstract!Next
  <2> QED
    BY <2>2, <2>3, <2>5, StepCases DEF Abstract!Next
<1> QED
  BY <1>1, <1>2, Consistent, CommitAlways, OwnAlways, RejectedAlways, AnswerAlways, PTL
  DEF Spec, ImplementsAtMostOnce, Abstract!Spec

=============================================================================
