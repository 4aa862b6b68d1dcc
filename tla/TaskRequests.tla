---------------------------- MODULE TaskRequests ----------------------------
(***************************************************************************)
(* Task mutations of the workspace host: task_create, task_update,         *)
(* task_claim, task_release and task_close.                                *)
(*                                                                         *)
(* Every mutation carries a request id.  The host records an intent in the *)
(* workspace's mail repository, runs the bundled `br` command on the Beads *)
(* database, and records a result or "unknown" receipt.  A repeated        *)
(* request is answered from its receipts and the current task; `br` is not *)
(* run a second time.  Threads serve calls concurrently, each holding the  *)
(* lock of its request id for the whole call and the lock of the store     *)
(* while it talks to `br`.                                                  *)
(*                                                                         *)
(* `br` is a process of its own: it commits in a step of its own, and it   *)
(* survives a crash of the host that started it.                           *)
(***************************************************************************)
EXTENDS Naturals, FiniteSets

CONSTANTS
    Threads,        \* blocking threads that serve calls
    RequestIds,     \* request_id values clients use
    Tasks,          \* issues that exist in the store
    Participants,   \* participants that may claim
    Calls,          \* the calls clients make: a request id with its arguments
    Faults,         \* what may go wrong in this instance, a subset of FaultKinds
    None            \* absence of a value

Statuses   == {"open", "in_progress", "closed"}
Operations == {"create", "update", "claim", "release", "close"}
FaultKinds == {"receipt", "read", "external", "crash"}
Outcomes   == {"pending", "br_success", "observed", "rejected", "unknown"}

(* The complete semantic request that is fingerprinted.  An update carries *)
(* the status it sets, or None when it names no field at all.              *)
Semantics ==
    [op: Operations, task: Tasks \cup {None}, who: Participants \cup {None},
     status: Statuses \cup {None}]

WellFormed(s) ==
    /\ (s.op = "create") = (s.task = None)
    /\ (s.op \in {"claim", "release"}) = (s.who # None)
    /\ s.op # "update" => s.status = None

ASSUME NoneAssumption ==
    None \notin UNION {RequestIds, Tasks, Participants, Threads, Statuses, Outcomes}

ASSUME CallsAssumption ==
    /\ Calls \subseteq [rid: RequestIds, sem: Semantics]
    /\ \A c \in Calls : WellFormed(c.sem)
    /\ None \notin Calls \cup Semantics

ASSUME FaultsAssumption == Faults \subseteq FaultKinds

VARIABLES
    receipts,    \* durable receipts in the task-receipts channel
    issue,       \* the Beads issues: status and assignee of each task
    created,     \* request ids that an issue carries as external_ref
    child,       \* the br process of a request: None, or what it is to do
    registered,  \* participants registered in the workspace
    pc,          \* where each thread is in its call
    call,        \* the call each thread serves
    verdict,     \* what a thread is about to record
    reqLock,     \* request_locks: the thread that holds each request's lock
    storeLock,   \* the lock of the database path
    spawns,      \* history: br processes started for each request
    applied,     \* history: commits made on behalf of each request
    told         \* history: calls answered with success

durable  == <<receipts, issue, created, registered>>
volatile == <<pc, call, verdict, reqLock, storeLock>>
history  == <<spawns, applied, told>>
vars     == <<durable, child, volatile, history>>

Phases ==
    {"idle", "acquire", "look", "intend", "enter", "check", "run", "readback",
     "inspect", "record", "replay", "reconcile", "proved"}

Kinds    == {"task_intent", "task_result", "task_unknown"}

Receipt == [rid: RequestIds, kind: Kinds, sem: Semantics, outcome: Outcomes]
Issue   == [status: Statuses, assignee: Participants \cup {None}]

\* What br can be asked to do, and a br process: whether it has committed yet.
Command == {s \in Semantics : WellFormed(s) /\ (s.op = "update" => s.status # None)}
Child   == [sem: Command, committed: BOOLEAN]

Verdicts == (Outcomes \ {"pending"}) \cup {None}

TypeOK ==
    /\ receipts \subseteq Receipt
    /\ issue \in [Tasks -> Issue]
    /\ created \subseteq RequestIds
    /\ child \in [RequestIds -> Child \cup {None}]
    /\ registered \subseteq Participants
    /\ pc \in [Threads -> Phases]
    /\ call \in [Threads -> Calls \cup {None}]
    /\ verdict \in [Threads -> Verdicts]
    /\ reqLock \in [RequestIds -> Threads \cup {None}]
    /\ storeLock \in Threads \cup {None}
    /\ spawns \in [RequestIds -> Nat]
    /\ applied \in [RequestIds -> Nat]
    /\ told \subseteq Calls

Init ==
    /\ receipts = {}
    /\ issue = [t \in Tasks |-> [status |-> "open", assignee |-> None]]
    /\ created = {}
    /\ child = [r \in RequestIds |-> None]
    /\ registered = Participants
    /\ pc = [th \in Threads |-> "idle"]
    /\ call = [th \in Threads |-> None]
    /\ verdict = [th \in Threads |-> None]
    /\ reqLock = [r \in RequestIds |-> None]
    /\ storeLock = None
    /\ spawns = [r \in RequestIds |-> 0]
    /\ applied = [r \in RequestIds |-> 0]
    /\ told = {}

-----------------------------------------------------------------------------
(* Receipts.  mail_send is keyed by request and phase, so a request has at *)
(* most one receipt of each kind.                                          *)

ReceiptsOf(r) == {m \in receipts : m.rid = r}

Results(r) == {m \in ReceiptsOf(r) : m.kind = "task_result"}

NewReceipt(c, kind, outcome) ==
    [rid |-> c.rid, kind |-> kind, sem |-> c.sem, outcome |-> outcome]

ReceiptFor(c, v) ==
    NewReceipt(c, IF v = "unknown" THEN "task_unknown" ELSE "task_result", v)

(* The store as the host reads it.                                         *)

\* MUTANT of Admissible: a release does not compare the assignee.
MutReleaseAnyone(s) ==
    CASE s.op = "claim"   -> issue[s.task] = [status |-> "open", assignee |-> None]
      [] s.op = "release" -> issue[s.task].status # "closed"
      [] s.op = "update"  -> s.status # None
      [] OTHER            -> TRUE

\* What the host requires before it starts br for s.
Admissible(s) ==
    CASE s.op = "claim"   -> issue[s.task] = [status |-> "open", assignee |-> None]
      [] s.op = "release" -> /\ issue[s.task].status # "closed"
                             /\ issue[s.task].assignee = s.who
      [] s.op = "update"  -> s.status # None
      [] OTHER            -> TRUE

\* MUTANT of Shows: a claim is taken as proved by its assignee.
MutShowsClaim(r, s) ==
    CASE s.op = "create" -> r \in created
      [] s.op = "update" -> s.status \in {None, issue[s.task].status}
      [] s.op = "close"  -> issue[s.task].status = "closed"
      [] s.op = "claim"  -> issue[s.task].assignee = s.who
      [] OTHER           -> FALSE

\* Whether the task read back proves the request: a claim or a release is
\* never proved, since another request may have left the same assignee.  An
\* update that names no field is proved by any state (update_matches).
Shows(r, s) ==
    CASE s.op = "create" -> r \in created
      [] s.op = "update" -> s.status \in {None, issue[s.task].status}
      [] s.op = "close"  -> issue[s.task].status = "closed"
      [] OTHER           -> FALSE

(* br itself: what its transaction tolerates and what it writes.           *)

BrAllows(r, s) ==
    CASE s.op = "create" -> r \notin created
      [] s.op = "claim"  -> issue[s.task].assignee \in {None, s.who}
      [] s.op = "close"  -> issue[s.task].status # "closed"
      [] OTHER           -> TRUE

BrWrites(s) ==
    IF s.op = "create" THEN issue
    ELSE [issue EXCEPT ![s.task] =
            CASE s.op = "claim"   -> [status |-> "in_progress", assignee |-> s.who]
              [] s.op = "release" -> [status |-> "open", assignee |-> None]
              [] s.op = "update"  -> [@ EXCEPT !.status = s.status]
              [] s.op = "close"   -> [@ EXCEPT !.status = "closed"]]

-----------------------------------------------------------------------------
(* Steps of a thread                                                       *)

Goto(th, phase) == pc' = [pc EXCEPT ![th] = phase]

\* MUTANT of Unlock: the request lock is not released.
MutKeepRequestLock(th) ==
    /\ UNCHANGED reqLock
    /\ storeLock' = IF storeLock = th THEN None ELSE storeLock

\* The guard of the request lock and, if held, of the store are dropped.
Unlock(th) ==
    /\ reqLock' = [r \in RequestIds |-> IF reqLock[r] = th THEN None ELSE reqLock[r]]
    /\ storeLock' = IF storeLock = th THEN None ELSE storeLock

\* The call ends with an error or (ok) with a task.
Return(th, ok) ==
    /\ Goto(th, "idle")
    /\ call' = [call EXCEPT ![th] = None]
    /\ verdict' = [verdict EXCEPT ![th] = None]
    /\ Unlock(th)
    /\ told' = IF ok THEN told \cup {call[th]} ELSE told

(* A call is admitted.  A claim by someone not registered is refused here, *)
(* unless its request already has a receipt.  Calls refused for another    *)
(* reason (plugin detached, archived workspace) change nothing.            *)
Begin(th, c) ==
    /\ pc[th] = "idle"
    /\ c.sem.op = "claim" => c.sem.who \in registered \/ ReceiptsOf(c.rid) # {}
    /\ Goto(th, "acquire")
    /\ call' = [call EXCEPT ![th] = c]
    /\ UNCHANGED <<durable, child, verdict, reqLock, storeLock, history>>

Acquire(th) ==
    /\ pc[th] = "acquire"
    /\ reqLock[call[th].rid] = None
    /\ reqLock' = [reqLock EXCEPT ![call[th].rid] = th]
    /\ Goto(th, "look")
    /\ UNCHANGED <<durable, child, call, verdict, storeLock, history>>

\* MUTANT of Conflict: the fingerprint covers the operation only.
MutConflictByOperation(c) == \E m \in ReceiptsOf(c.rid) : m.sem.op # c.sem.op

\* The request id was used before with different arguments.
Conflict(c) == \E m \in ReceiptsOf(c.rid) : m.sem # c.sem

LookConflict(th) ==
    /\ pc[th] = "look"
    /\ Conflict(call[th])
    /\ Return(th, FALSE)
    /\ UNCHANGED <<durable, child, spawns, applied>>

LookRejected(th) ==
    /\ pc[th] = "look"
    /\ ~Conflict(call[th])
    /\ \E m \in Results(call[th].rid) : m.outcome = "rejected"
    /\ Return(th, FALSE)
    /\ UNCHANGED <<durable, child, spawns, applied>>

\* MUTANT of NextPhase: a pending intent does not stop br from running again.
MutRerunPending(r) == IF Results(r) # {} THEN "replay" ELSE "intend"

NextPhase(r) ==
    IF Results(r) # {} THEN "replay"
    ELSE IF ReceiptsOf(r) # {} THEN "reconcile" ELSE "intend"

LookReady(th) ==
    /\ pc[th] = "look"
    /\ ~Conflict(call[th])
    /\ \A m \in Results(call[th].rid) : m.outcome # "rejected"
    /\ Goto(th, NextPhase(call[th].rid))
    /\ UNCHANGED <<durable, child, call, verdict, reqLock, storeLock, history>>

\* The mail repository cannot be searched.
LookFails(th) ==
    /\ "receipt" \in Faults
    /\ pc[th] = "look"
    /\ Return(th, FALSE)
    /\ UNCHANGED <<durable, child, spawns, applied>>

RecordIntent(th) ==
    /\ pc[th] = "intend"
    /\ receipts' = receipts \cup {NewReceipt(call[th], "task_intent", "pending")}
    /\ Goto(th, "enter")
    /\ UNCHANGED <<issue, created, registered, child, call, verdict, reqLock,
                   storeLock, history>>

\* MUTANT of RecordIntentFails: the call goes on without its intent.
MutIgnoreIntentError(th) ==
    /\ "receipt" \in Faults
    /\ pc[th] = "intend"
    /\ Goto(th, "enter")
    /\ UNCHANGED <<durable, child, call, verdict, reqLock, storeLock, history>>

\* mail_send reports an error; the commit may have become durable before it.
RecordIntentFails(th) ==
    /\ "receipt" \in Faults
    /\ pc[th] = "intend"
    /\ \/ UNCHANGED receipts
       \/ receipts' = receipts \cup {NewReceipt(call[th], "task_intent", "pending")}
    /\ Return(th, FALSE)
    /\ UNCHANGED <<issue, created, registered, child, spawns, applied>>

\* MUTANT of EnterStore: the store is used without waiting for its lock.
MutNoStoreLock(th) ==
    /\ pc[th] = "enter"
    /\ Goto(th, "check")
    /\ UNCHANGED <<durable, child, call, verdict, reqLock, storeLock, history>>

EnterStore(th) ==
    /\ pc[th] = "enter"
    /\ storeLock = None
    /\ storeLock' = th
    /\ Goto(th, "check")
    /\ UNCHANGED <<durable, child, call, verdict, reqLock, history>>

\* The store lock is dropped and the outcome is about to be recorded.
Conclude(th, v) ==
    /\ verdict' = [verdict EXCEPT ![th] = v]
    /\ storeLock' = IF storeLock = th THEN None ELSE storeLock
    /\ Goto(th, "record")
    /\ UNCHANGED <<durable, call, reqLock, history>>

\* The store was detached, or the workspace archived, since the intent.
StoreGone(th) ==
    /\ pc[th] = "enter"
    /\ Conclude(th, "rejected")
    /\ UNCHANGED child

\* Preflight or the first read fails, or the task does not admit the request.
Reject(th) ==
    /\ pc[th] = "check"
    /\ \/ "read" \in Faults
       \/ ~Admissible(call[th].sem)
    /\ Conclude(th, "rejected")
    /\ UNCHANGED child

\* An issue already carries the request's external_ref.
FoundCreated(th) ==
    /\ pc[th] = "check"
    /\ call[th].sem.op = "create"
    /\ call[th].rid \in created
    /\ Conclude(th, "observed")
    /\ UNCHANGED child

Ready(c) == Admissible(c.sem) /\ (c.sem.op = "create" => c.rid \notin created)

Spawn(th) ==
    LET c == call[th] IN
    /\ pc[th] = "check"
    /\ Ready(c)
    /\ child' = [child EXCEPT ![c.rid] = [sem |-> c.sem, committed |-> FALSE]]
    /\ spawns' = [spawns EXCEPT ![c.rid] = @ + 1]
    /\ Goto(th, "run")
    /\ UNCHANGED <<durable, call, verdict, reqLock, storeLock, applied, told>>

\* The JSONL watermark moved since the check, or br cannot be launched: the
\* handler treats it like a failed command.
NotLaunched(th) ==
    /\ "external" \in Faults
    /\ pc[th] = "check"
    /\ Ready(call[th])
    /\ Goto(th, "inspect")
    /\ UNCHANGED <<durable, child, call, verdict, reqLock, storeLock, history>>

\* br committed, exited 0 and the JSONL flush succeeded.
RunSucceeds(th) ==
    LET r == call[th].rid IN
    /\ pc[th] = "run"
    /\ child[r] # None /\ child[r].committed
    /\ child' = [child EXCEPT ![r] = None]
    /\ Goto(th, "readback")
    /\ UNCHANGED <<durable, call, verdict, reqLock, storeLock, history>>

(* br refuses, exceeds its deadline and is killed, answers garbage, or the *)
(* flush fails.  Whether it committed is not known to the thread.          *)
RunFails(th) ==
    /\ pc[th] = "run"
    /\ child' = [child EXCEPT ![call[th].rid] = None]
    /\ Goto(th, "inspect")
    /\ UNCHANGED <<durable, call, verdict, reqLock, storeLock, history>>

ReadBack(th) ==
    /\ pc[th] = "readback"
    /\ Conclude(th, "br_success")
    /\ UNCHANGED child

\* The task cannot be read after br succeeded.
ReadBackFails(th) ==
    /\ "read" \in Faults
    /\ pc[th] = "readback"
    /\ Conclude(th, "rejected")
    /\ UNCHANGED child

\* MUTANT of Inspect: a failed command counts as rejected.
MutInspectRejects(th) ==
    /\ pc[th] = "inspect"
    /\ Conclude(th, IF Shows(call[th].rid, call[th].sem) THEN "observed" ELSE "rejected")
    /\ UNCHANGED child

Inspect(th) ==
    /\ pc[th] = "inspect"
    /\ Conclude(th, IF Shows(call[th].rid, call[th].sem) THEN "observed" ELSE "unknown")
    /\ UNCHANGED child

\* The task cannot be read after br failed.  Claim and release ignore it.
InspectFails(th) ==
    /\ "read" \in Faults
    /\ pc[th] = "inspect"
    /\ call[th].sem.op \in {"create", "update", "close"}
    /\ Conclude(th, "rejected")
    /\ UNCHANGED child

Succeeds(v) == v \in {"br_success", "observed"}

Record(th) ==
    /\ pc[th] = "record"
    /\ receipts' = receipts \cup {ReceiptFor(call[th], verdict[th])}
    /\ Return(th, Succeeds(verdict[th]))
    /\ UNCHANGED <<issue, created, registered, child, spawns, applied>>

\* The receipt is lost; the reply is the same (a success names receipt_error).
RecordFails(th) ==
    /\ "receipt" \in Faults
    /\ pc[th] = "record"
    /\ Return(th, Succeeds(verdict[th]))
    /\ UNCHANGED <<durable, child, spawns, applied>>

\* A recorded success is answered with the task as it is now.
Replay(th) ==
    /\ pc[th] = "replay"
    /\ storeLock = None
    /\ Return(th, TRUE)
    /\ UNCHANGED <<durable, child, spawns, applied>>

\* The store is gone or unreadable.
ReplayFails(th) ==
    /\ pc[th] = "replay"
    /\ Return(th, FALSE)
    /\ UNCHANGED <<durable, child, spawns, applied>>

\* A pending request that the store proves applied.
Reconcile(th) ==
    /\ pc[th] = "reconcile"
    /\ storeLock = None
    /\ Shows(call[th].rid, call[th].sem)
    /\ Goto(th, "proved")
    /\ UNCHANGED <<durable, child, call, verdict, reqLock, storeLock, history>>

\* The store does not prove it: br is not run again.
Unproved(th) ==
    /\ pc[th] = "reconcile"
    /\ storeLock = None
    /\ ~Shows(call[th].rid, call[th].sem)
    /\ Return(th, FALSE)
    /\ UNCHANGED <<durable, child, spawns, applied>>

\* The store is gone or unreadable.
ReconcileFails(th) ==
    /\ pc[th] = "reconcile"
    /\ Return(th, FALSE)
    /\ UNCHANGED <<durable, child, spawns, applied>>

RecordProved(th) ==
    /\ pc[th] = "proved"
    /\ receipts' = receipts \cup {ReceiptFor(call[th], "observed")}
    /\ Return(th, TRUE)
    /\ UNCHANGED <<issue, created, registered, child, spawns, applied>>

\* Unlike Record, the call fails when this receipt is reported not written.
RecordProvedFails(th) ==
    /\ "receipt" \in Faults
    /\ pc[th] = "proved"
    /\ \/ UNCHANGED receipts
       \/ receipts' = receipts \cup {ReceiptFor(call[th], "observed")}
    /\ Return(th, FALSE)
    /\ UNCHANGED <<issue, created, registered, child, spawns, applied>>

-----------------------------------------------------------------------------
(* Steps of br, of participants, of other programs, and crashes            *)

BrCommits(r) ==
    /\ child[r] # None
    /\ ~child[r].committed
    /\ BrAllows(r, child[r].sem)
    /\ child' = [child EXCEPT ![r].committed = TRUE]
    /\ issue' = BrWrites(child[r].sem)
    /\ created' = IF child[r].sem.op = "create" THEN created \cup {r} ELSE created
    /\ applied' = [applied EXCEPT ![r] = @ + 1]
    /\ UNCHANGED <<receipts, registered, volatile, spawns, told>>

\* A br process whose host has died ends, committed or not.
OrphanExits(r) ==
    /\ child[r] # None
    /\ \A th \in Threads : ~(pc[th] = "run" /\ call[th].rid = r)
    /\ child' = [child EXCEPT ![r] = None]
    /\ UNCHANGED <<durable, volatile, history>>

Leave(p) ==
    /\ p \in registered
    /\ registered' = registered \ {p}
    /\ UNCHANGED <<receipts, issue, created, child, volatile, history>>

Resume(p) ==
    /\ p \notin registered
    /\ registered' = registered \cup {p}
    /\ UNCHANGED <<receipts, issue, created, child, volatile, history>>

\* Another program changes the store: an external br, or an imported JSONL.
External(t) ==
    /\ "external" \in Faults
    /\ \E new \in Issue : issue' = [issue EXCEPT ![t] = new]
    /\ UNCHANGED <<receipts, created, registered, child, volatile, history>>

ExternalCreate(r) ==
    /\ "external" \in Faults
    /\ created' = created \cup {r}
    /\ UNCHANGED <<receipts, issue, registered, child, volatile, history>>

\* The host dies and is started again.  Its br processes live on.
Crash ==
    /\ "crash" \in Faults
    /\ pc' = [th \in Threads |-> "idle"]
    /\ call' = [th \in Threads |-> None]
    /\ verdict' = [th \in Threads |-> None]
    /\ reqLock' = [r \in RequestIds |-> None]
    /\ storeLock' = None
    /\ UNCHANGED <<durable, child, history>>

\* Steps that wait for a mutex.
Lock(th) ==
    Acquire(th) \/ EnterStore(th) \/ Replay(th) \/ Reconcile(th) \/ Unproved(th)

\* Steps that wait for nobody.
Proceed(th) ==
    \/ LookConflict(th) \/ LookRejected(th) \/ LookReady(th)
    \/ RecordIntent(th)
    \/ Reject(th) \/ FoundCreated(th) \/ Spawn(th)
    \/ RunSucceeds(th) \/ RunFails(th) \/ ReadBack(th) \/ Inspect(th)
    \/ Record(th) \/ RecordProved(th)

\* Ways in which a step may go wrong.
Fail(th) ==
    \/ LookFails(th) \/ RecordIntentFails(th) \/ StoreGone(th) \/ NotLaunched(th)
    \/ ReadBackFails(th) \/ InspectFails(th) \/ RecordFails(th)
    \/ ReplayFails(th) \/ ReconcileFails(th) \/ RecordProvedFails(th)

Next ==
    \/ \E th \in Threads : Lock(th) \/ Proceed(th) \/ Fail(th)
    \/ \E th \in Threads, c \in Calls : Begin(th, c)
    \/ \E r \in RequestIds : BrCommits(r) \/ OrphanExits(r) \/ ExternalCreate(r)
    \/ \E p \in Participants : Leave(p) \/ Resume(p)
    \/ \E t \in Tasks : External(t)
    \/ Crash

Spec == Init /\ [][Next]_vars

(* A thread that can go on does, a br process is killed at its deadline    *)
(* (RunFails), and a mutex that is freed again and again does not pass the *)
(* same waiter over for ever.  Faults are not fair, and nobody has to call.*)
Fairness == \A th \in Threads : WF_vars(Proceed(th)) /\ SF_vars(Lock(th))

FairSpec == Spec /\ Fairness

-----------------------------------------------------------------------------
(* Safety                                                                  *)

(* br is started at most once for a request id, whatever number of retries *)
(* and crashes: an intent is durable before br starts and every later call *)
(* finds it (mutate_task).                                                 *)
OneBrPerRequest == \A r \in RequestIds : spawns[r] <= 1

(* A request id keeps the arguments it was first used with: its receipts,  *)
(* the br process started for it and every call answered with success      *)
(* agree (the fingerprint check of mutate_task), and each success or       *)
(* process has a receipt to be found by the next retry.                    *)
OneMeaningPerRequest ==
    /\ \A m, n \in receipts : m.rid = n.rid => m.sem = n.sem
    /\ \A c \in told :
         ReceiptsOf(c.rid) # {} /\ \A m \in ReceiptsOf(c.rid) : m.sem = c.sem
    /\ \A r \in RequestIds : child[r] # None =>
         ReceiptsOf(r) # {} /\ \A m \in ReceiptsOf(r) : m.sem = child[r].sem

OwnOnly == {"create", "claim", "release"}

(* A create, claim or release that is recorded or answered as a success    *)
(* was committed by br for this very request; so was any br_success.       *)
(* Seeing a matching task later is not proof (claim and release in beads). *)
SuccessIsOwn ==
    /\ \A m \in receipts :
         m.outcome = "br_success" \/ (m.outcome = "observed" /\ m.sem.op \in OwnOnly)
            => applied[m.rid] = 1
    /\ \A c \in told : c.sem.op \in OwnOnly => applied[c.rid] = 1

(* A request recorded as rejected was not carried out, will not be, and    *)
(* was never answered with success: its error is replayed for ever.        *)
RejectedMeansUntouched ==
    \A m \in receipts : m.outcome = "rejected" =>
        /\ applied[m.rid] = 0
        /\ child[m.rid] = None
        /\ \A c \in told : c.rid # m.rid

(* A claimed task changes hands only through its holder: it becomes        *)
(* unassigned by a release that names the current assignee, and assigned   *)
(* only when nobody holds it (release and claim in beads).                 *)
HolderKeepsTask ==
    [][\A t \in Tasks : issue'[t].assignee # issue[t].assignee =>
        \/ issue[t].assignee = None
        \/ /\ issue'[t].assignee = None
           /\ \E r \in RequestIds :
                /\ child[r] # None /\ child[r].sem.op = "release"
                /\ child[r].sem.task = t
                /\ child[r].sem.who = issue[t].assignee]_vars

(* br carries out a release only while nobody but the participant that     *)
(* releases the task holds it (the doc comment on release in beads).       *)
ReleaseOnlyByAssignee ==
    [][\A r \in RequestIds :
        (applied'[r] # applied[r] /\ child[r].sem.op = "release") =>
            issue[child[r].sem.task].assignee \in {None, child[r].sem.who}]_vars

(* Only an update that names another status reopens a closed task: a claim *)
(* or release checked before the close cannot undo it (the store lock      *)
(* spans the check and br).                                                *)
ClosedStaysClosed ==
    [][\A t \in Tasks : issue[t].status = "closed" /\ issue'[t].status # "closed" =>
        \E r \in RequestIds :
            /\ child[r] # None /\ child[r].sem.op = "update"
            /\ child[r].sem.task = t]_vars

(* Every admitted call returns, although it takes a request lock, then the *)
(* store lock, and waits for br (lock order of mutate_task, COMMAND_TIMEOUT *)
(* of bounded_output).                                                     *)
CallReturns == \A th \in Threads : pc[th] # "idle" ~> pc[th] = "idle"

-----------------------------------------------------------------------------
(* Inductive invariants behind the theorems of TaskRequests_proofs.        *)

\* A thread in a call knows the call; past "acquire" it holds its request lock;
\* it records nothing before it has a verdict.
Control ==
    \A th \in Threads :
        /\ pc[th] # "idle" => call[th] # None
        /\ pc[th] \notin {"idle", "acquire"} => reqLock[call[th].rid] = th
        /\ pc[th] = "record" => verdict[th] # None

\* What a thread that has read the receipts may rely on until it returns.
Pending ==
    /\ \A th \in Threads :
        /\ pc[th] \notin {"idle", "acquire", "look"} =>
             \A m \in ReceiptsOf(call[th].rid) : m.sem = call[th].sem
        /\ pc[th] \notin {"idle", "acquire", "look", "intend"} =>
             ReceiptsOf(call[th].rid) # {}
        /\ pc[th] = "intend" => ReceiptsOf(call[th].rid) = {}
        /\ pc[th] \in {"intend", "enter", "check"} => spawns[call[th].rid] = 0
    /\ \A r \in RequestIds : spawns[r] > 0 => ReceiptsOf(r) # {}

(* What a retry relies on, in any state the host can reach: a lock and a   *)
(* receipt stand behind every br process and every pending call.           *)
IInv == TypeOK /\ Control /\ Pending /\ OneBrPerRequest /\ OneMeaningPerRequest

Untold(r) == \A c \in told : c.rid # r

\* While tasks can be read, only a request br was not started for is rejected.
RejectedInv ==
    /\ \A r \in RequestIds : spawns[r] = 0 => applied[r] = 0 /\ child[r] = None
    /\ \A m \in receipts : m.outcome = "rejected" =>
        m.kind = "task_result" /\ spawns[m.rid] = 0 /\ Untold(m.rid)
    /\ \A th \in Threads :
        LET r == call[th].rid IN
        /\ pc[th] \in {"intend", "enter", "check"} => spawns[r] = 0 /\ Untold(r)
        /\ (pc[th] = "record" /\ verdict[th] = "rejected") => spawns[r] = 0 /\ Untold(r)
        /\ pc[th] \notin {"idle", "acquire", "look"} =>
             \A m \in ReceiptsOf(r) : m.outcome # "rejected"

-----------------------------------------------------------------------------
(* Refinement: to its clients a request id is an at-most-once request.     *)

boundTo(r) ==
    IF ReceiptsOf(r) = {} THEN None ELSE (CHOOSE m \in ReceiptsOf(r) : TRUE).sem

answerTo(r) ==
    IF Results(r) = {} THEN "open"
    ELSE IF \E m \in Results(r) : m.outcome = "rejected" THEN "denied"
    ELSE "confirmed"

Abstract ==
    INSTANCE AtMostOnce WITH
        Requests <- RequestIds,
        Meanings <- {c.sem : c \in Calls},
        Own      <- {s \in {c.sem : c \in Calls} : s.op \in OwnOnly},
        bound    <- [r \in RequestIds |-> boundTo(r)],
        effects  <- applied,
        answer   <- [r \in RequestIds |-> answerTo(r)]

(* The receipts and commits of the host behave as AtMostOnce says.         *)
ImplementsAtMostOnce == Abstract!Spec
=============================================================================
