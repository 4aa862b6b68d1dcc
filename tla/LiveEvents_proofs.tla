-------------------------- MODULE LiveEvents_proofs --------------------------
(***************************************************************************)
(* Proofs about LiveEvents, for every set of callers, waiters, sockets and *)
(* sessions, every capacity of a channel and every bound of waits: the     *)
(* slots are those of the calls that wait, and neither a wake-up nor a     *)
(* change on a browser's screen is lost.                                   *)
(***************************************************************************)
EXTENDS LiveEvents, FiniteSetTheorems, TLAPS

Held == {w \in Waiters : Waiting(w)}
Counted == IsFiniteSet(Held) /\ slots = Cardinality(Held)

\* A caller that is to publish has an event, and the loop finds a difference on its
\* way from the scan to the send.
Publishing ==
    /\ \A c \in Callers : caller[c].phase # "idle" => caller[c].event \in Events
    /\ watch.found => watch.phase \in {"compare", "send", "off"}

TypeInv == LiveTypeOK /\ Counted /\ Publishing

-----------------------------------------------------------------------------
(* Queues.                                                                 *)

Queue == UNION {[1..n -> Events] : n \in 0..QueueLimit}

LEMMA QueueType ==
    ASSUME NEW q
    PROVE  q \in Queue <=> q \in Seq(Events) /\ Len(q) <= QueueLimit
<1>1. ASSUME q \in Queue PROVE q \in Seq(Events) /\ Len(q) <= QueueLimit
  <2>1. PICK n \in 0..QueueLimit : q \in [1..n -> Events]
    BY <1>1 DEF Queue
  <2>2. n \in Nat /\ n <= QueueLimit
    BY LimitsAssumption
  <2>3. q \in Seq(Events) /\ Len(q) = n
    BY <2>1, <2>2
  <2>. QED
    BY <2>2, <2>3
<1>2. ASSUME q \in Seq(Events), Len(q) <= QueueLimit PROVE q \in Queue
  <2>1. q \in [1..Len(q) -> Events] /\ Len(q) \in 0..QueueLimit
    BY <1>2, LimitsAssumption
  <2>. QED
    BY <2>1 DEF Queue
<1>. QED
  BY <1>1, <1>2

LEMMA SocketFields ==
    ASSUME NEW sock
    PROVE  sock \in Socket <=>
             /\ sock = [phase |-> sock.phase, session |-> sock.session, live |-> sock.live,
                        queue |-> sock.queue, lagged |-> sock.lagged, stale |-> sock.stale]
             /\ sock.phase \in {"closed", "upgrade", "hello", "open"}
             /\ sock.session \in Sessions \cup {None}
             /\ sock.live \in BOOLEAN
             /\ sock.queue \in Queue
             /\ sock.lagged \in BOOLEAN
             /\ sock.stale \in SUBSET Kinds
  BY DEF Socket, Queue

\* An event that is sent waits in the queue, and what was to bring everything up to
\* date still does: a full queue drops its oldest event and tells the subscriber so.
Caught(sock) == sock.lagged \/ "resync" \in ToSet(sock.queue)

LEMMA SendFact ==
    ASSUME NEW sock \in Socket, NEW event \in Events
    PROVE  /\ Enqueued(sock, event) \in Socket
           /\ Enqueued(sock, event).phase = sock.phase
           /\ Enqueued(sock, event).stale = sock.stale
           /\ Enqueued(sock, event).queue # <<>>
           /\ Caught(sock) \/ event = "resync" => Caught(Enqueued(sock, event))
<1>. DEFINE q == sock.queue
<1>1. q \in Seq(Events) /\ Len(q) <= QueueLimit /\ QueueLimit \in Nat \ {0}
  BY SocketFields, QueueType, LimitsAssumption
<1>2. CASE Len(q) < QueueLimit
  <2>1. Enqueued(sock, event) = [sock EXCEPT !.queue = Append(q, event)]
    BY <1>2 DEF Enqueued
  <2>2. Append(q, event) \in Queue /\ Append(q, event) # <<>>
    <3>1. Append(q, event) \in Seq(Events) /\ Len(Append(q, event)) = Len(q) + 1
      BY <1>1
    <3>2. Len(Append(q, event)) <= QueueLimit /\ Append(q, event) # <<>>
      BY <1>1, <1>2, <3>1
    <3>. HIDE DEF q
    <3>. QED
      BY <3>1, <3>2, QueueType
  <2>3. "resync" \in ToSet(q) \/ event = "resync" => "resync" \in ToSet(Append(q, event))
    <3>1. /\ \A i \in DOMAIN q : i \in DOMAIN Append(q, event) /\ Append(q, event)[i] = q[i]
          /\ Len(q) + 1 \in DOMAIN Append(q, event) /\ Append(q, event)[Len(q) + 1] = event
      BY <1>1
    <3>. QED
      BY <3>1 DEF ToSet
  <2>. QED
    BY <2>1, <2>2, <2>3, SocketFields DEF Caught, Socket, Queue
<1>3. CASE Len(q) >= QueueLimit
  <2>0. ~(Len(q) < QueueLimit)
    BY <1>1, <1>3
  <2>1. Enqueued(sock, event) = [sock EXCEPT !.queue = Append(Tail(q), event), !.lagged = TRUE]
    BY <2>0 DEF Enqueued
  <2>2. Append(Tail(q), event) \in Queue /\ Append(Tail(q), event) # <<>>
    <3>1. Tail(q) \in Seq(Events) /\ Len(Tail(q)) = Len(q) - 1
      BY <1>1, <1>3
    <3>2. /\ Append(Tail(q), event) \in Seq(Events)
          /\ Len(Append(Tail(q), event)) = Len(q)
      BY <1>1, <1>3, <3>1
    <3>3. Len(Append(Tail(q), event)) <= QueueLimit /\ Append(Tail(q), event) # <<>>
      BY <1>1, <1>3, <3>2
    <3>. HIDE DEF q
    <3>. QED
      BY <3>2, <3>3, QueueType
  <2>. QED
    BY <2>1, <2>2, SocketFields DEF Caught, Socket, Queue
<1>. QED
  BY <1>1, <1>2, <1>3

LEMMA ShownFact ==
    ASSUME NEW sock \in Socket, sock.queue # <<>>
    PROVE  /\ Shown(sock) \in Socket
           /\ Shown(sock).phase = sock.phase
           /\ Shown(sock).stale \subseteq sock.stale \ {"call"}
           /\ Caught(sock) /\ "edit" \in Shown(sock).stale => Caught(Shown(sock))
<1>1. CASE sock.lagged
  BY <1>1 DEF Shown, Socket
<1>2. CASE ~sock.lagged
  <2>. DEFINE q == sock.queue
  <2>1. q \in Seq(Events) /\ Len(q) <= QueueLimit /\ q # <<>>
    BY SocketFields, QueueType
  <2>2. Tail(q) \in Queue
    <3>1. Tail(q) \in Seq(Events) /\ Len(Tail(q)) = Len(q) - 1 /\ Len(q) \in Nat
      BY <2>1
    <3>2. Len(Tail(q)) <= QueueLimit
      BY <2>1, <3>1, LimitsAssumption
    <3>. HIDE DEF q
    <3>. QED
      BY <3>1, <3>2, QueueType
  <2>3. ASSUME "resync" \in ToSet(q), Head(q) # "resync" PROVE "resync" \in ToSet(Tail(q))
    <3>1. PICK i \in DOMAIN q : q[i] = "resync"
      BY <2>3 DEF ToSet
    <3>2. i \in 2..Len(q)
      BY <2>1, <2>3, <3>1
    <3>3. i - 1 \in DOMAIN Tail(q) /\ Tail(q)[i - 1] = q[i]
      BY <2>1, <3>2
    <3>. QED
      BY <3>1, <3>3 DEF ToSet
  <2>4. Shown(sock) = [sock EXCEPT !.queue = Tail(q),
            !.stale = IF Head(q) = "resync" THEN {} ELSE sock.stale \ {"call"}]
    BY <1>2 DEF Shown
  <2>5. Shown(sock) \in Socket
    BY <2>2, <2>4 DEF Socket, Queue, Kinds
  <2>. QED
    BY <1>2, <2>3, <2>4, <2>5 DEF Caught, Socket
<1>. QED
  BY <1>1, <1>2

-----------------------------------------------------------------------------
(* Slots.                                                                  *)

LEMMA SlotsAreCounted == LiveTypeOK /\ Counted => slots \in Nat /\ MaxWaiters \in Nat
  BY LimitsAssumption DEF LiveTypeOK

\* Nobody begins or ends to wait.
LEMMA SameHeld ==
    ASSUME Counted, slots' = slots,
           \A w \in Waiters : (waiter'[w].phase \in {"wait", "mark", "rescan"}) <=> Waiting(w)
    PROVE  Counted'
<1>1. Held' = Held
  BY DEF Held, Waiting
<1>. QED
  BY <1>1 DEF Counted

LEMMA OneMore ==
    ASSUME LiveTypeOK, Counted, NEW w \in Waiters, ~Waiting(w),
           Sleep(w), slots' = slots + 1
    PROVE  Counted'
<1>1. Held' = Held \cup {w}
  BY DEF LiveTypeOK, Held, Waiting, Sleep, Move, Waiter
<1>2. w \notin Held
  BY DEF Held
<1>3. IsFiniteSet(Held') /\ Cardinality(Held') = Cardinality(Held) + 1
  BY <1>1, <1>2, FS_AddElement DEF Counted
<1>. QED
  BY <1>3 DEF Counted

LEMMA OneLess ==
    ASSUME LiveTypeOK, Counted, NEW w \in Waiters, Waiting(w), Leave(w)
    PROVE  Counted' /\ slots \in 1..MaxWaiters
<1>1. Held' = Held \ {w}
  BY DEF LiveTypeOK, Held, Waiting, Leave, NoWait
<1>2. w \in Held
  BY DEF Held
<1>3. IsFiniteSet(Held') /\ Cardinality(Held') = Cardinality(Held) - 1
  BY <1>1, <1>2, FS_RemoveElement DEF Counted
<1>4. Cardinality(Held) \in Nat /\ Cardinality(Held) # 0
  BY <1>2, FS_CardinalityType, FS_EmptySet DEF Counted
<1>5. slots' = slots - 1
  BY DEF Leave
<1>. QED
  BY <1>3, <1>4, <1>5, SlotsAreCounted DEF Counted, LiveTypeOK

\* What Mail and note_mail_change make of the waiters.
Nudged == \A w \in Waiters : waiter'[w].phase = waiter[w].phase

LEMMA NudgeFact ==
    ASSUME waiter \in [Waiters -> Waiter],
           \/ \E arrives \in BOOLEAN : Mail(arrives)
           \/ \E event \in Events : note_mail_change(event)
    PROVE  waiter' \in [Waiters -> Waiter] /\ Nudged
<1>1. \A x \in Waiter : /\ [x EXCEPT !.unseen = TRUE] \in Waiter
                        /\ [x EXCEPT !.unseen = TRUE].phase = x.phase
                        /\ [x EXCEPT !.changed = TRUE] \in Waiter
                        /\ [x EXCEPT !.changed = TRUE].phase = x.phase
  BY DEF Waiter
<1>2. ASSUME NEW arrives \in BOOLEAN, Mail(arrives)
      PROVE  waiter' \in [Waiters -> Waiter] /\ Nudged
  BY <1>1, <1>2 DEF Mail, Nudged
<1>3. ASSUME NEW event \in Events, note_mail_change(event)
      PROVE  waiter' \in [Waiters -> Waiter] /\ Nudged
  BY <1>1, <1>3 DEF note_mail_change, Nudged
<1>. QED
  BY <1>2, <1>3

(* ALERT_WAITERS is the number of the calls that wait, whatever steps.     *)
LEMMA CountStep ==
    ASSUME TypeInv, Next
    PROVE  Counted'
<1>. USE DEF TypeInv
<1>s. ASSUME slots' = slots, waiter' = waiter PROVE Counted'
  BY <1>s, SameHeld DEF Waiting
<1>n. ASSUME slots' = slots, Nudged PROVE Counted'
  BY <1>n, SameHeld DEF Nudged, Waiting
<1>t. waiter \in [Waiters -> Waiter]
  BY DEF LiveTypeOK
<1>1. ASSUME NEW c \in Callers, Mutate(c) PROVE Counted'
  <2>1. \E arrives \in BOOLEAN : Mail(arrives)
    BY <1>1 DEF Mutate
  <2>. QED
    BY <1>1, <1>n, <1>t, <2>1, NudgeFact DEF Mutate
<1>2. ASSUME NEW c \in Callers, Send(c) PROVE Counted'
  BY <1>2, <1>s DEF Send
<1>3. ASSUME NEW c \in Callers, Note(c) PROVE Counted'
  BY <1>3, <1>n, <1>t, NudgeFact DEF Note, Publishing
<1>4. CASE Edit
  <2>1. \E arrives \in BOOLEAN : Mail(arrives)
    BY <1>4 DEF Edit, LiveTypeOK, Watch
  <2>. QED
    BY <1>4, <1>n, <1>t, <2>1, NudgeFact DEF Edit
<1>5. CASE Scan \/ WatchSend \/ \E fallback \in BOOLEAN : Compare(fallback)
  BY <1>5, <1>s DEF Scan, WatchSend, Compare
<1>6. CASE WatchNote
  BY <1>6, <1>n, <1>t, NudgeFact DEF WatchNote, Events
<1>7. CASE \E i \in Sessions : Logout(i)
  BY <1>7, <1>s DEF Logout
<1>8. CASE \E s \in Sockets : Connect(s) \/ SocketSteps(s) \/ Stop(s) \/ Breaks(s)
  BY <1>8, <1>s DEF Connect, SocketSteps, Subscribe, Hello, Deliver, Stop, Breaks, Close
<1>9. ASSUME NEW w \in Waiters, Ask(w) \/ WaiterSteps(w) PROVE Counted'
  <2>1. CASE Ask(w)
    BY <1>t, <2>1, SameHeld DEF Ask, Waiting
  <2>2. CASE FirstScan(w)
    BY <1>t, <2>2, SameHeld DEF FirstScan, Waiting, Move, NoWait, Waiter
  <2>3. CASE AcquireSlot(w)
    <3>1. ~Waiting(w)
      BY <2>3 DEF AcquireSlot, Waiting
    <3>2. CASE Sleep(w) /\ slots' = slots + 1
      BY <3>1, <3>2, OneMore
    <3>3. CASE waiter' = [waiter EXCEPT ![w] = NoWait] /\ slots' = slots
      BY <1>t, <3>1, <3>3, SameHeld DEF Waiting, NoWait
    <3>. QED
      BY <2>3, <3>2, <3>3 DEF AcquireSlot
  <2>4. CASE Wake(w)
    BY <1>t, <2>4, SameHeld DEF Wake, Waiting, Move, Waiter
  <2>5. CASE GiveUp(w)
    BY <2>5, OneLess DEF GiveUp, Elapses, Waiting
  <2>6. CASE TakeMark(w)
    BY <1>t, <2>6, SameHeld DEF TakeMark, Waiting, Waiter
  <2>7. CASE Rescan(w)
    <3>1. Waiting(w)
      BY <2>7 DEF Rescan, Waiting
    <3>2. CASE Leave(w)
      BY <3>1, <3>2, OneLess
    <3>3. CASE Sleep(w) /\ slots' = slots
      BY <1>t, <3>1, <3>3, SameHeld DEF Waiting, Sleep, Move, Waiter
    <3>. QED
      BY <2>7, <3>2, <3>3 DEF Rescan
  <2>. QED
    BY <1>9, <2>1, <2>2, <2>3, <2>4, <2>5, <2>6, <2>7 DEF WaiterSteps
<1>10. CASE Archive \/ CancelHub \/ Shutdown
  BY <1>10, <1>s DEF Archive, CancelHub, Shutdown
<1>. QED
  BY <1>1, <1>2, <1>3, <1>4, <1>5, <1>6, <1>7, <1>8, <1>9, <1>10
     DEF Next, CallerSteps, WatchSteps

-----------------------------------------------------------------------------
(* Types.                                                                  *)

LEMMA StaleType ==
    ASSUME socket \in [Sockets -> Socket], NEW kind \in Kinds, Stale(kind)
    PROVE  socket' \in [Sockets -> Socket]
<1>1. \A x \in Socket : [x EXCEPT !.stale = @ \cup {kind}] \in Socket
  BY DEF Socket
<1>. QED
  BY <1>1 DEF Stale

LEMMA PublishType ==
    ASSUME socket \in [Sockets -> Socket], NEW event \in Events, publish(event)
    PROVE  socket' \in [Sockets -> Socket]
<1>1. \A s \in Sockets : Enqueued(socket[s], event) \in Socket
  BY SendFact
<1>. QED
  BY <1>1 DEF publish

LEMMA EditedSocket ==
    ASSUME NEW sock \in Socket, NEW phase \in {"closed", "upgrade", "hello", "open"}
    PROVE  /\ [sock EXCEPT !.live = FALSE] \in Socket
           /\ [sock EXCEPT !.phase = phase] \in Socket
           /\ \A i \in Sessions : [sock EXCEPT !.phase = phase, !.session = i] \in Socket
<1>. DEFINE Fields(Q) == [phase: {"closed", "upgrade", "hello", "open"},
         session: Sessions \cup {None}, live: BOOLEAN, queue: Q,
         lagged: BOOLEAN, stale: SUBSET Kinds]
<1>1. Socket = Fields(Queue)
  BY DEF Socket, Queue
<1>2. ASSUME NEW Q, NEW x \in Fields(Q)
      PROVE  /\ [x EXCEPT !.live = FALSE] \in Fields(Q)
             /\ [x EXCEPT !.phase = phase] \in Fields(Q)
             /\ \A i \in Sessions :
                    [x EXCEPT !.phase = phase, !.session = i] \in Fields(Q)
  OBVIOUS
<1>. QED
  BY <1>1, <1>2

LEMMA EndType ==
    ASSUME socket \in [Sockets -> Socket], NEW ids \in SUBSET Sessions, EndSessions(ids)
    PROVE  socket' \in [Sockets -> Socket]
<1>1. ASSUME NEW s \in Sockets PROVE socket'[s] \in Socket
  <2>1. CASE socket[s].session \in ids
    BY <2>1, EditedSocket DEF EndSessions
  <2>2. CASE socket[s].session \notin ids
    BY <2>2 DEF EndSessions
  <2>. QED
    BY <2>1, <2>2
<1>. QED
  BY <1>1 DEF EndSessions

LEMMA ClosedType == Closed \in Socket
<1>1. <<>> \in Queue
  <2>1. <<>> \in Seq(Events) /\ Len(<<>>) <= QueueLimit
    BY LimitsAssumption
  <2>. QED
    BY <2>1, QueueType
<1>. QED
  BY <1>1 DEF Closed, Socket, Queue

LEMMA MoveType ==
    ASSUME waiter \in [Waiters -> Waiter], NEW w \in Waiters,
           NEW phase \in {"idle", "scan", "acquire", "wait", "mark", "rescan"},
           Move(w, phase)
    PROVE  waiter' \in [Waiters -> Waiter]
  BY DEF Move, Waiter

(* Every step keeps the types, and what the caller and the loop are about  *)
(* to do keeps its meaning.                                                *)
LEMMA TypeStep ==
    ASSUME TypeInv, Next
    PROVE  LiveTypeOK' /\ Publishing'
<1>. USE DEF TypeInv, LiveTypeOK, Publishing
<1>w. NoWait \in Waiter
  BY DEF NoWait, Waiter
<1>q. Quiet \in Caller
  BY DEF Quiet, Caller
<1>1. ASSUME NEW c \in Callers, Mutate(c) PROVE LiveTypeOK' /\ Publishing'
  <2>1. socket' \in [Sockets -> Socket]
    BY <1>1, StaleType DEF Mutate, Kinds
  <2>2. waiter' \in [Waiters -> Waiter]
    <3>1. \E arrives \in BOOLEAN : Mail(arrives)
      BY <1>1 DEF Mutate
    <3>. QED
      BY <3>1, NudgeFact
  <2>3. /\ caller' \in [Callers -> Caller]
        /\ \A d \in Callers : caller'[d].phase # "idle" => caller'[d].event \in Events
    BY <1>1 DEF Mutate, Caller
  <2>4. watch' \in Watch /\ watch'.found = watch.found /\ watch'.phase = watch.phase
    BY <1>1 DEF Mutate, Watch
  <2>. QED
    BY <1>1, <2>1, <2>2, <2>3, <2>4 DEF Mutate, host
<1>2. ASSUME NEW c \in Callers, Send(c) PROVE LiveTypeOK' /\ Publishing'
  <2>1. socket' \in [Sockets -> Socket]
    BY <1>2, PublishType DEF Send
  <2>2. /\ caller' \in [Callers -> Caller]
        /\ \A d \in Callers : caller'[d].phase # "idle" => caller'[d].event \in Events
    <3>1. CASE caller' = [caller EXCEPT ![c] = Quiet]
      BY <1>q, <3>1 DEF Quiet
    <3>2. CASE caller' = [caller EXCEPT ![c].phase = "note"]
      BY <1>2, <3>2 DEF Send, Caller
    <3>. QED
      BY <1>2, <3>1, <3>2 DEF Send
  <2>. QED
    BY <1>2, <2>1, <2>2 DEF Send, host
<1>3. ASSUME NEW c \in Callers, Note(c) PROVE LiveTypeOK' /\ Publishing'
  <2>1. waiter' \in [Waiters -> Waiter]
    BY <1>3, NudgeFact DEF Note
  <2>. QED
    BY <1>3, <1>q, <2>1 DEF Note, host, Quiet
<1>4. CASE Edit
  <2>1. socket' \in [Sockets -> Socket]
    BY <1>4, StaleType DEF Edit, Kinds
  <2>2. waiter' \in [Waiters -> Waiter]
    <3>1. \E arrives \in BOOLEAN : Mail(arrives)
      BY <1>4 DEF Edit, Watch
    <3>. QED
      BY <3>1, NudgeFact
  <2>3. watch' \in Watch /\ watch'.found = watch.found /\ watch'.phase = watch.phase
    BY <1>4 DEF Edit, Watch
  <2>. QED
    BY <1>4, <2>1, <2>2, <2>3 DEF Edit, host
<1>5. CASE Scan \/ WatchSend \/ \E fallback \in BOOLEAN : Compare(fallback)
  <2>1. socket' \in [Sockets -> Socket]
    BY <1>5, PublishType DEF Scan, WatchSend, Compare, Events
  <2>2. watch' \in Watch /\ (watch'.found => watch'.phase \in {"compare", "send", "off"})
    BY <1>5, LimitsAssumption DEF Scan, WatchSend, Compare, Differs, Watch
  <2>. QED
    BY <1>5, <2>1, <2>2 DEF Scan, WatchSend, Compare, host
<1>6. CASE WatchNote
  <2>1. waiter' \in [Waiters -> Waiter]
    BY <1>6, NudgeFact DEF WatchNote, Events
  <2>. QED
    BY <1>6, <2>1 DEF WatchNote, Watch, host
<1>7. CASE \E i \in Sessions : Logout(i)
  BY <1>7, EndType DEF Logout, host
<1>8. CASE \E s \in Sockets : Connect(s) \/ SocketSteps(s) \/ Stop(s) \/ Breaks(s)
  <2>1. socket' \in [Sockets -> Socket]
    <3>1. PICK s \in Sockets : Connect(s) \/ SocketSteps(s) \/ Stop(s) \/ Breaks(s)
      BY <1>8
    <3>2. CASE Connect(s)
      BY <3>2, ClosedType, EditedSocket DEF Connect
    <3>3. CASE Subscribe(s) \/ Hello(s)
      <4>1. /\ [socket[s] EXCEPT !.phase = "hello"] \in Socket
            /\ [socket[s] EXCEPT !.phase = "open"] \in Socket
        BY EditedSocket
      <4>. QED
        BY <3>3, <4>1 DEF Subscribe, Hello
    <3>4. CASE Deliver(s)
      BY <3>4, ShownFact DEF Deliver
    <3>5. CASE Stop(s) \/ Breaks(s)
      BY <3>5, ClosedType DEF Stop, Breaks, Close
    <3>. QED
      BY <3>1, <3>2, <3>3, <3>4, <3>5 DEF SocketSteps
  <2>. QED
    BY <1>8, <2>1
       DEF Connect, SocketSteps, Subscribe, Hello, Deliver, Stop, Breaks, Close, host
<1>9. ASSUME NEW w \in Waiters, Ask(w) \/ WaiterSteps(w) PROVE LiveTypeOK' /\ Publishing'
  <2>1. waiter' \in [Waiters -> Waiter]
    <3>1. CASE Ask(w)
      BY <3>1 DEF Ask, Waiter
    <3>2. CASE TakeMark(w)
      BY <3>2 DEF TakeMark, Waiter
    <3>3. CASE FirstScan(w) \/ AcquireSlot(w) \/ Wake(w) \/ GiveUp(w) \/ Rescan(w)
      BY <1>w, <3>3, MoveType DEF FirstScan, AcquireSlot, Wake, GiveUp, Rescan, Leave, Sleep
    <3>. QED
      BY <1>9, <3>1, <3>2, <3>3 DEF WaiterSteps
  <2>2. slots' \in 0..MaxWaiters
    <3>1. CASE AcquireSlot(w)
      BY <3>1, LimitsAssumption DEF AcquireSlot
    <3>2. ASSUME Leave(w), Waiting(w) PROVE slots' \in 0..MaxWaiters
      <4>1. slots \in 1..MaxWaiters /\ slots' = slots - 1
        BY <3>2, OneLess DEF Leave
      <4>. QED
        BY <4>1, LimitsAssumption
    <3>. QED
      BY <1>9, <3>1, <3>2 DEF WaiterSteps, Ask, FirstScan, Wake, GiveUp, Elapses, TakeMark,
         Rescan, Waiting
  <2>3. OnlyWaiter
    BY <1>9 DEF WaiterSteps, Ask, FirstScan, AcquireSlot, Wake, GiveUp, TakeMark, Rescan
  <2>. QED
    BY <2>1, <2>2, <2>3 DEF OnlyWaiter, host
<1>10. CASE Archive \/ CancelHub \/ Shutdown
  <2>1. socket' \in [Sockets -> Socket]
    BY <1>10, EndType DEF Archive, CancelHub, Shutdown
  <2>. QED
    BY <1>10, <2>1 DEF Archive, CancelHub, Shutdown, Watch
<1>. QED
  BY <1>1, <1>2, <1>3, <1>4, <1>5, <1>6, <1>7, <1>8, <1>9, <1>10
     DEF Next, CallerSteps, WatchSteps

(* Types, together with what the counts rest on: the slots taken are those *)
(* of the calls that wait, and a caller publishes what it has changed.     *)
THEOREM LiveTypes == Spec => []TypeInv
<1>1. Init => TypeInv
  <2>1. ASSUME Init PROVE LiveTypeOK
    <3>1. Quiet \in Caller /\ NoWait \in Waiter /\ Closed \in Socket
      BY ClosedType DEF Quiet, Caller, NoWait, Waiter
    <3>2. 0 \in 0..MaxWaiters
      BY LimitsAssumption
    <3>3. watch \in Watch
      BY <2>1 DEF Init, Watch
    <3>. QED
      BY <2>1, <3>1, <3>2, <3>3 DEF Init, LiveTypeOK
  <2>2. ASSUME Init PROVE Counted
    <3>1. Held = {}
      BY <2>2 DEF Init, Held, Waiting, NoWait
    <3>. QED
      BY <2>2, <3>1, FS_EmptySet DEF Counted, Init
  <2>3. ASSUME Init PROVE Publishing
    BY <2>3 DEF Init, Publishing, Quiet
  <2>. QED
    BY <2>1, <2>2, <2>3 DEF TypeInv
<1>2. TypeInv /\ [Next]_vars => TypeInv'
  <2>1. ASSUME TypeInv, UNCHANGED vars PROVE TypeInv'
    <3>1. Held' = Held
      BY <2>1 DEF Held, Waiting, vars
    <3>. QED
      BY <2>1, <3>1 DEF TypeInv, LiveTypeOK, Counted, Publishing, vars, host
  <2>. QED
    BY <2>1, CountStep, TypeStep DEF TypeInv
<1>. QED
  BY <1>1, <1>2, PTL DEF Spec

(* Whatever happens, the phases and fields are those of the code, no queue *)
(* is longer than the channel, and no more calls wait than the slots allow *)
(* (MAX_ALERT_WAITERS of resources.rs, the 32 events of EventHub).         *)
THEOREM LiveTypeCorrect == Spec => []LiveTypeOK
BY LiveTypes, PTL DEF TypeInv

(* The slots taken are those of the calls that wait, whatever way a call   *)
(* ends (drop of AlertWaiter in resources.rs), for every number of calls.  *)
THEOREM SlotsAreThoseHeld == Spec => []SlotsAreHeld
<1>1. TypeInv => SlotsAreHeld
  BY DEF TypeInv, Counted, SlotsAreHeld, Held
<1>. QED
  BY <1>1, LiveTypes, PTL

-----------------------------------------------------------------------------
(* No lost wake-up.  Mail is announced by the caller that committed it or  *)
(* by the loop, which must have a fingerprint to see it; and a waiter that *)
(* has scanned without success has its announcement ahead from then on,    *)
(* while it looks for a slot too.                                          *)

AnnouncedBy(c) == caller[c].phase # "idle" /\ caller[c].event # "other"

Announced ==
    \/ cancelled \/ runtime = "removed"
    \/ \E c \in Callers : AnnouncedBy(c)
    \/ watch.based /\ watch.drift
    \/ watch.found \/ watch.phase \in {"note", "off"}

Deaf(w) == waiter[w].phase \in {"acquire", "wait"} /\ waiter[w].unseen /\ ~waiter[w].changed

WakeUpComes == \A w \in Waiters : Deaf(w) => Announced

LEMMA WakeUpStep ==
    ASSUME TypeInv, WakeUpComes, Next
    PROVE  WakeUpComes'
<1>. USE DEF WakeUpComes
<1>t. /\ waiter \in [Waiters -> Waiter] /\ caller \in [Callers -> Caller] /\ watch \in Watch
      /\ cancelled \in BOOLEAN
      /\ watch.found => watch.phase \in {"compare", "send", "off"}
  BY DEF TypeInv, LiveTypeOK, Publishing
<1>a. ASSUME Announced => Announced', \A w \in Waiters : Deaf(w)' => Deaf(w)
      PROVE  WakeUpComes'
  BY <1>a
<1>b. ASSUME Announced' PROVE WakeUpComes'
  BY <1>b
<1>c. ASSUME UNCHANGED <<host, caller, watch>> PROVE Announced => Announced'
  BY <1>c DEF Announced, AnnouncedBy, host
<1>d. ASSUME waiter' = waiter, NEW w \in Waiters PROVE Deaf(w)' => Deaf(w)
  BY <1>d DEF Deaf
<1>n. ASSUME NEW event \in Events, event # "other", note_mail_change(event)
      PROVE  WakeUpComes'
  BY <1>t, <1>n DEF note_mail_change, Deaf, Waiter
<1>1. ASSUME NEW c \in Callers, Mutate(c) PROVE WakeUpComes'
  <2>1. PICK event \in Events :
           /\ caller' = [caller EXCEPT ![c] = [phase |-> "send", event |-> event]]
           /\ \E arrives \in {FALSE, event # "other"} : Mail(arrives)
    BY <1>1 DEF Mutate
  <2>2. CASE event # "other"
    <3>1. AnnouncedBy(c)'
      BY <1>t, <2>1, <2>2 DEF AnnouncedBy
    <3>. QED
      BY <1>b, <3>1 DEF Announced
  <2>3. CASE event = "other"
    <3>1. \A w \in Waiters : Deaf(w)' => Deaf(w)
      BY <1>t, <2>1, <2>3 DEF Mail, Deaf
    <3>2. \A d \in Callers : AnnouncedBy(d) => AnnouncedBy(d)'
      BY <1>1, <1>t, <2>1 DEF Mutate, AnnouncedBy
    <3>3. Announced => Announced'
      BY <1>1, <1>t, <3>2 DEF Mutate, Announced, host, Watch
    <3>. QED
      BY <1>a, <3>1, <3>3
  <2>. QED
    BY <2>2, <2>3
<1>2. ASSUME NEW c \in Callers, Send(c) PROVE WakeUpComes'
  <2>1. CASE cancelled \/ runtime = "removed"
    BY <1>2, <1>b, <2>1 DEF Send, Announced, host
  <2>2. CASE ~(cancelled \/ runtime = "removed")
    <3>1. \A d \in Callers : AnnouncedBy(d) => AnnouncedBy(d)'
      BY <1>2, <1>t, <2>2 DEF Send, AnnouncedBy, Caller
    <3>2. Announced => Announced'
      BY <1>2, <3>1 DEF Send, Announced, host
    <3>. QED
      BY <1>2, <1>a, <1>d, <3>2 DEF Send
  <2>. QED
    BY <2>1, <2>2
<1>3. ASSUME NEW c \in Callers, Note(c) PROVE WakeUpComes'
  <2>1. note_mail_change(caller[c].event) /\ caller[c].event \in Events
    BY <1>3 DEF Note, TypeInv, Publishing
  <2>2. CASE caller[c].event = "other"
    <3>1. waiter' = waiter
      BY <1>t, <2>1, <2>2 DEF note_mail_change
    <3>2. \A d \in Callers : AnnouncedBy(d) => AnnouncedBy(d)'
      BY <1>3, <1>t, <2>2 DEF Note, AnnouncedBy
    <3>3. Announced => Announced'
      BY <1>3, <3>2 DEF Note, Announced, host
    <3>. QED
      BY <1>a, <1>d, <3>1, <3>3
  <2>. QED
    BY <1>n, <2>1, <2>2
<1>4. CASE Edit
  <2>1. Announced => Announced'
    BY <1>4, <1>t DEF Edit, Announced, AnnouncedBy, host, Watch
  <2>2. CASE Mail(FALSE)
    <3>1. \A w \in Waiters : Deaf(w)' => Deaf(w)
      BY <1>t, <2>2 DEF Mail, Deaf
    <3>. QED
      BY <1>a, <2>1, <3>1
  <2>3. CASE ~Mail(FALSE)
    <3>1. watch.based /\ watch' = [watch EXCEPT !.drift = TRUE]
      BY <1>4, <2>3 DEF Edit
    <3>. QED
      BY <1>b, <1>t, <3>1 DEF Announced, Watch
  <2>. QED
    BY <2>2, <2>3
<1>5. CASE Scan
  <2>1. Announced => Announced'
    BY <1>5, <1>t DEF Scan, Announced, AnnouncedBy, host, Watch
  <2>. QED
    BY <1>5, <1>a, <1>d, <2>1 DEF Scan
<1>6. ASSUME NEW fallback \in BOOLEAN, Compare(fallback) PROVE WakeUpComes'
  <2>1. Announced => Announced'
    BY <1>6, <1>t DEF Compare, Differs, Announced, AnnouncedBy, host, Watch
  <2>. QED
    BY <1>6, <1>a, <1>d, <2>1 DEF Compare
<1>7. CASE WatchSend
  <2>1. Announced'
    BY <1>7, <1>t DEF WatchSend, Announced, host, Watch
  <2>. QED
    BY <1>b, <2>1
<1>8. CASE WatchNote
  BY <1>8, <1>n DEF WatchNote, Events
<1>9. CASE \/ \E i \in Sessions : Logout(i)
           \/ \E s \in Sockets : Connect(s) \/ SocketSteps(s) \/ Stop(s) \/ Breaks(s)
  <2>1. UNCHANGED <<host, caller, watch>> /\ waiter' = waiter
    BY <1>9 DEF Logout, Connect, SocketSteps, Subscribe, Hello, Deliver, Stop, Breaks, Close
  <2>. QED
    BY <1>a, <1>c, <1>d, <2>1
<1>10. ASSUME NEW w \in Waiters, Ask(w) \/ WaiterSteps(w) PROVE WakeUpComes'
  <2>1. UNCHANGED <<host, caller, watch>>
    BY <1>10 DEF WaiterSteps, Ask, FirstScan, AcquireSlot, Wake, GiveUp, TakeMark, Rescan,
       OnlyWaiter
  <2>2. ASSUME runtime # "removed", NEW v \in Waiters PROVE Deaf(v)' => Deaf(v)
    <3>1. CASE Ask(w) \/ FirstScan(w)
      BY <1>t, <2>2, <3>1 DEF Ask, FirstScan, Answered, Move, Deaf, NoWait, Waiter
    <3>2. CASE AcquireSlot(w)
      BY <1>t, <3>2 DEF AcquireSlot, Sleep, Move, Deaf, NoWait, Waiter
    <3>3. CASE Wake(w) \/ TakeMark(w)
      BY <1>t, <3>3 DEF Wake, TakeMark, Move, Deaf, Waiter
    <3>4. CASE GiveUp(w) \/ Rescan(w)
      BY <1>t, <2>2, <3>4
         DEF GiveUp, Rescan, Leave, Answered, Sleep, Move, Deaf, NoWait, Waiter
    <3>. QED
      BY <1>10, <3>1, <3>2, <3>3, <3>4 DEF WaiterSteps
  <2>3. CASE runtime = "removed"
    BY <1>b, <2>1, <2>3 DEF Announced, host
  <2>. QED
    BY <1>a, <1>c, <2>1, <2>2, <2>3
<1>11. CASE Archive \/ CancelHub \/ Shutdown
  <2>1. Announced'
    BY <1>11, <1>t DEF Archive, CancelHub, Shutdown, Announced, Watch
  <2>. QED
    BY <1>b, <2>1
<1>. QED
  BY <1>1, <1>2, <1>3, <1>4, <1>5, <1>6, <1>7, <1>8, <1>9, <1>10, <1>11
     DEF Next, CallerSteps, WatchSteps

(* A call that sleeps although mail has come for it will hear of it, as    *)
(* long as the workspace is served: the mark taken before the scan, the    *)
(* caller that has still to publish or the loop sees to it (wait_for_mail  *)
(* and workspace_alerts), for every number of callers and waiters.         *)
THEOREM WakeUpsAreKept == Spec => []NoLostWakeUp
<1>1. Init => WakeUpComes
  BY DEF Init, WakeUpComes, Deaf, NoWait
<1>2. TypeInv /\ WakeUpComes /\ [Next]_vars => WakeUpComes'
  <2>1. ASSUME WakeUpComes, UNCHANGED vars PROVE WakeUpComes'
    BY <2>1 DEF WakeUpComes, Deaf, Announced, AnnouncedBy, vars, host
  <2>. QED
    BY <2>1, WakeUpStep
<1>3. TypeInv /\ WakeUpComes => NoLostWakeUp
  <2>1. ASSUME WakeUpComes, NEW w \in Waiters,
               waiter[w].phase = "wait" /\ waiter[w].unseen /\ ~waiter[w].changed
        PROVE  Announced
    BY <2>1 DEF WakeUpComes, Deaf
  <2>. QED
    BY <2>1 DEF NoLostWakeUp, Announced, AnnouncedBy
<1>. QED
  BY <1>1, <1>2, <1>3, LiveTypes, PTL DEF Spec

-----------------------------------------------------------------------------
(* No change is missed.  A browser lacks nothing until it is told hello,   *)
(* and an edit counts as one that a fingerprint shows only when there is a *)
(* fingerprint; so the loop's next scan turns its drift into a find, and   *)
(* its send puts a resync in the queue.                                    *)

Views ==
    \A s \in Sockets :
        /\ socket[s].phase # "open" => socket[s].stale = {}
        /\ "edit" \in socket[s].stale => watch.based

Served == ~cancelled /\ runtime = "active"
Sending == \E c \in Callers : caller[c].phase = "send"
Looking == watch.phase = "off" \/ watch.drift \/ watch.found

CallShown(s) == "call" \in socket[s].stale => socket[s].queue # <<>> \/ Sending
EditShown(s) == "edit" \in socket[s].stale => Caught(socket[s]) \/ Looking

Shows == \A s \in Sockets : socket[s].phase = "open" /\ Served => CallShown(s) /\ EditShown(s)

\* What publish does for every socket that listens.
LEMMA PublishFact ==
    ASSUME socket \in [Sockets -> Socket], NEW event \in Events, publish(event),
           NEW s \in Sockets
    PROVE  /\ socket'[s].phase = socket[s].phase
           /\ socket'[s].stale = socket[s].stale
           /\ socket[s].phase = "open" =>
                 /\ socket'[s].queue # <<>>
                 /\ Caught(socket[s]) \/ event = "resync" => Caught(socket'[s])
           /\ socket[s].phase \notin {"hello", "open"} => socket'[s] = socket[s]
<1>1. socket'[s] = IF Listening(s) THEN Enqueued(socket[s], event) ELSE socket[s]
  BY DEF publish
<1>2. socket[s] \in Socket
  OBVIOUS
<1>. QED
  BY <1>1, <1>2, SendFact DEF Listening

LEMMA ViewsStep ==
    ASSUME TypeInv, Views, Shows, Next
    PROVE  Views' /\ Shows'
<1>. USE DEF Views, Shows
<1>t. /\ socket \in [Sockets -> Socket] /\ caller \in [Callers -> Caller] /\ watch \in Watch
      /\ watch.found => watch.phase \in {"compare", "send", "off"}
  BY DEF TypeInv, LiveTypeOK, Publishing
\* A step that leaves a socket alone, or brings it up to date.
<1>a. ASSUME NEW s \in Sockets, socket'[s] = socket[s],
             Served' => Served /\ (Sending => Sending') /\ (Looking /\ watch.based => Looking'),
             watch.based => watch'.based
      PROVE  /\ socket'[s].phase # "open" => socket'[s].stale = {}
             /\ "edit" \in socket'[s].stale => watch'.based
             /\ socket'[s].phase = "open" /\ Served' => CallShown(s)' /\ EditShown(s)'
  BY <1>a DEF CallShown, EditShown, Caught
<1>b. ASSUME NEW s \in Sockets, socket'[s].stale = {}
      PROVE  /\ socket'[s].phase # "open" => socket'[s].stale = {}
             /\ "edit" \in socket'[s].stale => watch'.based
             /\ socket'[s].phase = "open" /\ Served' => CallShown(s)' /\ EditShown(s)'
  BY <1>b DEF CallShown, EditShown
<1>c. ASSUME UNCHANGED <<host, caller, watch>>
      PROVE  /\ Served' => Served /\ (Sending => Sending') /\ (Looking => Looking')
             /\ watch.based => watch'.based
  BY <1>c DEF Served, Sending, Looking, host
<1>1. ASSUME NEW c \in Callers, Mutate(c) PROVE Views' /\ Shows'
  <2>1. Sending'
    BY <1>1, <1>t DEF Mutate, Sending
  <2>2. Looking' /\ watch'.based = watch.based /\ (Served' => Served)
    BY <1>1, <1>t DEF Mutate, Looking, Watch, Served, host
  <2>3. ASSUME NEW s \in Sockets
        PROVE  /\ socket'[s].phase = socket[s].phase
               /\ socket'[s].stale \subseteq socket[s].stale \cup {"call"}
               /\ socket[s].phase # "open" => socket'[s] = socket[s]
    BY <1>1, <1>t DEF Mutate, Stale, Socket
  <2>. QED
    BY <2>1, <2>2, <2>3 DEF CallShown, EditShown
<1>2. ASSUME NEW c \in Callers, Send(c) PROVE Views' /\ Shows'
  <2>1. CASE Served
    <3>1. publish(caller[c].event) /\ caller[c].event \in Events
      BY <1>2, <2>1 DEF Send, Served, TypeInv, Publishing
    <3>2. Looking' = Looking /\ watch' = watch
      BY <1>2 DEF Send, Looking
    <3>. QED
      BY <1>t, <2>1, <3>1, <3>2, PublishFact DEF CallShown, EditShown
  <2>2. CASE ~Served
    <3>1. ~Served' /\ watch' = watch
      BY <1>2, <2>2 DEF Send, Served, host
    <3>2. ASSUME NEW s \in Sockets
          PROVE  socket'[s].phase = socket[s].phase /\ socket'[s].stale = socket[s].stale
      <4>1. CASE socket' = socket
        BY <4>1
      <4>2. CASE publish(caller[c].event)
        BY <1>2, <1>t, <4>2, PublishFact DEF Send, TypeInv, Publishing
      <4>. QED
        BY <1>2, <4>1, <4>2 DEF Send
    <3>. QED
      BY <3>1, <3>2
  <2>. QED
    BY <2>1, <2>2
<1>3. ASSUME NEW c \in Callers, Note(c) PROVE Views' /\ Shows'
  <2>1. Sending => Sending'
    BY <1>3, <1>t DEF Note, Sending, Quiet
  <2>. QED
    BY <1>3, <1>a, <2>1 DEF Note, Served, Looking, host
<1>4. CASE Edit
  <2>1. PICK kind \in {"edit", "hidden"} :
           /\ Stale(IF watch.based THEN kind ELSE "hidden")
           /\ watch' = IF kind = "edit" THEN [watch EXCEPT !.drift = TRUE] ELSE watch
    BY <1>4 DEF Edit
  <2>2. watch'.based = watch.based /\ (Looking \/ kind = "edit" => Looking')
    BY <1>t, <2>1 DEF Looking, Watch
  <2>3. ASSUME NEW s \in Sockets
        PROVE  /\ socket'[s].phase = socket[s].phase
               /\ socket'[s].stale \subseteq
                     socket[s].stale \cup {IF watch.based THEN kind ELSE "hidden"}
               /\ socket'[s].queue = socket[s].queue /\ socket'[s].lagged = socket[s].lagged
               /\ socket[s].phase # "open" => socket'[s] = socket[s]
    BY <1>t, <2>1 DEF Stale, Socket
  <2>4. Served' = Served /\ Sending' = Sending
    BY <1>4 DEF Edit, Served, Sending, host
  <2>5. ASSUME NEW s \in Sockets, "edit" \in socket'[s].stale
        PROVE  "edit" \in socket[s].stale \/ (watch.based /\ kind = "edit")
    BY <2>1, <2>3, <2>5
  <2>6. ASSUME NEW s \in Sockets, "call" \in socket'[s].stale PROVE "call" \in socket[s].stale
    BY <2>1, <2>3, <2>6
  <2>. QED
    BY <2>2, <2>3, <2>4, <2>5, <2>6 DEF CallShown, EditShown, Caught
<1>5. CASE Scan
  <2>1. watch.based => watch'.based /\ (Looking => Looking')
    BY <1>5, <1>t DEF Scan, Looking, Watch
  <2>. QED
    BY <1>5, <1>a, <2>1 DEF Scan, Served, Sending, host
<1>6. ASSUME NEW fallback \in BOOLEAN, Compare(fallback) PROVE Views' /\ Shows'
  <2>1. watch'.based = watch.based /\ (Looking => Looking')
    BY <1>6, <1>t DEF Compare, Differs, Looking, Watch
  <2>. QED
    BY <1>6, <1>a, <2>1 DEF Compare, Served, Sending, host
<1>7. CASE WatchSend
  <2>1. watch'.based = watch.based /\ (Served' <=> Served) /\ (Sending' <=> Sending)
    BY <1>7, <1>t DEF WatchSend, Watch, Served, Sending, host
  <2>2. CASE cancelled
    BY <1>7, <2>1, <2>2 DEF WatchSend, Served
  <2>3. CASE ~cancelled
    <3>1. publish("resync") /\ "resync" \in Events
      BY <1>7, <2>3 DEF WatchSend, Events
    <3>. QED
      BY <1>t, <2>1, <3>1, PublishFact DEF CallShown, EditShown
  <2>. QED
    BY <2>2, <2>3
<1>8. CASE WatchNote
  <2>1. watch'.based = watch.based /\ (Looking => Looking')
    BY <1>8, <1>t DEF WatchNote, Looking, Watch
  <2>. QED
    BY <1>8, <1>a, <2>1 DEF WatchNote, Served, Sending, host
<1>9. ASSUME NEW ids \in SUBSET Sessions, EndSessions(ids), caller' = caller,
             Served' => Served, watch'.based = watch.based, Looking => Looking'
      PROVE  Views' /\ Shows'
  <2>1. ASSUME NEW s \in Sockets
        PROVE  /\ socket'[s].phase = socket[s].phase /\ socket'[s].stale = socket[s].stale
               /\ socket'[s].queue = socket[s].queue /\ socket'[s].lagged = socket[s].lagged
    BY <1>9, <1>t DEF EndSessions, Socket
  <2>. QED
    BY <1>9, <2>1 DEF CallShown, EditShown, Caught, Sending
<1>10. ASSUME NEW s \in Sockets, Connect(s) \/ SocketSteps(s) \/ Stop(s) \/ Breaks(s)
       PROVE  Views' /\ Shows'
  <2>1. UNCHANGED <<host, caller, watch>>
    BY <1>10 DEF Connect, SocketSteps, Subscribe, Hello, Deliver, Stop, Breaks, Close
  <2>2. \A x \in Sockets \ {s} : socket'[x] = socket[x]
    BY <1>10, <1>t DEF Connect, SocketSteps, Subscribe, Hello, Deliver, Stop, Breaks, Close
  <2>3. CASE Deliver(s)
    <3>1. /\ socket'[s].phase = socket[s].phase
          /\ socket'[s].stale \subseteq socket[s].stale \ {"call"}
          /\ Caught(socket[s]) /\ "edit" \in socket'[s].stale => Caught(socket'[s])
      <4>1. socket'[s] = Shown(socket[s]) /\ socket[s] \in Socket /\ socket[s].queue # <<>>
        BY <1>t, <2>3 DEF Deliver
      <4>. QED
        BY <4>1, ShownFact
    <3>2. /\ socket'[s].phase # "open" => socket'[s].stale = {}
          /\ "edit" \in socket'[s].stale => watch'.based
          /\ socket'[s].phase = "open" /\ Served' => CallShown(s)' /\ EditShown(s)'
      BY <1>c, <2>1, <2>3, <3>1 DEF CallShown, EditShown, Deliver
    <3>. QED
      BY <1>a, <1>c, <2>1, <2>2, <3>2
  <2>4. CASE ~Deliver(s)
    <3>1. socket'[s].stale = {}
      <4>1. CASE Connect(s)
        BY <1>t, <4>1 DEF Connect, Closed
      <4>2. CASE Subscribe(s) \/ Hello(s)
        <5>1. socket[s].phase # "open" /\ socket'[s].stale = socket[s].stale
          BY <1>t, <4>2 DEF Subscribe, Hello, Socket
        <5>. QED
          BY <5>1
      <4>3. CASE Stop(s) \/ Breaks(s)
        BY <1>t, <4>3 DEF Stop, Breaks, Close, Closed
      <4>. QED
        BY <1>10, <2>4, <4>1, <4>2, <4>3 DEF SocketSteps
    <3>. QED
      BY <1>a, <1>b, <1>c, <2>1, <2>2, <3>1
  <2>. QED
    BY <2>3, <2>4
<1>11. CASE \E w \in Waiters : Ask(w) \/ WaiterSteps(w)
  <2>1. UNCHANGED <<host, caller, watch>> /\ socket' = socket
    BY <1>11 DEF WaiterSteps, Ask, FirstScan, AcquireSlot, Wake, GiveUp, TakeMark, Rescan,
       OnlyWaiter
  <2>. QED
    BY <1>a, <1>c, <2>1
<1>12. CASE Archive \/ CancelHub
  BY <1>12, <1>a DEF Archive, CancelHub, Served, Sending, Looking
<1>13. CASE Shutdown
  <2>1. /\ watch'.based = watch.based /\ Looking' /\ (Served' => Served)
        /\ EndSessions(Sessions) /\ caller' = caller
    BY <1>13, <1>t DEF Shutdown, Looking, Watch, Served
  <2>. QED
    BY <1>9, <2>1
<1>14. CASE \E i \in Sessions : Logout(i)
  <2>1. PICK i \in Sessions : Logout(i)
    BY <1>14
  <2>. QED
    <3>1. /\ {i} \in SUBSET Sessions /\ EndSessions({i})
          /\ UNCHANGED <<host, caller, watch>>
      BY <2>1 DEF Logout
    <3>2. (Served' => Served) /\ (Looking => Looking')
      BY <3>1 DEF Served, Looking, host
    <3>3. caller' = caller /\ watch'.based = watch.based
      BY <3>1
    <3>. QED
      BY <1>9, <3>1, <3>2, <3>3
<1>. QED
  BY <1>1, <1>2, <1>3, <1>4, <1>5, <1>6, <1>7, <1>8, <1>10, <1>11, <1>12, <1>13, <1>14
     DEF Next, CallerSteps, WatchSteps

(* As long as the workspace is served, a browser whose screen lacks a      *)
(* change made through a call has an event in its queue or one that its    *)
(* caller is to publish, and one that lacks an edit of another program has *)
(* a resync ahead or the loop on its way to one (EventHub, serve and       *)
(* reconcile::run), whatever the capacity of the channel.                  *)
THEOREM NoChangeIsLost == Spec => []NoChangeIsMissed
<1>1. Init => Views /\ Shows
  BY DEF Init, Views, Shows, Closed
<1>2. TypeInv /\ Views /\ Shows /\ [Next]_vars => Views' /\ Shows'
  <2>1. ASSUME Views, Shows, UNCHANGED vars PROVE Views' /\ Shows'
    BY <2>1 DEF Views, Shows, Served, CallShown, EditShown, Caught, Sending, Looking, vars, host
  <2>. QED
    BY <2>1, ViewsStep
<1>3. Shows => NoChangeIsMissed
  BY DEF Shows, NoChangeIsMissed, Served, CallShown, EditShown, Caught, Sending, Looking
<1>. QED
  BY <1>1, <1>2, <1>3, LiveTypes, PTL DEF Spec

=============================================================================
