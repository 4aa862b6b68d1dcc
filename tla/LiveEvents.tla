----------------------------- MODULE LiveEvents -----------------------------
(***************************************************************************)
(* The live side of one workspace: the event hub, the browser sockets that *)
(* listen to it, the agents that wait for alerts, and the loop that looks  *)
(* for edits made by other programs.  Sockets end by logout, archive,      *)
(* shutdown or a failed write (pings only find a write that fails); waits  *)
(* end by mail, by their deadline, by archive or by shutdown.              *)
(*                                                                         *)
(* Views and mail are flags: what a browser shows is stale in some kinds   *)
(* of change, a waiter has mail it has not seen, the fingerprint of the    *)
(* workspace differs from the last one.                                    *)
(***************************************************************************)
EXTENDS Naturals, FiniteSets, SequencesExt

CONSTANTS
    Callers,        \* threads of mutating calls
    Waiters,        \* threads of workspace_alerts
    Sockets,        \* event sockets
    Sessions,       \* ids of browser sessions
    MaxWaiters,     \* MAX_ALERT_WAITERS
    QueueLimit,     \* capacity of the broadcast channel
    Periodic,       \* the workspace has a store, a repository or too many files
    Apart,          \* bound: sockets and waits, which share only the hub, come in turn
    None            \* absence of a value

ASSUME LimitsAssumption ==
    /\ MaxWaiters \in Nat /\ QueueLimit \in Nat \ {0}
    /\ Periodic \in BOOLEAN /\ Apart \in BOOLEAN

VARIABLES
    runtime,        \* "active", "removed" from the runtimes by an archive
    cancelled,      \* the hub's cancellation
    socket,
    caller,         \* the event each caller has to publish
    waiter,
    slots,          \* ALERT_WAITERS
    watch           \* the reconciliation loop

host == <<runtime, cancelled>>
vars == <<host, socket, caller, waiter, slots, watch>>

\* Changes made through calls, edits that a fingerprint shows, and others.
Kinds == {"call", "edit", "hidden"}
Events == {"mail", "other", "resync"}

\* live: its session's token is not cancelled.
Socket ==
    [phase: {"closed", "upgrade", "hello", "open"}, session: Sessions \cup {None},
     live: BOOLEAN, queue: UNION {[1..n -> Events] : n \in 0..QueueLimit},
     lagged: BOOLEAN, stale: SUBSET Kinds]

Closed ==
    [phase |-> "closed", session |-> None, live |-> TRUE, queue |-> <<>>,
     lagged |-> FALSE, stale |-> {}]

\* unseen: mail after the waiter's cursor; changed: mail_changes is not its mark.
Waiter ==
    [phase: {"idle", "scan", "acquire", "wait", "mark", "rescan"},
     unseen: BOOLEAN, changed: BOOLEAN]

NoWait == [phase |-> "idle", unseen |-> FALSE, changed |-> FALSE]

\* based: a fingerprint was taken; drift: the workspace differs from it.
Watch ==
    [phase: {"tick", "compare", "send", "note", "off"},
     based: BOOLEAN, drift: BOOLEAN, found: BOOLEAN]

Caller == [phase: {"idle", "send", "note"}, event: Events \cup {None}]
Quiet == [phase |-> "idle", event |-> None]

LiveTypeOK ==
    /\ runtime \in {"active", "removed"}
    /\ cancelled \in BOOLEAN
    /\ socket \in [Sockets -> Socket]
    /\ caller \in [Callers -> Caller]
    /\ waiter \in [Waiters -> Waiter]
    /\ slots \in 0..MaxWaiters
    /\ watch \in Watch

Init ==
    /\ runtime = "active"
    /\ cancelled = FALSE
    /\ socket = [s \in Sockets |-> Closed]
    /\ caller = [c \in Callers |-> Quiet]
    /\ waiter = [w \in Waiters |-> NoWait]
    /\ slots = 0
    /\ watch = [phase |-> "tick", based |-> FALSE, drift |-> FALSE, found |-> FALSE]

-----------------------------------------------------------------------------
(* Changes of the workspace, and what they do to those who look at it.     *)

Stale(kind) ==
    socket' = [s \in Sockets |-> IF socket[s].phase = "open"
                 THEN [socket[s] EXCEPT !.stale = @ \cup {kind}] ELSE socket[s]]

\* Mail for every waiter.
Mail(arrives) ==
    waiter' = [w \in Waiters |-> IF arrives /\ waiter[w].phase # "idle"
                 THEN [waiter[w] EXCEPT !.unseen = TRUE] ELSE waiter[w]]

\* WorkspaceHost::call: a call changed the workspace, or a task call failed and
\* may have changed it.  Calls that replay, and other calls that fail, publish
\* nothing: what such a failure leaves behind is an edit below.
Mutate(c) ==
    /\ runtime = "active"
    /\ caller[c].phase = "idle"
    /\ \E event \in Events :
        /\ caller' = [caller EXCEPT ![c] = [phase |-> "send", event |-> event]]
        /\ Stale("call")
        /\ \E arrives \in {FALSE, event # "other"} : Mail(arrives)
    /\ watch' = [watch EXCEPT !.drift = TRUE]
    /\ UNCHANGED <<host, slots>>

\* Another program edits the workspace, within or outside the scan.  Before the
\* first fingerprint no edit is seen as one, and its mail is announced to nobody.
Edit ==
    /\ \E kind \in {"edit", "hidden"} :
        /\ Stale(IF watch.based THEN kind ELSE "hidden")
        /\ \E arrives \in {FALSE, kind = "edit" /\ watch.based} : Mail(arrives)
        /\ watch' = IF kind = "edit" THEN [watch EXCEPT !.drift = TRUE] ELSE watch
    /\ UNCHANGED <<host, caller, slots>>

-----------------------------------------------------------------------------
(* EventHub                                                                *)

\* MUTANT of Enqueued: the queue grows without a bound.
MutNoLimit(sock, event) == [sock EXCEPT !.queue = Append(@, event)]

\* broadcast::Sender::send: a full queue loses its oldest event.
Enqueued(sock, event) ==
    IF Len(sock.queue) < QueueLimit
      THEN [sock EXCEPT !.queue = Append(@, event)]
      ELSE [sock EXCEPT !.queue = Append(Tail(@), event), !.lagged = TRUE]

Listening(s) == socket[s].phase \in {"hello", "open"}

\* Nobody hears an event of a hub that is cancelled.
publish(event) ==
    socket' = [s \in Sockets |-> IF Listening(s) THEN Enqueued(socket[s], event)
                                 ELSE socket[s]]

\* mail_changes counts mail and resyncs; a waiter compares it with its mark.
note_mail_change(event) ==
    waiter' = [w \in Waiters |-> IF event # "other" /\ waiter[w].phase # "idle"
                 THEN [waiter[w] EXCEPT !.changed = TRUE] ELSE waiter[w]]

Send(c) ==
    /\ caller[c].phase = "send"
    /\ \/ /\ cancelled \/ runtime = "removed"
          /\ caller' = [caller EXCEPT ![c] = Quiet]
          /\ UNCHANGED socket
       \/ /\ ~cancelled
          /\ publish(caller[c].event)
          /\ caller' = [caller EXCEPT ![c].phase = "note"]
    /\ UNCHANGED <<host, waiter, slots, watch>>

Note(c) ==
    /\ caller[c].phase = "note"
    /\ note_mail_change(caller[c].event)
    /\ caller' = [caller EXCEPT ![c] = Quiet]
    /\ UNCHANGED <<host, socket, slots, watch>>

-----------------------------------------------------------------------------
(* reconcile::run                                                          *)

\* The first fingerprint is compared with none.
Scan ==
    /\ watch.phase = "tick" /\ runtime = "active"
    /\ watch' = [watch EXCEPT !.phase = IF watch.based THEN "compare" ELSE "tick",
                              !.based = TRUE, !.drift = FALSE,
                              !.found = watch.based /\ watch.drift]
    /\ UNCHANGED <<host, socket, caller, waiter, slots>>

\* MUTANT of Differs: no minutely fallback.
MutNoFallback(fallback) == watch.found

Differs(fallback) == watch.found \/ (fallback /\ Periodic)

\* fallback: a minute has passed since the last one.
Compare(fallback) ==
    /\ watch.phase = "compare"
    /\ watch' = [watch EXCEPT !.phase = IF Differs(fallback) THEN "send" ELSE "tick",
                              !.found = Differs(fallback)]
    /\ UNCHANGED <<host, socket, caller, waiter, slots>>

WatchSend ==
    /\ watch.phase = "send"
    /\ IF cancelled THEN UNCHANGED socket ELSE publish("resync")
    /\ watch' = [watch EXCEPT !.phase = IF cancelled THEN "tick" ELSE "note", !.found = FALSE]
    /\ UNCHANGED <<host, caller, waiter, slots>>

WatchNote ==
    /\ watch.phase = "note"
    /\ note_mail_change("resync")
    /\ watch' = [watch EXCEPT !.phase = "tick"]
    /\ UNCHANGED <<host, socket, caller, slots>>

-----------------------------------------------------------------------------
(* Browser sessions and sockets                                            *)

\* Sockets keep the cancellation token of their session.
EndSessions(ids) ==
    socket' = [s \in Sockets |-> IF socket[s].session \in ids
                 THEN [socket[s] EXCEPT !.live = FALSE] ELSE socket[s]]

Logout(i) ==
    /\ EndSessions({i})
    /\ UNCHANGED <<host, caller, waiter, slots, watch>>

\* api_events: the session and the hub are looked up before the upgrade.  A client
\* logs in when it likes; the id of a session that ended stands for a new one.
Connect(s) ==
    /\ runtime = "active"
    /\ socket[s].phase = "closed"
    /\ Apart => \A w \in Waiters : waiter[w].phase = "idle"
    /\ \E i \in Sessions :
        socket' = [socket EXCEPT ![s] =
            [Closed EXCEPT !.phase = "upgrade", !.session = i]]
    /\ UNCHANGED <<host, caller, waiter, slots, watch>>

Subscribe(s) ==
    /\ socket[s].phase = "upgrade"
    /\ socket' = [socket EXCEPT ![s].phase = "hello"]
    /\ UNCHANGED <<host, caller, waiter, slots, watch>>

\* A client that gets hello fetches everything.
Hello(s) ==
    /\ socket[s].phase = "hello"
    /\ socket' = [socket EXCEPT ![s].phase = "open"]
    /\ UNCHANGED <<host, caller, waiter, slots, watch>>

\* MUTANT of Shown: a lagged subscriber subscribes anew, without a resync.
MutIgnoreLag(sock) ==
    IF sock.lagged THEN [sock EXCEPT !.lagged = FALSE, !.queue = <<>>]
    ELSE [sock EXCEPT !.queue = Tail(@),
                      !.stale = IF Head(sock.queue) = "resync" THEN {} ELSE @ \ {"call"}]

\* A lagged subscriber gets a resync before the events that are left.  A client
\* fetches all views on a resync, and those of its topics on another event.
Shown(sock) ==
    IF sock.lagged THEN [sock EXCEPT !.lagged = FALSE, !.stale = {}]
    ELSE [sock EXCEPT !.queue = Tail(@),
                      !.stale = IF Head(sock.queue) = "resync" THEN {} ELSE @ \ {"call"}]

Deliver(s) ==
    /\ socket[s].phase = "open"
    /\ socket[s].queue # <<>>
    /\ socket' = [socket EXCEPT ![s] = Shown(socket[s])]
    /\ UNCHANGED <<host, caller, waiter, slots, watch>>

Close(s) ==
    /\ socket' = [socket EXCEPT ![s] = Closed]
    /\ UNCHANGED <<host, caller, waiter, slots, watch>>

\* MUTANT of Ends: a socket watches its hub only.
MutHubOnly(s) == cancelled

\* The select of serve: the hub's or the session's cancellation.
Ends(s) == cancelled \/ ~socket[s].live
Stop(s) == socket[s].phase = "open" /\ Ends(s) /\ Close(s)

\* A write fails or takes longer than a second, or the client closes.
Breaks(s) == socket[s].phase # "closed" /\ Close(s)

-----------------------------------------------------------------------------
(* workspace_alerts                                                        *)

OnlyWaiter == UNCHANGED <<host, socket, caller, watch>>
Move(w, phase) == waiter' = [waiter EXCEPT ![w].phase = phase]

\* MUTANT of Sleep: the mark is taken after the scan.
MutLateMark(w) ==
    waiter' = [waiter EXCEPT ![w].phase = "wait", ![w].changed = FALSE]

\* The mark was taken before the scan, so that mail in between counts.
Sleep(w) == Move(w, "wait")

Ask(w) ==
    /\ runtime = "active"
    /\ waiter[w].phase = "idle"
    /\ Apart => \A s \in Sockets : socket[s].phase = "closed"
    /\ \E unseen \in BOOLEAN :
        waiter' = [waiter EXCEPT ![w] =
            [phase |-> "scan", unseen |-> unseen, changed |-> FALSE]]
    /\ UNCHANGED slots /\ OnlyWaiter

\* alerts_once finds an alert, or fails because the workspace was archived.
Answered(w) == waiter[w].unseen \/ runtime = "removed"

\* A call that does not wait is done.
FirstScan(w) ==
    /\ waiter[w].phase = "scan"
    /\ \/ waiter' = [waiter EXCEPT ![w] = NoWait]
       \/ ~Answered(w) /\ Move(w, "acquire")
    /\ UNCHANGED slots /\ OnlyWaiter

AcquireSlot(w) ==
    /\ waiter[w].phase = "acquire"
    /\ \/ slots < MaxWaiters /\ slots' = slots + 1 /\ Sleep(w)
       \/ /\ slots >= MaxWaiters
          /\ waiter' = [waiter EXCEPT ![w] = NoWait]
          /\ UNCHANGED slots
    /\ OnlyWaiter

\* MUTANT of Leave: an error leaves the slot taken.
MutLeakSlot(w) ==
    /\ waiter' = [waiter EXCEPT ![w] = NoWait]
    /\ slots' = IF runtime = "removed" THEN slots ELSE slots - 1

\* Every way out drops the AlertWaiter.
Leave(w) ==
    /\ waiter' = [waiter EXCEPT ![w] = NoWait]
    /\ slots' = slots - 1

Wake(w) ==
    /\ waiter[w].phase = "wait"
    /\ waiter[w].changed
    /\ Move(w, "mark")
    /\ UNCHANGED slots /\ OnlyWaiter

\* MUTANT of Elapses: the deadline is not looked at while the hub lives.
MutNoDeadline(w) == waiter[w].phase = "wait" /\ cancelled

\* A waiter looks at its deadline and at the cancellation every second.
Elapses(w) == waiter[w].phase = "wait" /\ ~waiter[w].changed

\* The last scan changes nothing.
GiveUp(w) ==
    /\ Elapses(w)
    /\ Leave(w)
    /\ OnlyWaiter

TakeMark(w) ==
    /\ waiter[w].phase = "mark"
    /\ waiter' = [waiter EXCEPT ![w].phase = "rescan", ![w].changed = FALSE]
    /\ UNCHANGED slots /\ OnlyWaiter

Rescan(w) ==
    /\ waiter[w].phase = "rescan"
    /\ \/ Answered(w) /\ Leave(w)
       \/ ~Answered(w) /\ Sleep(w) /\ UNCHANGED slots
    /\ OnlyWaiter

-----------------------------------------------------------------------------
(* Archive and shutdown                                                    *)

Archive ==
    /\ runtime = "active"
    /\ runtime' = "removed"
    /\ UNCHANGED <<cancelled, socket, caller, waiter, slots, watch>>

CancelHub ==
    /\ runtime = "removed" /\ ~cancelled
    /\ cancelled' = TRUE
    /\ UNCHANGED <<runtime, socket, caller, waiter, slots, watch>>

\* ServerHandle::shutdown cancels the loop, the hubs that still have a runtime
\* and the sessions.  Requests are served until the server has drained.
Shutdown ==
    /\ watch.phase # "off"
    /\ watch' = [watch EXCEPT !.phase = "off"]
    /\ cancelled' = (cancelled \/ runtime = "active")
    /\ EndSessions(Sessions)
    /\ UNCHANGED <<runtime, caller, waiter, slots>>

CallerSteps(c) == Send(c) \/ Note(c)
WatchSteps == Scan \/ WatchSend \/ WatchNote
WaiterSteps(w) ==
    FirstScan(w) \/ AcquireSlot(w) \/ Wake(w) \/ GiveUp(w) \/ TakeMark(w) \/ Rescan(w)
SocketSteps(s) == Subscribe(s) \/ Hello(s) \/ Deliver(s)

Next ==
    \/ \E c \in Callers : Mutate(c) \/ CallerSteps(c)
    \/ Edit
    \/ WatchSteps \/ \E fallback \in BOOLEAN : Compare(fallback)
    \/ \E i \in Sessions : Logout(i)
    \/ \E s \in Sockets :
        Connect(s) \/ SocketSteps(s) \/ Stop(s) \/ Breaks(s)
    \/ \E w \in Waiters : Ask(w) \/ WaiterSteps(w)
    \/ Archive \/ CancelHub \/ Shutdown

Spec == Init /\ [][Next]_vars

\* Threads that can go on do; the branches of a select that stay ready are taken
\* in the end; a minute is over again and again; and the deadline passes, so that
\* a wait that sleeps again and again is over (wait_for_mail looks at the count and
\* at the deadline in one critical section).
Fairness ==
    /\ \A c \in Callers : WF_vars(CallerSteps(c))
    /\ WF_vars(WatchSteps) /\ WF_vars(Compare(FALSE)) /\ SF_vars(Compare(TRUE))
    /\ WF_vars(CancelHub)
    /\ \A s \in Sockets : WF_vars(SocketSteps(s)) /\ WF_vars(Stop(s))
    /\ \A w \in Waiters : WF_vars(WaiterSteps(w)) /\ SF_vars(GiveUp(w))

FairSpec == Spec /\ Fairness

-----------------------------------------------------------------------------
(* Properties                                                              *)

Waiting(w) == waiter[w].phase \in {"wait", "mark", "rescan"}

(* ALERT_WAITERS counts the calls that hold a wait, whatever way each ends *)
(* (workspace_alerts: the error of a scan drops the slot too), so that the *)
(* bound of waiting threads is neither passed nor used up for ever.        *)
SlotsAreHeld == slots = Cardinality({w \in Waiters : Waiting(w)})

(* No wake-up is lost: when mail has come for a waiter that sleeps, its    *)
(* mark is out of date or somebody is still to announce the mail, although *)
(* mail is committed, announced and counted in three steps (call, publish, *)
(* note_mail_change) and the waiter marks and scans in two.                *)
NoLostWakeUp ==
    \A w \in Waiters : waiter[w].phase = "wait" /\ waiter[w].unseen =>
        \/ waiter[w].changed
        \/ cancelled \/ runtime = "removed"
        \/ \E c \in Callers : caller[c].phase # "idle" /\ caller[c].event # "other"
        \/ watch.drift \/ watch.found \/ watch.phase \in {"note", "off"}

(* A browser whose view lacks a change made through a call has an event    *)
(* waiting, or the caller is still to publish it: neither a full queue     *)
(* (32 events) nor a change while the socket says hello loses it.  For an  *)
(* edit of another program that a fingerprint shows, a resync waits, or    *)
(* the loop has found it or will (reconcile::run): an event about another  *)
(* change in between does not hide it.                                     *)
NoChangeIsMissed ==
    \A s \in Sockets : socket[s].phase = "open" /\ ~cancelled /\ runtime = "active" =>
        /\ "call" \in socket[s].stale =>
              socket[s].queue # <<>> \/ \E c \in Callers : caller[c].phase = "send"
        /\ "edit" \in socket[s].stale =>
              \/ socket[s].lagged \/ "resync" \in ToSet(socket[s].queue)
              \/ watch.phase = "off" \/ watch.drift \/ watch.found

(* Whatever changes, a browser shows it in the end or loses its socket, by *)
(* events, by the loop or by the minutely resync ("external edits can take *)
(* up to about a minute"): again and again it lacks nothing.               *)
EveryChangeIsShown ==
    Periodic => \A s \in Sockets : socket[s].stale # {} ~> socket[s].stale = {}

(* A call that waits for alerts returns, unless a change comes during its  *)
(* scan: wait_for_mail looks at the count before it looks at the deadline, *)
(* and goes on while changes come during every scan; changes between the   *)
(* scans, the minutely resync among them, do not put the deadline off.     *)
(* Archive and shutdown end every wait.                                    *)
WaitsEnd ==
    \A w \in Waiters : waiter[w].phase # "idle" ~>
        \/ waiter[w].phase = "idle"
        \/ waiter[w].phase = "rescan" /\ waiter[w].changed /\ ~cancelled

(* Logout, archive and shutdown close the sockets they concern ("Logout,   *)
(* workspace archive, and server shutdown close affected sockets"), those  *)
(* included that are still being upgraded or say hello.                    *)
SocketsEnd ==
    \A s \in Sockets :
        socket[s].phase # "closed" /\ (cancelled \/ ~socket[s].live) ~> socket[s].phase = "closed"

=============================================================================
