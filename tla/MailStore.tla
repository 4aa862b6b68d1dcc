------------------------------ MODULE MailStore ------------------------------
(***************************************************************************)
(* The mailbox of a workspace: one process at a time serves requests from  *)
(* a Git repository.  A request is one commit: its record, state.md for a  *)
(* message, and a request record that makes a retry find the result.  A    *)
(* marker file inside .git lets the next step, or the next process, roll   *)
(* an interrupted commit back or accept it.                                *)
(*                                                                         *)
(* Every write that reaches the disk is a step, since the process may die  *)
(* and a write may fail between any two.  A file that another program      *)
(* leaves in the working tree makes the mailbox refuse its work.           *)
(***************************************************************************)
EXTENDS Naturals, Sequences, FiniteSets

CONSTANTS
    Participants,   \* participant ids
    Channels,       \* channel ids, "general" among them
    General,        \* the channel every mailbox has
    Broadcast,      \* the destination that reaches everybody
    Calls,          \* the mutations clients ask for
    Faults,         \* what may go wrong, a subset of {"crash", "io", "foreign"}
    None            \* absence of a value

Operations == {"register", "leave", "channel_create", "send", "acknowledge"}

\* The commit that creates the mailbox has no request.
InitCall == [rid |-> None, op |-> "init", who |-> None, dest |-> None, about |-> {}]

ASSUME ChannelsAssumption ==
    /\ General \in Channels
    /\ Participants \cap Channels = {}
    /\ {Broadcast, None} \cap (Participants \cup Channels) = {}
    /\ Broadcast # None

\* A call: its request id, who asks, and what it is about: a destination or
\* the channel to create, and the numbers of the messages it names (the thread
\* of a message, the messages acknowledged).
ASSUME CallsAssumption ==
    \A c \in Calls :
        /\ c = [rid |-> c.rid, op |-> c.op, who |-> c.who, dest |-> c.dest, about |-> c.about]
        /\ c.rid # None
        /\ c.op \in Operations
        /\ c.who \in IF c.op = "channel_create" THEN {None} ELSE Participants
        /\ c.dest \in CASE c.op = "channel_create" -> Channels
                        [] c.op = "send" -> Participants \cup Channels \cup {Broadcast}
                        [] OTHER         -> {None}
        /\ c.about \subseteq Nat \ {0}

ASSUME FaultsAssumption == Faults \subseteq {"crash", "io", "foreign"}

VARIABLES
    repo,       \* whether the Git repository exists
    log,        \* the commits from the first to HEAD; empty while HEAD is unborn
    work,       \* files of a commit that the working tree has ahead of HEAD
    staged,     \* files of a commit that the Git index has ahead of HEAD
    marker,     \* .git/orchard-mail-transaction.json
    foreign,    \* whether the working tree has a file of another program
    pc,         \* where the service is
    job,        \* what a transaction or a recovery is part of
    txn,        \* the entry that is being committed
    known,      \* MailIndex: the commits the service has in memory
    told        \* history: entries answered with success

disk  == <<repo, log, work, staged, marker, foreign>>
files == <<work, staged>>
vars  == <<disk, pc, job, txn, known, told>>

\* The files of a commit, in the order they are written.
Record == 1
State == 2
Request == 3

Paths(e) ==
    CASE e.call.op = "init" -> {Record, State}
      [] e.call.op = "send" -> {Record, State, Request}
      [] OTHER              -> {Record, Request}

\* A commit: the call it carries out, the number and recipients of its message,
\* and the next number that state.md holds in its tree.
Entry == [call: Calls \cup {InitCall}, seq: Nat, to: SUBSET Participants, next: Nat]

NoMarker == [shape |-> "none", base |-> 0, txn |-> None, tree |-> FALSE]
Torn     == [NoMarker EXCEPT !.shape = "torn"]
Marker   == [shape: {"none", "torn", "whole"}, base: Nat, txn: Entry \cup {None},
             tree: BOOLEAN]

Phases ==
    {"closed", "idle", "poisoned",
     "mark", "fill", "write", "stage", "remark", "refill", "commit", "unmark", "check",
     "recover", "restore", "recheck", "release", "settle"}

Jobs == {"none", "open", "init", "call", "finish"}

MailTypeOK ==
    /\ repo \in BOOLEAN
    /\ log \in Seq(Entry)
    /\ work \subseteq {Record, State, Request}
    /\ staged \subseteq {Record, State, Request}
    /\ marker \in Marker
    /\ foreign \in BOOLEAN
    /\ pc \in Phases
    /\ job \in Jobs
    /\ txn \in Entry \cup {None}
    /\ known \in Seq(Entry)
    /\ told \subseteq Entry

Init ==
    /\ repo = FALSE
    /\ log = <<>>
    /\ work = {}
    /\ staged = {}
    /\ marker = NoMarker
    /\ foreign = FALSE
    /\ pc = "closed"
    /\ job = "none"
    /\ txn = None
    /\ known = <<>>
    /\ told = {}

-----------------------------------------------------------------------------
(* What a history h of commits says.                                       *)

Of(h, op) == {i \in DOMAIN h : h[i].call.op = op}

Requests(h) == {h[i].call.rid : i \in DOMAIN h}

\* Participants that have a record, and those whose record says registered.
Recorded(h) == {h[i].call.who : i \in Of(h, "register")}

Active(h) ==
    {p \in Participants :
        \E i \in Of(h, "register") :
            /\ h[i].call.who = p
            /\ \A j \in Of(h, "leave") : h[j].call.who = p => j < i}

ChannelsOf(h) == {General} \cup {h[i].call.dest : i \in Of(h, "channel_create")}

Numbers(h) == {h[i].seq : i \in Of(h, "send")}

Delivered(h, p) == {h[i].seq : i \in {j \in Of(h, "send") : p \in h[j].to}}

NextSequence(h) == IF h = <<>> THEN 1 ELSE h[Len(h)].next

\* MUTANT of Accepts: the sender of a message is not looked up.
MutAnySender(h, c) ==
    CASE c.op = "register"       -> c.who \notin Active(h)
      [] c.op = "leave"          -> c.who \in Active(h)
      [] c.op = "channel_create" -> c.dest \notin ChannelsOf(h)
      [] c.op = "send"           -> c.dest \in Active(h) \cup ChannelsOf(h) \cup {Broadcast}
      [] c.op = "acknowledge"    -> c.who \in Recorded(h) /\ c.about \subseteq Delivered(h, c.who)

\* What the service requires of a call with a new request id.
Accepts(h, c) ==
    CASE c.op = "register"       -> c.who \notin Active(h)
      [] c.op = "leave"          -> c.who \in Active(h)
      [] c.op = "channel_create" -> c.dest \notin ChannelsOf(h)
      [] c.op = "send"           ->
            /\ c.who \in Active(h)
            /\ c.about \subseteq Numbers(h)
            /\ c.dest \in Active(h) \cup ChannelsOf(h) \cup {Broadcast}
      [] c.op = "acknowledge"    ->
            /\ c.who \in Recorded(h)
            /\ c.about # {}
            /\ c.about \subseteq Delivered(h, c.who)

\* MUTANT of Recipients: participants that have left get messages too.
MutEverybodyEver(h, c) ==
    IF c.op # "send" THEN {} ELSE IF c.dest \in Participants THEN {c.dest} ELSE Recorded(h)

\* Who a message is delivered to, fixed when it is sent.
Recipients(h, c) ==
    IF c.op # "send" THEN {} ELSE IF c.dest \in Participants THEN {c.dest} ELSE Active(h)

\* The number of a message is the next one, and state.md moves on.
EntryFor(h, c) ==
    LET n == NextSequence(h) IN
    [call |-> c,
     seq  |-> IF c.op = "send" THEN n ELSE 0,
     to   |-> Recipients(h, c),
     next |-> IF c.op = "send" THEN n + 1 ELSE n]

InitEntry == [call |-> InitCall, seq |-> 0, to |-> {}, next |-> 1]

(* verify_git_history: the first commit creates the mailbox, and every      *)
(* other commit adds what its operation adds and replaces nothing.          *)
CommitsHaveShape(h) ==
    \A i \in DOMAIN h :
        LET c == h[i].call
            before == SubSeq(h, 1, i - 1) IN
        /\ (c.op = "init") = (i = 1)
        /\ i > 1 => c.rid \notin Requests(before)
        /\ c.op = "leave" => c.who \in Recorded(before)
        /\ c.op = "channel_create" => c.dest \notin ChannelsOf(before)
        /\ c.op = "send" =>
            h[i].seq \notin Numbers(before) /\ h[i].next # NextSequence(before)

(* rebuild_index: the records read back refer to each other consistently.   *)
(* A message has its request record, and that is one of a send.             *)
RecordsAgree(h) ==
    \A i \in Of(h, "send") :
        /\ h[i].seq < NextSequence(h)
        /\ \A j \in DOMAIN h : h[j].call.rid = h[i].call.rid => h[j].call.op = "send"
        /\ {h[i].call.who} \cup h[i].to \subseteq Recorded(h)
        /\ h[i].call.dest \in Recorded(h) \cup ChannelsOf(h) \cup {Broadcast}
        /\ h[i].call.about \subseteq Numbers(h)

Verifies(h) == h # <<>> /\ CommitsHaveShape(h) /\ RecordsAgree(h)

-----------------------------------------------------------------------------
(* Serving a call                                                          *)

Dirty == work \cup staged # {} \/ foreign

\* No request record has the id of the call.
Fresh(c) == c.rid \notin Requests(known)

\* The service waits for calls again, after an error.
GoIdle ==
    /\ pc' = "idle"
    /\ job' = "none"
    /\ txn' = None

\* The process lets go of the repository.
GoClosed ==
    /\ pc' = "closed"
    /\ job' = "none"
    /\ txn' = None
    /\ known' = <<>>

(* A call with a new id that the service accepts starts a transaction.     *)
(* Reads, refused calls and a reused id change nothing.                    *)
Begin(c) ==
    /\ pc = "idle"
    /\ ~Dirty
    /\ Fresh(c)
    /\ Accepts(known, c)
    /\ txn' = EntryFor(known, c)
    /\ job' = "call"
    /\ pc' = "mark"
    /\ UNCHANGED <<disk, known, told>>

\* A repeated call is answered from its request record.
AnswerRetry(c) ==
    /\ pc = "idle"
    /\ ~Dirty
    /\ \E i \in DOMAIN known : known[i].call = c /\ told' = told \cup {known[i]}
    /\ UNCHANGED <<disk, pc, job, txn, known>>

-----------------------------------------------------------------------------
(* apply_transaction                                                       *)

Step(from, to) == pc = from /\ pc' = to

WholeMarker(prepared) ==
    [shape |-> "whole", base |-> Len(log), txn |-> txn, tree |-> prepared]

\* Writing a marker empties the file first (File::create), then fills it.
TruncateMarker ==
    /\ Step("mark", "fill") \/ Step("remark", "refill")
    /\ marker' = Torn
    /\ UNCHANGED <<repo, log, files, foreign, job, txn, known, told>>

FillMarker ==
    /\ Step("fill", "write")
    /\ marker' = WholeMarker(FALSE)
    /\ UNCHANGED <<repo, log, files, foreign, job, txn, known, told>>

\* The first marker cannot be written: the call fails and nothing recovers.
MarkerFails ==
    /\ "io" \in Faults
    /\ pc \in {"mark", "fill"}
    /\ \/ UNCHANGED marker
       \/ pc = "fill" /\ marker' = WholeMarker(FALSE)
    /\ IF job = "init" THEN GoClosed ELSE GoIdle /\ UNCHANGED known
    /\ UNCHANGED <<repo, log, files, foreign, told>>

\* The next file of a set of files: they are handled in the order of Paths.
First(f, S) == f \in S /\ \A g \in S : f <= g

WriteFile ==
    /\ pc = "write"
    /\ \E f \in Paths(txn) : First(f, Paths(txn) \ work) /\ work' = work \cup {f}
    /\ UNCHANGED <<repo, log, staged, marker, foreign, pc, job, txn, known, told>>

StageFiles ==
    /\ Step("write", "remark")
    /\ Paths(txn) \subseteq work
    /\ staged' = Paths(txn)
    /\ UNCHANGED <<repo, log, work, marker, foreign, job, txn, known, told>>

\* MUTANT of PrepareMarker: the commit is made under the first marker.
MutKeepFirstMarker ==
    /\ Step("refill", "commit")
    /\ marker' = WholeMarker(FALSE)
    /\ UNCHANGED <<repo, log, files, foreign, job, txn, known, told>>

\* The marker is written again, now with the tree of the commit to come.
PrepareMarker ==
    /\ Step("refill", "commit")
    /\ marker' = WholeMarker(TRUE)
    /\ UNCHANGED <<repo, log, files, foreign, job, txn, known, told>>

CommitFiles ==
    /\ Step("commit", "unmark")
    /\ log' = Append(log, txn)
    /\ work' = {}
    /\ staged' = {}
    /\ UNCHANGED <<repo, marker, foreign, job, txn, known, told>>

\* MUTANT of AttemptFails: the error is reported without a recovery.
MutNoRecovery ==
    /\ "io" \in Faults
    /\ pc \in {"write", "remark", "refill", "commit"}
    /\ IF job = "init" THEN GoClosed ELSE GoIdle /\ UNCHANGED known
    /\ UNCHANGED <<disk, told>>

\* A write fails before the commit; the file in question may be there.
AttemptFails ==
    /\ "io" \in Faults
    /\ pc \in {"write", "remark", "refill", "commit"}
    /\ pc' = "recover"
    /\ \/ UNCHANGED <<work, staged, marker>>
       \/ /\ pc = "write"
          /\ \E f \in Paths(txn) : First(f, Paths(txn) \ work) /\ work' = work \cup {f}
          /\ UNCHANGED <<staged, marker>>
       \/ /\ pc = "write"
          /\ Paths(txn) \subseteq work
          /\ staged' = Paths(txn)
          /\ UNCHANGED <<work, marker>>
       \/ /\ pc = "refill"
          /\ marker' = WholeMarker(TRUE)
          /\ UNCHANGED <<work, staged>>
    /\ UNCHANGED <<repo, log, foreign, job, txn, known, told>>

RemoveMarker ==
    /\ Step("unmark", "check")
    /\ marker' = NoMarker
    /\ UNCHANGED <<repo, log, files, foreign, job, txn, known, told>>

\* The commit is in place and the working tree clean: the call succeeds, or
\* the new mailbox is open.
Finish ==
    /\ pc = "check"
    /\ ~Dirty
    /\ known' = Append(known, txn)
    /\ told' = IF job = "call" THEN told \cup {txn} ELSE told
    /\ GoIdle
    /\ UNCHANGED disk

\* After the commit: the marker stays, or the working tree is not clean.
FinishFails ==
    /\ \/ "io" \in Faults /\ pc \in {"unmark", "check"}
       \/ pc = "check" /\ Dirty
    /\ pc' = "recover"
    /\ job' = IF job = "call" THEN "finish" ELSE job
    /\ UNCHANGED <<disk, txn, known, told>>

-----------------------------------------------------------------------------
(* recover_known_transaction                                               *)

\* HEAD is the commit that the marker announces.
Completed ==
    /\ marker.base + 1 = Len(log)
    /\ marker.tree
    /\ log[Len(log)] = marker.txn
    /\ ~Dirty

\* Nothing was committed under the marker, and it owns every changed file.
\* While HEAD is unborn there is no commit to go back to.
RollsBack ==
    /\ marker.base = Len(log)
    /\ log # <<>>
    /\ ~foreign
    /\ work \cup staged \subseteq Paths(marker.txn)

RecoverNothing ==
    /\ Step("recover", "settle")
    /\ marker.shape = "none"
    /\ UNCHANGED <<disk, job, txn, known, told>>

AcceptCommit ==
    /\ Step("recover", "settle")
    /\ marker.shape = "whole"
    /\ Completed
    /\ marker' = NoMarker
    /\ UNCHANGED <<repo, log, files, foreign, job, txn, known, told>>

StartRollback ==
    /\ Step("recover", "restore")
    /\ marker.shape = "whole"
    /\ RollsBack
    /\ UNCHANGED <<disk, job, txn, known, told>>

RestoreFile ==
    /\ pc = "restore"
    /\ \E f \in work : First(f, work) /\ work' = work \ {f}
    /\ UNCHANGED <<repo, log, staged, marker, foreign, pc, job, txn, known, told>>

ResetIndex ==
    /\ Step("restore", "release")
    /\ work = {}
    /\ staged' = {}
    /\ UNCHANGED <<repo, log, work, marker, foreign, job, txn, known, told>>

EndRollback ==
    /\ Step("release", "recheck")
    /\ marker' = NoMarker
    /\ UNCHANGED <<repo, log, files, foreign, job, txn, known, told>>

RolledBack ==
    /\ Step("recheck", "settle")
    /\ ~Dirty
    /\ UNCHANGED <<disk, job, txn, known, told>>

\* The service is of no use until it is opened again, if it was open at all.
GiveUp ==
    IF job \in {"open", "init"} THEN GoClosed
    ELSE /\ pc' = "poisoned"
         /\ job' = "none"
         /\ txn' = None
         /\ UNCHANGED known

RecoveryFails ==
    /\ \/ /\ pc = "recover"
          /\ marker.shape # "none"
          /\ ~(marker.shape = "whole" /\ (Completed \/ RollsBack))
       \/ pc = "recheck" /\ Dirty
       \/ /\ "io" \in Faults
          /\ pc \in {"recover", "restore", "release", "recheck"}
          /\ pc = "recover" => marker.shape # "none"
    /\ GiveUp
    /\ UNCHANGED <<disk, told>>

\* MUTANT of Settle: a failed finalisation does not rebuild the index.
MutSettleNoRebuild ==
    /\ pc = "settle"
    /\ \/ job \in {"call", "finish"} /\ GoIdle /\ UNCHANGED known
       \/ job = "init" /\ GoClosed
       \/ job = "open" /\ ~Dirty /\ Verifies(log) /\ GoIdle /\ known' = log
       \/ job = "open" /\ (Dirty \/ ~Verifies(log)) /\ GoClosed
    /\ UNCHANGED <<disk, told>>

(* After recovery: a failed attempt or a failed creation is reported; a    *)
(* commit that was made all the same is taken into memory first; an        *)
(* opening mailbox is checked as a whole.                                  *)
Settle ==
    /\ pc = "settle"
    /\ \/ job = "call" /\ GoIdle /\ UNCHANGED known
       \/ job = "init" /\ GoClosed
       \/ job = "finish" /\ Verifies(log) /\ GoIdle /\ known' = log
       \/ job = "open" /\ ~Dirty /\ Verifies(log) /\ GoIdle /\ known' = log
    /\ UNCHANGED <<disk, told>>

\* The check of an opening mailbox, or reading it again, fails.
SettleFails ==
    /\ pc = "settle"
    /\ \/ job \in {"finish", "open"} /\ ("io" \in Faults \/ ~Verifies(log))
       \/ job = "open" /\ Dirty
    /\ GiveUp
    /\ UNCHANGED <<disk, told>>

-----------------------------------------------------------------------------
(* Opening and closing                                                     *)

OpenNew ==
    /\ Step("closed", "mark")
    /\ ~repo
    /\ repo' = TRUE
    /\ txn' = InitEntry
    /\ job' = "init"
    /\ UNCHANGED <<log, files, marker, foreign, known, told>>

\* A repository whose HEAD is unborn is refused.
OpenExisting ==
    /\ Step("closed", "recover")
    /\ repo
    /\ log # <<>>
    /\ job' = "open"
    /\ UNCHANGED <<disk, txn, known, told>>

Close ==
    /\ pc \in {"idle", "poisoned"}
    /\ GoClosed
    /\ UNCHANGED <<disk, told>>

Crash ==
    /\ "crash" \in Faults
    /\ pc # "closed"
    /\ GoClosed
    /\ UNCHANGED <<disk, told>>

\* Another program leaves a file in the working tree, or takes it away.
Foreign ==
    /\ "foreign" \in Faults
    /\ repo
    /\ foreign' = ~foreign
    /\ UNCHANGED <<repo, log, files, marker, pc, job, txn, known, told>>

Transact ==
    \/ TruncateMarker \/ FillMarker \/ MarkerFails
    \/ WriteFile \/ StageFiles \/ PrepareMarker \/ CommitFiles \/ AttemptFails
    \/ RemoveMarker \/ Finish \/ FinishFails

Recover ==
    \/ RecoverNothing \/ AcceptCommit \/ StartRollback \/ RestoreFile \/ ResetIndex
    \/ EndRollback \/ RolledBack \/ RecoveryFails \/ Settle
    \/ SettleFails

Next ==
    \/ \E c \in Calls : Begin(c) \/ AnswerRetry(c)
    \/ Transact
    \/ Recover
    \/ OpenNew \/ OpenExisting \/ Close \/ Crash \/ Foreign

Spec == Init /\ [][Next]_vars

-----------------------------------------------------------------------------
(* Safety                                                                  *)

(* A mailbox that serves calls has in memory exactly the commits of HEAD,  *)
(* even after a commit whose finalisation failed (apply_transaction), so a *)
(* retry finds its result and no message number is used twice.             *)
MemoryIsHead == pc = "idle" => known = log

\* Whether a recovery started now would succeed.
Recoverable ==
    \/ marker.shape = "none"
    \/ marker.shape = "whole" /\ (Completed \/ RollsBack)

(* However a transaction was interrupted, what it left is either undone or *)
(* accepted by the next recovery, unless the marker itself is torn or      *)
(* another program has a file there (recover_known_transaction).           *)
LeftoversAreOwned ==
    pc \in {"closed", "idle", "poisoned", "recover", "restore"} /\ log # <<>>
    /\ marker.shape # "torn" /\ ~foreign =>
        /\ Recoverable
        /\ marker.shape = "none" => ~Dirty

(* The mailbox's own commits pass the checks it makes when it opens, at    *)
(* every moment at which it may open (verify_git_history, rebuild_index).  *)
OwnHistoryVerifies == log # <<>> => Verifies(log)

(* A process crash leaves a mailbox that opens again: nothing but the      *)
(* interrupted commit is in the way (docs/storage.md of orchard-mail).     *)
CrashLeavesRecoverable == pc = "closed" /\ log # <<>> => Recoverable

-----------------------------------------------------------------------------
(* The inductive invariant behind MemoryIsHead and LeftoversAreOwned.      *)

Clean == work \cup staged = {}

Written   == {"write", "remark", "refill", "commit"}
Attempt   == {"mark", "fill"} \cup Written
Finishing == {"unmark", "check"}
Recovery  == {"recover", "restore", "release", "recheck", "settle"}

\* Memory lags behind HEAD only between a commit and the end of its call, or
\* while a failed finalisation is repaired.
Memory ==
    /\ pc \in Attempt \cup Finishing => job \in {"init", "call"} /\ txn \in Entry
    /\ pc \in Attempt \cup {"idle"} => known = log
    /\ pc \in Finishing => log = Append(known, txn)
    /\ pc \in Recovery => job \in Jobs \ {"none"}
    /\ pc \in Recovery /\ job = "call" => known = log
    /\ pc = "closed" => known = <<>>
    /\ ~repo => pc = "closed" /\ log = <<>>

\* The marker announces the commit that is HEAD, or one still to be made.
Announced == marker.base + 1 = Len(log) /\ marker.tree /\ log[Len(log)] = marker.txn
Awaited   == marker.base = Len(log) /\ work \cup staged \subseteq Paths(marker.txn)

Leftovers ==
    /\ ~repo => Clean
    /\ marker.shape = "none" => Clean
    /\ marker.shape = "whole" => (Announced /\ Clean) \/ Awaited
    /\ pc \in {"idle", "mark", "fill", "release", "recheck", "settle"} \cup Finishing => Clean
    /\ pc \in Written \ {"refill"} =>
        marker.shape = "whole" /\ Awaited /\ marker.txn = txn
    /\ pc \in Written => work \cup staged \subseteq Paths(txn)
    /\ pc \in {"fill", "refill"} => marker.shape = "torn"
    /\ pc = "commit" => marker.tree
    /\ pc = "unmark" => marker.shape = "whole" /\ Announced
    /\ pc \in {"check", "recheck", "settle"} => marker.shape = "none"
    /\ pc \in {"restore", "release"} => marker.shape = "whole" /\ Awaited

MailInv == MailTypeOK /\ Memory /\ Leftovers

-----------------------------------------------------------------------------
(* Refinement: the commits of HEAD are the log that clients see.           *)

\* What clients see of a commit.
Public(e) == [call |-> e.call, seq |-> e.seq, to |-> e.to]

Abstract ==
    INSTANCE RequestLog WITH
        Calls    <- Calls \cup {InitCall},
        entries  <- [i \in DOMAIN log |-> Public(log[i])],
        members  <- Active(log),
        answers  <- {Public(e) : e \in told}

(* Commits, retries, failures and recoveries of the repository keep the    *)
(* promises of RequestLog.                                                 *)
ImplementsRequestLog == Abstract!Spec
=============================================================================
