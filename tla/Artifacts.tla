------------------------------ MODULE Artifacts ------------------------------
(***************************************************************************)
(* The owned artifact repository of a workspace: a Git working tree, its   *)
(* index and its commits.  Uploads, deletes and commits of working-copy    *)
(* files leave a receipt file in the commit they make.  One lock spans a   *)
(* whole call, so that one call runs at a time; agents on the same host    *)
(* edit and stage files whenever they like; writes fail, and the host dies *)
(* between any two of them.  A start of the host seeds the README.         *)
(***************************************************************************)
EXTENDS Naturals, FiniteSets, SequencesExt, FiniteSetsExt

CONSTANTS
    Paths,
    Contents,       \* what a file may hold
    Links,          \* the contents that are symbolic links
    Arguments,      \* the calls clients make
    Seed,           \* the upload of the README by the host
    Faults,         \* what may go wrong: "io", "crash", "tear"
    Editable,       \* the files that agents edit and stage by hand
    None            \* absence of a value

Operations == {"upload", "delete", "commit"}

\* The content of a delete or commit is None.
ASSUME ArgumentsAssumption ==
    \A a \in Arguments \cup {Seed} :
        /\ a = [op |-> a.op, rid |-> a.rid, paths |-> a.paths, content |-> a.content]
        /\ a.op \in Operations
        /\ a.paths \subseteq Paths /\ a.paths # {}
        /\ a.op \in {"upload", "delete"} => Cardinality(a.paths) = 1
        /\ a.content \in IF a.op = "upload" THEN Contents \ Links ELSE {None}
        /\ a # Seed => a.rid # Seed.rid

ASSUME SeedAssumption == Seed.op = "upload"
ASSUME ContentsAssumption == Links \subseteq Contents /\ None \notin Contents
ASSUME EditableAssumption == Editable \subseteq Paths

RequestIds == {a.rid : a \in Arguments \cup {Seed}}

\* validate_request_id: ids have 128 characters at most.
ASSUME RequestIdsAssumption == IsFiniteSet(RequestIds)

VARIABLES
    log,            \* the commits of HEAD, oldest first, with the calls that made them
    index,
    work,           \* the working tree
    host,           \* "down", "seed" while a start seeds the README, "up"
    call,           \* the call that holds artifact_lock
    answers,        \* history: successful answers
    raced,          \* history: requests whose files changed while a call ran
    meddled         \* history: files changed since a receipt was written

vars == <<log, index, work, host, call, answers, raced, meddled>>

Torn == [op |-> "torn"]

\* What a receipt says of each file: the content an upload or a commit gives it
\* (None when a commit deletes it), the content a delete takes away.
Plans == UNION {[P -> Contents \cup {None}] : P \in SUBSET Paths}
Receipt == [op: Operations, plan: Plans]

ASSUME NoneAssumption == None \notin Receipt /\ None # Torn

Snapshot ==
    [files: [Paths -> Contents \cup {None}],
     receipts: [RequestIds -> Receipt \cup {Torn, None}]]

Empty == [files |-> [p \in Paths |-> None], receipts |-> [r \in RequestIds |-> None]]

Phases ==
    {"idle", "look", "admit", "recheck", "plan", "truncate", "fill", "target", "remove",
     "stage", "commit", "reply"}

Call ==
    [phase: Phases, args: Arguments \cup {Seed, None}, index: Snapshot,
     plan: Plans, pending: BOOLEAN, revision: Nat]

Idle ==
    [phase |-> "idle", args |-> None, index |-> Empty, plan |-> <<>>,
     pending |-> FALSE, revision |-> 0]

\* A request makes one commit at most.
ArtifactTypeOK ==
    /\ log \in Seq([tree: Snapshot, by: Arguments \cup {Seed}])
    /\ Len(log) <= Cardinality(RequestIds)
    /\ index \in Snapshot
    /\ work \in Snapshot
    /\ host \in {"down", "seed", "up"}
    /\ call \in Call
    /\ answers \subseteq [args: Arguments, revision: Nat \ {0}]
    /\ raced \subseteq RequestIds
    /\ meddled \in BOOLEAN

Init ==
    /\ log = <<>>
    /\ index = Empty
    /\ work = Empty
    /\ host = "down"
    /\ call = Idle
    /\ answers = {}
    /\ raced = {}
    /\ meddled = FALSE

-----------------------------------------------------------------------------
(* What the code reads.                                                    *)

Before(i) == IF i = 1 THEN Empty ELSE log[i - 1].tree
Head_ == IF log = <<>> THEN Empty ELSE Last(log).tree

\* artifact_statuses: everything in which HEAD, index and working tree differ.
ChangedFiles ==
    {p \in Paths : ~(Head_.files[p] = index.files[p] /\ index.files[p] = work.files[p])}
ChangedReceipts ==
    {r \in RequestIds :
        ~(Head_.receipts[r] = index.receipts[r] /\ index.receipts[r] = work.receipts[r])}
has_index_change == index # Head_

\* MUTANT of Clean: receipts do not count as changes.
MutCleanFiles == ChangedFiles = {}

Clean == ChangedFiles = {} /\ ChangedReceipts = {}

\* Only the files of this request have changed.
OnlyOwn(a) == ChangedFiles \subseteq a.paths /\ ChangedReceipts \subseteq {a.rid}

Fits(receipt, a) ==
    /\ receipt.op = a.op
    /\ DOMAIN receipt.plan = a.paths
    /\ a.op = "upload" => \A p \in a.paths : receipt.plan[p] = a.content

\* MUTANT of find_original_receipt: the newest commit with the receipt is found.
MutAnyCommit(r) == {i \in DOMAIN log : log[i].tree.receipts[r] # None}

\* The commits that introduced a receipt; the newest one counts.
find_original_receipt(r) ==
    {i \in DOMAIN log : log[i].tree.receipts[r] # None /\ Before(i).receipts[r] = None}
Original(r) == Max(find_original_receipt(r))

\* An upload also compares the file it finds in that commit.
Replays(a) ==
    LET i == Original(a.rid) IN
    /\ Fits(log[i].tree.receipts[a.rid], a)
    /\ a.op = "upload" => \A p \in a.paths : log[i].tree.files[p] = a.content

Written(a) == work.receipts[a.rid]
Pending(a) == Written(a) \notin {None, Torn} /\ Fits(Written(a), a)
\* A receipt that cannot be read, or that is of another request, refuses a call.
Foreign(a) == Written(a) # None /\ ~Pending(a)

ensure_safe_live_path(paths) == \A p \in paths : work.files[p] \notin Links

validate_pending_receipt_index(a) ==
    index.receipts[a.rid] # Head_.receipts[a.rid] => index.receipts[a.rid] = Written(a)

\* A staged change of a delete is its removal, or what it removes.
validate_pending_delete_index(a) ==
    \A p \in a.paths : index.files[p] # Head_.files[p] =>
        index.files[p] \in {None, Written(a).plan[p]}

\* A staged change of a commit is the one its receipt announces.
validate_pending_artifact_index(a) ==
    \A p \in a.paths : index.files[p] # Head_.files[p] => index.files[p] = Written(a).plan[p]

\* MUTANT of Resumes: an interrupted request goes on with nothing staged only.
MutResumesUnstaged(a) ==
    /\ Pending(a)
    /\ OnlyOwn(a)
    /\ ~has_index_change
    /\ a.op = "commit" => ChangedFiles = a.paths

\* An interrupted request may go on.
Resumes(a) ==
    /\ Pending(a)
    /\ OnlyOwn(a)
    /\ CASE a.op = "upload" -> ~Clean /\ ensure_safe_live_path(a.paths)
         [] a.op = "delete" -> /\ ensure_safe_live_path(a.paths)
                               /\ validate_pending_receipt_index(a)
                               /\ validate_pending_delete_index(a)
         [] a.op = "commit" -> /\ ChangedFiles = a.paths
                               /\ validate_pending_receipt_index(a)
                               /\ validate_pending_artifact_index(a)

\* A new request may begin.
Starts(a) ==
    CASE a.op = "upload" -> Clean /\ ensure_safe_live_path(a.paths)
      [] a.op = "delete" -> Written(a) = None /\ Clean /\ ensure_safe_live_path(a.paths)
      [] a.op = "commit" -> /\ Written(a) = None
                            /\ ChangedReceipts = {}
                            /\ ChangedFiles = a.paths
                            /\ \A p \in a.paths : index.files[p] = Head_.files[p]

path_ever_committed(p) == \E i \in DOMAIN log : log[i].tree.files[p] # None

\* A seed goes on only with nothing staged.
seed_workspace_readme ==
    /\ \A p \in Seed.paths :
        /\ work.files[p] # None => Pending(Seed) /\ work.files[p] = Seed.content
        /\ ~path_ever_committed(p)
    /\ find_original_receipt(Seed.rid) = {}
    /\ ~Foreign(Seed)
    /\ ~has_index_change
    /\ Clean \/ (Pending(Seed) /\ OnlyOwn(Seed))

-----------------------------------------------------------------------------
(* The course of a call.                                                   *)

Goto(phase) == call' = [call EXCEPT !.phase = phase]

End ==
    /\ call' = Idle
    /\ host' = "up"

Fail == End /\ UNCHANGED <<log, index, work, answers, raced, meddled>>

Step(phase) ==
    /\ Goto(phase)
    /\ UNCHANGED <<log, index, work, host, answers, raced, meddled>>

Begin ==
    /\ host = "up"
    /\ call.phase = "idle"
    /\ \E a \in Arguments :
        call' = [Idle EXCEPT !.phase = "look", !.args = a]
    /\ UNCHANGED <<log, index, work, host, answers, raced, meddled>>

Answer(revision) ==
    /\ End
    /\ answers' = IF host = "seed" THEN answers
                  ELSE answers \cup {[args |-> call.args, revision |-> revision]}
    /\ UNCHANGED <<log, index, work, raced, meddled>>

\* The first phases of a call that goes on, and of a new one.
Resuming(op) ==
    CASE op = "upload" -> "target" [] op = "delete" -> "recheck" [] op = "commit" -> "plan"
Starting(op) == IF op = "commit" THEN "plan" ELSE "admit"

\* From here on the call works with the index it has read.
Enter(phase, pending) ==
    /\ call' = [call EXCEPT !.phase = phase, !.index = index, !.pending = pending,
                            !.plan = IF pending THEN Written(call.args).plan ELSE <<>>]
    /\ UNCHANGED <<log, index, work, host, answers, raced, meddled>>

Look ==
    LET a == call.args IN
    /\ call.phase = "look"
    /\ host = "up"
    /\ IF find_original_receipt(a.rid) # {}
       THEN IF Replays(a) THEN Answer(Original(a.rid)) ELSE Fail
       ELSE CASE Resumes(a) -> Enter(Resuming(a.op), TRUE)
              [] Starts(a)  -> Enter(Starting(a.op), FALSE)
              [] OTHER      -> Fail

Start ==
    /\ host = "down"
    /\ host' = "seed"
    /\ call' = [Idle EXCEPT !.phase = "look", !.args = Seed]
    /\ UNCHANGED <<log, index, work, answers, raced, meddled>>

LookSeed ==
    /\ call.phase = "look"
    /\ host = "seed"
    /\ IF ~seed_workspace_readme
       THEN Fail
       ELSE /\ call' = [call EXCEPT !.phase = IF Pending(Seed) THEN "target" ELSE "truncate",
                                    !.index = index, !.pending = Pending(Seed),
                                    !.plan = [p \in Seed.paths |-> Seed.content]]
            /\ UNCHANGED <<log, index, work, host, answers, raced, meddled>>

\* An upload overwrites only tracked files, a delete removes only tracked ones.
Admit ==
    LET a == call.args
        Tracked(p) == call.index.files[p] # None
    IN
    /\ call.phase = "admit"
    /\ IF \A p \in a.paths :
            IF a.op = "upload"
            THEN work.files[p] # None => Tracked(p)
            ELSE Tracked(p) /\ call.index.files[p] \notin Links
                    /\ work.files[p] \notin Links \cup {None}
       THEN /\ call' = [call EXCEPT
                    !.phase = "truncate",
                    !.plan = [p \in a.paths |-> IF a.op = "upload" THEN a.content
                                                ELSE call.index.files[p]]]
            /\ UNCHANGED <<log, index, work, host, answers, raced, meddled>>
       ELSE Fail

\* MUTANT of Recheck: a delete that goes on removes what it finds.
MutNoRecheck == call.phase = "recheck" /\ Step("remove")

\* A delete that goes on compares the file with what it was to remove.
Recheck ==
    /\ call.phase = "recheck"
    /\ IF \A p \in call.args.paths : work.files[p] \in {None, call.plan[p]}
       THEN Step("remove")
       ELSE Fail

\* MUTANT of artifact_content_fingerprints: a retry takes the files as they are.
MutTakeAsIs ==
    LET found == [p \in call.args.paths |-> work.files[p]] IN
    /\ call.phase = "plan"
    /\ call' = [call EXCEPT !.phase = IF call.pending THEN "stage" ELSE "truncate",
                            !.plan = found]
    /\ UNCHANGED <<log, index, work, host, answers, raced, meddled>>

\* A commit reads its files; one that goes on must find them as they were.
artifact_content_fingerprints ==
    LET a == call.args
        found == [p \in a.paths |-> work.files[p]]
    IN
    /\ call.phase = "plan"
    /\ IF /\ ensure_safe_live_path(a.paths)
          /\ \A p \in a.paths :
                /\ call.index.files[p] \notin Links
                /\ found[p] = None => call.index.files[p] # None \/ Head_.files[p] # None
          /\ call.pending => found = call.plan
       THEN /\ call' = [call EXCEPT !.phase = IF call.pending THEN "stage" ELSE "truncate",
                                    !.plan = found]
            /\ UNCHANGED <<log, index, work, host, answers, raced, meddled>>
       ELSE Fail

\* fs::write empties the file first.
write_artifact_receipt ==
    /\ call.phase \in {"truncate", "fill"}
    /\ work' = [work EXCEPT !.receipts[call.args.rid] =
                    IF call.phase = "truncate" THEN Torn
                    ELSE [op |-> call.args.op, plan |-> call.plan]]
    /\ Goto(IF call.phase = "truncate" THEN "fill"
            ELSE CASE call.args.op = "upload" -> "target"
                   [] call.args.op = "delete" -> "remove"
                   [] call.args.op = "commit" -> "stage")
    /\ UNCHANGED <<log, index, host, answers, raced, meddled>>

SetFiles(s, paths, content) ==
    [s EXCEPT !.files = [p \in Paths |-> IF p \in paths THEN content ELSE @[p]]]

WriteTarget ==
    /\ call.phase = "target"
    /\ IF ensure_safe_live_path(call.args.paths)
       THEN /\ work' = SetFiles(work, call.args.paths, call.args.content)
            /\ Goto("stage")
            /\ UNCHANGED <<log, index, host, answers, raced, meddled>>
       ELSE Fail

RemoveTarget ==
    /\ call.phase = "remove"
    /\ IF ensure_safe_live_path(call.args.paths)
       THEN /\ work' = SetFiles(work, call.args.paths, None)
            /\ Goto("stage")
            /\ UNCHANGED <<log, index, host, answers, raced, meddled>>
       ELSE Fail

Removals ==
    CASE call.args.op = "upload" -> {}
      [] call.args.op = "delete" -> call.args.paths
      [] call.args.op = "commit" -> {p \in call.args.paths : call.plan[p] = None}

\* MUTANT of Staged: the receipt is not staged.
MutNoReceipt ==
    [files |-> [p \in Paths |->
        IF p \in Removals THEN None
        ELSE IF p \in call.args.paths THEN work.files[p]
        ELSE call.index.files[p]],
     receipts |-> call.index.receipts]

Staged ==
    [files |-> [p \in Paths |->
        IF p \in Removals THEN None
        ELSE IF p \in call.args.paths THEN work.files[p]
        ELSE call.index.files[p]],
     receipts |-> [call.index.receipts EXCEPT ![call.args.rid] = Written(call.args)]]

\* The files are staged as they are now; one that is gone fails the call.
Stage ==
    /\ call.phase = "stage"
    /\ IF \E p \in call.args.paths \ Removals : work.files[p] = None
       THEN Fail
       ELSE /\ index' = Staged
            /\ call' = [call EXCEPT !.phase = "commit", !.index = Staged]
            /\ UNCHANGED <<log, work, host, answers, raced, meddled>>

Commit ==
    /\ call.phase = "commit"
    /\ log' = Append(log, [tree |-> call.index, by |-> call.args])
    /\ call' = [call EXCEPT !.phase = "reply", !.revision = Len(log) + 1]
    /\ meddled' = FALSE
    /\ UNCHANGED <<index, work, host, answers, raced>>

Reply == call.phase = "reply" /\ Answer(call.revision)

-----------------------------------------------------------------------------
(* Faults and the agents on the host.                                      *)

WriteFails ==
    /\ "io" \in Faults
    /\ call.phase \in {"truncate", "target", "remove", "stage", "commit"}
    /\ Fail

\* A failed write of the receipt may leave it torn.
ReceiptTears ==
    /\ {"io", "tear"} \subseteq Faults
    /\ call.phase = "fill"
    /\ Fail

Crash ==
    /\ "crash" \in Faults
    /\ host # "down"
    /\ call.phase = "fill" => "tear" \in Faults
    /\ host' = "down"
    /\ call' = Idle
    /\ UNCHANGED <<log, index, work, answers, raced, meddled>>

\* Histories: the requests whose call or leftover another hand may have changed.
Meddle(p) ==
    /\ raced' = IF call.phase # "idle" /\ p \in call.args.paths
                THEN raced \cup {call.args.rid} ELSE raced
    /\ meddled' = (meddled \/ call.phase # "idle" \/ ChangedReceipts # {})
    /\ UNCHANGED <<log, host, call, answers>>

Edit ==
    /\ \E p \in Editable, c \in Contents \cup {None} :
        /\ c # work.files[p]
        /\ work' = SetFiles(work, {p}, c)
        /\ Meddle(p)
    /\ UNCHANGED index

StageByHand ==
    /\ \E p \in Editable :
        /\ index.files[p] # work.files[p]
        /\ index' = SetFiles(index, {p}, work.files[p])
        /\ Meddle(p)
    /\ UNCHANGED work

Proceed ==
    \/ Start
    \/ LookSeed
    \/ Look
    \/ Admit
    \/ Recheck
    \/ artifact_content_fingerprints
    \/ write_artifact_receipt
    \/ WriteTarget
    \/ RemoveTarget
    \/ Stage
    \/ Commit
    \/ Reply

Next ==
    \/ Begin
    \/ Proceed
    \/ WriteFails
    \/ ReceiptTears
    \/ Crash
    \/ Edit
    \/ StageByHand

Spec == Init /\ [][Next]_vars

-----------------------------------------------------------------------------
(* Properties.                                                             *)

NewReceipts(i) == {r \in RequestIds : log[i].tree.receipts[r] # Before(i).receipts[r]}

\* Nobody changed the files of a request while its call ran: its commit holds
\* what its receipt says, also when it was completed by a retry and its files,
\* index or receipt were changed in between.
PlanIsCommitted ==
    \A i \in DOMAIN log : \A r \in NewReceipts(i) \ raced :
        LET receipt == log[i].tree.receipts[r] IN
        \A p \in DOMAIN receipt.plan :
            IF receipt.op = "delete"
            THEN Before(i).files[p] = receipt.plan[p] /\ log[i].tree.files[p] = None
            ELSE log[i].tree.files[p] = receipt.plan[p]

\* A delete removes the content it was asked to remove and no other, and no other
\* file: an edit made while the delete lay interrupted is not lost when it is
\* retried (artifact_delete).
DeleteTakesWhatItSaw ==
    [][\A p \in Paths :
        (call.phase = "remove" /\ call' # call /\ work'.files[p] # work.files[p]
            /\ call.args.rid \notin raced)
        => p \in call.args.paths /\ work.files[p] = call.plan[p]]_vars

\* Of all interrupted requests one at most has a receipt that is not committed:
\* no other request was let in before it was completed.
OnePending == Cardinality({r \in RequestIds : work.receipts[r] # Head_.receipts[r]}) <= 1

\* Whatever step an interruption hit, when nobody else touched the files a
\* retry of the request is let in and will find all it needs.
LeftoversCanBeRetried ==
    (host = "up" /\ call.phase = "idle" /\ ~meddled) =>
        \A a \in Arguments :
            Pending(a) /\ find_original_receipt(a.rid) = {} =>
                /\ Resumes(a)
                /\ a.op = "delete" =>
                        \A p \in a.paths : work.files[p] \in {None, Written(a).plan[p]}
                /\ a.op = "commit" =>
                        \A p \in a.paths : work.files[p] = Written(a).plan[p]

\* A seed that was interrupted with its own content in place is completed by the
\* next start, as docs/backend.md says: no start ends with a seed half done.
InterruptedSeedIsRepaired ==
    host = "up" /\ ~meddled /\ Pending(Seed) => find_original_receipt(Seed.rid) # {}

\* Clients see one revision for each request.
Log == INSTANCE Revisions WITH
    Requests  <- Arguments \cup {Seed},
    Empty     <- [p \in Paths |-> None],
    revisions <- [i \in DOMAIN log |-> [by |-> log[i].by, tree |-> log[i].tree.files]]

ImplementsRevisions == Log!Spec
=============================================================================
