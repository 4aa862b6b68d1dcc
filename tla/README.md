# TLA+ models of Orchard

Models, model-checking configurations and machine-checked proofs about the
workspace host of Orchard (`src/crates/orchard-workspace-host`), the mailbox it
embeds (`src/vendor/orchard-mail`) and the programs they talk to.

| module | what it is |
|---|---|
| `TaskRequests` | task mutations: request receipts, locks, the `br` process, crashes |
| `AtMostOnce` | what a request id promises to a client; `TaskRequests` implements it |
| `MCTaskRequests` | the small instances of `TaskRequests` |
| `TaskRequests_proofs` | theorems about `TaskRequests` |
| `MailStore` | the mailbox: Git transactions, crash marker, recovery, opening |
| `RequestLog` | what the mailbox promises to its clients; `MailStore` implements it |
| `MCMailStore` | the small instances of `MailStore` |
| `MailStore_proofs` | theorems about `MailStore` |
| `StatePlugin` | plugin attachments, State definitions and markers, their SQLite transactions |
| `VersionedMarkers` | what State promises about its markers; `StatePlugin` implements it |
| `Artifacts` | the artifact repository: receipts, index, commits, seed, interruptions |
| `Revisions` | what the artifact repository promises; `Artifacts` implements it |
| `WorkspaceRegistry` | `config.json`, its copy in memory, runtimes, store locks |
| `WorkspaceRegistry_proofs` | theorems about `WorkspaceRegistry` |
| `WorkspaceHistory_proofs` | theorems about what clients of `WorkspaceRegistry` were told |
| `LiveEvents` | event hub, sockets, alert waits, the loop for outside edits |
| `StatePlugin_proofs`, `Artifacts_proofs`, `LiveEvents_proofs` | theorems about them |
| `MCStatePlugin`, `MCArtifacts`, `MCWorkspaceRegistry`, `MCLiveEvents` | their small instances |

## 1. Inventory

Paths are relative to `crates/orchard-workspace-host/src` unless they start
with another directory.

| component | state | operations | made correct by |
|---|---|---|---|
| Task requests (`lib.rs`, `beads.rs`) | receipts in the mailbox, request locks, store locks, Beads issues | `task_create/update/claim/release/close` through `mutate_task` | `br` runs once per request id; the answer of a retry is true; a task is taken only from its holder |
| Mail repository (`vendor/orchard-mail/orchard-mail-core`) | Git history, working tree, index, crash marker; index in memory | `mail_register/leave/channel_create/send/acknowledge`, open | every request once, numbers without gaps, memory equal to HEAD, recovery undoes or accepts |
| Beads store synchronisation (`beads.rs`, bundled `br`) | SQLite, `issues.jsonl`, its watermark | freshness check, import, `br`, flush | no edit of either side is overwritten |
| Workspace registry (`lib.rs`, `config.rs`) | `config.json`, runtimes, store locks | create, archive, attach, detach, restart | disk, memory and runtimes agree after each operation and each failed save |
| MCP credentials (`lib.rs`, `mcp.rs`) | token file, runtime token, router | rotate, connection info, restart, archive | exactly the newest token works, in file, memory and router |
| Plugins and State markers (`plugins.rs`) | SQLite rows of attachments, definitions, markers, receipts | attach/detach, `state_*` with a revision check | a marker moves along its definition, once per request |
| Artifacts (`resources.rs`) | a Git repository with receipt files | upload, delete, recovery of an interrupted upload | a retry finishes its own upload and nobody else's |
| Event hub and sockets (`events.rs`, `lib.rs`) | revision counter, broadcast ring of 32 | publish, subscribe, lag, cancel | a socket that lost events is told to read everything again |
| Alerts wait (`resources.rs`) | waiter counter, marks | wait, mail arrival, timeout | no lost wake-up, the counter returns to zero |
| Outside edits (`reconcile.rs`) | fingerprints of files | poll every two seconds, resync every minute | each outside edit is announced in the end |
| Browser sessions, HTTP API (`lib.rs`, `crates/orchard-server`) | session map, shutdown tokens | login, logout, origin checks | a logout closes its sockets |
| Resource links (`resources.rs`), server start, agent command line, update check, desktop shell, user interface, mail MCP and CLI | none of their own worth a model | conversions, one-shot calls, rendering | tests and types |

How they interact: an HTTP or MCP handler runs a call on a blocking thread. A
task call writes its receipts with `mail_send` into the channel
`task-receipts`, holding only its request lock; then takes the lock of the
attached database path, runs `br`, and writes a result receipt. Mail, State and
Artifacts each have their own durable store under the workspace directory, and
one writer at a time: mutexes, and SQLite's write lock for State. Every successful change publishes an event; sockets and
alert waiters read the stores again when they are told to. Archive and token
rotation replace runtimes and routers while calls are in progress.

Hard to get right, and the reason for the models: a host crash between an
intent, an external process and its result; a `br` that outlives its host; two
calls with one request id; a receipt or a save that fails after the effect; a
commit that is durable and reported as an error; checks made before a lock or a
process and relied on after it; a file that is emptied before it is written.
`PROJECT.json` lists these hazards with the line where each one bites.

## 2. Plan

Done, in this order: `TaskRequests` with `AtMostOnce` (the promise users rely
on), `MailStore` with `RequestLog` (where its receipts live), `StatePlugin` with
`VersionedMarkers`, `Artifacts` with `Revisions`, `WorkspaceRegistry`,
`LiveEvents`.

The modules meet at their assumptions. `TaskRequests` uses receipts that are
durable once and unchanged, which `MailStore` shows, and one lock per database,
which `WorkspaceRegistry` shows for stores that move between workspaces.
`StatePlugin` takes tasks, evidence and membership as things that change at any
time, which is all it assumes of the other components. `LiveEvents` takes a
change of any of them as an event. They are not composed into one state
machine: what they share is these facts, and the product would be out of reach.

Every safety property and every refinement that a passing run checks is now also
a theorem (section 9). Worth stating next: the promises
of the abstract modules as theorems of their own (one effect per request in
`AtMostOnce`, consecutive numbers in `RequestLog`), so that a reader gets them
from the refinement; and a sharper `OpportunityWasReal`, which remembers the
revision at which the list was made. Still to model: the rotation of MCP tokens.

## 3. Task requests

### Model and code

| variable | in the code |
|---|---|
| `receipts` | messages of the `task-receipts` channel, `record_task_receipt`, `task_receipts` (`lib.rs`) |
| `issue`, `created` | the Beads issues; which `external_ref`s exist |
| `child` | the `br` process started by `run_process` (`beads.rs`) |
| `registered` | registered participants (the mailbox) |
| `pc`, `call`, `verdict` | where each blocking thread is in `mutate_task` and its closures |
| `reqLock`, `storeLock` | `request_locks`, `store_locks` |
| `spawns`, `applied`, `told` | history, only read by properties |

One call is: `Begin`, `Acquire` (request lock), `Look*` (receipts: conflict,
rejected, or where to go next), then one of three ways.
New request: `RecordIntent`, `EnterStore`, the checks (`Reject`,
`FoundCreated`, `Spawn`, `NotLaunched`), `RunSucceeds` or `RunFails`,
`ReadBack` or `Inspect`, `Record`. Request with a result: `Replay`. Request
with only an intent: `Reconcile` and `RecordProved`, or `Unproved`. Each step
that can fail has a `...Fails` action of its own. `BrCommits` is a step of the
`br` process and needs no living host; `OrphanExits` ends a process whose host
died. `Crash` forgets all threads and locks and nothing durable.

What is abstracted. The semantic request is its operation, task, participant
and, for an update, the status it sets; other fields behave like the status.
Statuses are `open`, `in_progress` and `closed`. There is one workspace with
one store: request and store locks are per workspace and per path, and calls
on different ones do not meet. Receipts are records in a set since `mail_send`
is keyed by request and phase; that a receipt is durable once and unchanged is
what `MailStore` shows. Refusals before the request lock (plugin detached,
workspace archived, malformed arguments) change nothing and are not steps,
except the claim by someone not registered, which is a guard of `Begin`.
`BrAllows` and `BrWrites` state what the bundled `br` tolerates and writes.
An update that names no field is rejected before `br` (`Admissible`); but when
that answer was lost and only the intent is left, `update_matches` compares
nothing and the retry records `observed_after_pending` and succeeds (`Shows`).

`Faults` says what may go wrong in an instance: `receipt` (the mailbox fails,
before or after its commit), `read` (a task cannot be read), `external`
(another program edits the store, the watermark moves, `br` does not start),
`crash`.

### Runs

| run | states | shows |
|---|---|---|
| `task_crash` | 147,820 | Two threads; claims and releases of one task under two ids, both ids reused with other arguments; failing receipts and crashes. `br` starts at most once per id (`OneBrPerRequest`), an id keeps its meaning (`OneMeaningPerRequest`), a success was this request's own effect (`SuccessIsOwn`), a rejection is final (`RejectedMeansUntouched`), and the whole refines `AtMostOnce`. |
| `task_external` | 706,488 | Creates, updates without a field (with the pending ones that a retry finds proved), closes; failing reads, other writers, crashes. The inductive invariant `IInv` holds. Threads are symmetric: they are only compared. |
| `task_handoff` | 111,064 | Competing claims, a release and a close of one task under two ids, with failing receipts. A task changes hands only through its holder (`HolderKeepsTask`), a closed task stays closed unless an update says otherwise (`ClosedStaysClosed`): the store lock spans check and `br`. Every admitted call returns (`CallReturns`). |
| `task_read_fault` | violation | With failing reads, a change that was made is recorded as rejected for ever (finding 1). |
| `task_orphan` | violation | After a crash, a surviving `br` releases a task that someone else has claimed (finding 2). |

Bounds. Two threads are enough for every pairwise race: a request lock is held
by one thread, and a third could only wait for it or use another id. One task
and two or three ids make every pair of operations meet; the finite set of
calls bounds everything, so no counter is capped. Faults are unlimited in
number. `HolderKeepsTask` is checked without crashes because a crash breaks it:
that is the `task_orphan` run.

Fairness. `FairSpec` assumes that a thread that can take a step does
(weak fairness of `Proceed`), which the runtime's blocking pool gives and which
includes `RunFails`: `bounded_output` kills `br` at its deadline of ten
seconds, so waiting for `br` ends. Lock steps are strongly fair: a mutex that
is freed again and again reaches each waiter in the end. Nothing is assumed of
failures, of clients or of `br` itself.

## 4. The mailbox

### Model and code

| variable | in the code (`orchard-mail-core/src/lib.rs`) |
|---|---|
| `repo`, `log` | whether `.git` exists; the commits up to HEAD |
| `work`, `staged` | files of a commit that the working tree and the Git index have ahead of HEAD |
| `marker` | `.git/orchard-mail-transaction.json`, absent, torn or whole |
| `foreign` | an untracked file of another program |
| `pc`, `job`, `txn` | where `open`, `apply_transaction` or `recover_known_transaction` is, for whom, and the commit in question |
| `known` | `MailIndex`: the commits the service has in memory |
| `told` | history: entries answered with success |

A call is `Begin` (the guards of the five mutations in `Accepts`, the
recipients fixed in `Recipients`), `TruncateMarker` and `FillMarker`,
`WriteFile` for each file in the order record, `state.md`, request record,
`StageFiles`, the marker again with the tree (`TruncateMarker`,
`PrepareMarker`), `CommitFiles`, `RemoveMarker`, `Finish`. `MarkerFails`,
`AttemptFails` and `FinishFails` are the three error paths, which differ: the
first does not recover, the second rolls back, the third recovers and rebuilds
the index. Recovery is `RecoverNothing`, `AcceptCommit`, or `StartRollback`,
`RestoreFile`, `ResetIndex`, `EndRollback`, `RolledBack`; then `Settle` returns
to whoever recovered, after the checks of `verify_git_history`
(`CommitsHaveShape`) and `rebuild_index` (`RecordsAgree`). Creating a mailbox
is a transaction of its own; opening one starts with recovery.

What is abstracted. A commit is its call with the message number, the recipients and
the next number in `state.md`; texts, times and ids are left out. A reused id
with other arguments and a refused call change nothing and are not steps.
Not modelled: `mail_resume` and presence (in memory and advisory), commits that
other programs make on the branch (and so `expected_head`), lock files that
libgit2 may leave behind, power loss (the documentation excludes it). The
exclusive file lock is the fact that there is one `pc`.

### Runs

| run | states | shows |
|---|---|---|
| `mail_log` | 974,683 | Two participants, two channels, messages to all, to a channel and to one, leaving, acknowledging, two ids used twice; crashes, failing writes and a foreign file, unlimited in number. Memory equals HEAD whenever calls are served (`MemoryIsHead`); what an interruption leaves is owned (`LeftoversAreOwned`); the mailbox never refuses its own history (`OwnHistoryVerifies`); the inductive invariant `MailInv`; and the whole refines `RequestLog`: each id once, numbers without gaps, recipients that are members, answers only from the log. |
| `mail_torn` | violation | A crash while the marker is written leaves a mailbox that cannot be opened (finding 3). `CHECK_DEADLOCK FALSE`: a crash before the first commit also leaves a repository that is refused for ever, and nothing can happen then. |

Bounds. The service is sequential, so one call is in progress at a time; seven
commits and every order of them are reached, with each kind of interruption
before and after each. The calls are a finite set and an id enters the log
once, so the log needs no cap. No fairness is assumed: there is no liveness
property, since a mailbox may be interrupted again during each recovery.

## 5. State markers and plugins

### Model and code

| variable of `StatePlugin` | in the code (`plugins.rs`) |
|---|---|
| `definitions`, `markers`, `history`, `attached`, `receipts` | the SQLite tables of a workspace |
| `writer` | the call whose transaction is open; all others wait for it |
| `locks` | `request_locks`, held by an advance from its first read to its end |
| `call` | the thread of each call: arguments, the task it saw, the edge it judged |
| `task`, `members`, `evidence` | what other components own and change at any time |
| `answers`, `witnessed` | history, only read by properties |

A write is `state_replay` (an answered request is answered again, a reused id
is refused), for an advance `state_stored_detail`, `marker_task_observation`
and `Judge`, then `OpenTransaction`, `participant`, and `state_define`,
`state_create` or `state_advance` with the receipt and the commit. `CanWrite`
is what the transaction checks again: attachment, receipt and revision. The
task, the evidence and the edge are not checked again. Opening a connection
writes (`plugin_db`), so each one may find the database busy, also the one that
answers an attach or detach after its commit. Receipts are per plugin: an
attach of State and a State write share their request ids.
`parse_definition` is the validation of a definition, on lists of bounded
length. Task writes are only the gate `ensure_plugin_write` and their effect.

### Run

| run | states | shows |
|---|---|---|
| `state_markers` | 833,636 | Two clients (compared only, hence symmetric), a good and an ambiguous definition, one marker, two advances from the same revision, attach and detach, a task that is closed and reopened, opportunities; crashes. A marker is where its history says (`HistoryIsChain`). Each move was justified at some moment of the revision it left, though the task and the evidence are read before the transaction (`AdvanceWasJustified`): the revision is what the transaction compares. While State is detached nothing of it changes (`DetachedStateIsFrozen`). An opportunity is reported in a state that can be left, of a marker that was in the wanted state then or earlier (`OpportunityWasReal`). The whole refines `VersionedMarkers`: one effect per request, and answers that repeat it. |

Bounds. Two clients race on each pair of calls; a third would wait for the
same writer. Five ids, of which one is used by two calls, make replay, conflict
and sharing between plugins happen. Definitions have at most three states and
four edges, of which one duplicates another. No fairness: a busy database may
refuse for ever.

## 6. Artifacts

### Model and code

| variable of `Artifacts` | in the code (`resources.rs`) |
|---|---|
| `log`, `index`, `work` | HEAD's commits, the Git index, the working tree; each has files and receipt files |
| `host` | down, seeding the README, serving |
| `call` | the call that holds `artifact_lock`; its plan is the content in its receipt |
| `answers`, `raced`, `meddled` | history |

Every call looks for its commit (`find_original_receipt`) and answers with it;
otherwise the repository must be clean (`Starts`), or dirty with nothing but
this request's own leftovers (`Resumes`, the three `validate_pending_*`). Then:
the checks of the operation (`Admit`, `Recheck`,
`artifact_content_fingerprints`), `write_artifact_receipt` (a file that is first
empty), `WriteTarget` or `RemoveTarget`, `Stage`, `Commit`, `Reply`. `Start` and
`LookSeed` are the start of the host and the seed. Writes fail between any two
steps, the host dies, a receipt may be torn, and agents edit and stage files of
`Editable` whenever they like.

### Runs

| run | states | shows |
|---|---|---|
| `artifacts` | 1,130,374 | Two uploads under one id, a delete and a commit under another, the seed. A commit holds what its receipt says, also when a retry finished it (`PlanIsCommitted`); a retried delete does not remove a later edit (`DeleteTakesWhatItSaw`); at most one request is half done (`OnePending`), and its retry is let in whatever step it stopped at (`LeftoversCanBeRetried`); the whole refines `Revisions`: each request one revision, which changes its own files only. |
| `artifact_seed` | violation | An interrupted seed that no start repairs (finding 4). |

Bounds. One lock spans a call, so one call runs at a time. Two files, three
contents of which one is a symbolic link; each id is used twice. Failures,
crashes and edits are unlimited in number. Two exclusions are in the
properties, not in the model: files that somebody else changed while the call
ran (`raced`) may be committed as changed, since `add_path` reads the file
again; a torn receipt is refused by every later call, so `LeftoversCanBeRetried`
speaks of receipts that are whole.

## 7. The registry of workspaces

### Model and code

| variable of `WorkspaceRegistry` | in the code (`lib.rs`, `config.rs`) |
|---|---|
| `disk`, `mem` | `config.json`, `inner.config` |
| `made` | task databases that exist |
| `running` | `runtimes` |
| `store_locks` | `store_locks`; the number tells a lock from one that replaced it |
| `call` | the thread of each request, the lock it has found |
| `refused`, `unsaved`, `attached`, `retired`, `early` | history: databases without a lock since their attachment was not saved; listings that a failed save left in memory alone; what clients were told is attached; acknowledged archives; those that came before the runtime |

A mutation is `active_runtime`, then one step under the lock of the
configuration that checks, changes memory and saves, named as in the code
(`repository_attach`, `task_store_detach`, ...), then `InsertLock`,
`PublishRuntime` or `RetireRuntime`. `save` fails before the rename or after it
(the directory's sync); what memory then holds differs per operation, as in the
code: most have changed it in place. An attachment is acknowledged in three ways:
by the request that made it, by the answer of `repository_attach`, which shows the
store the repository refers to, and by a repeated `task_store_attach`, which is
answered `"attached": false` from memory without a save and without a lock. A store
operation copies the
configuration (`CopyConfig`), finds the lock by path (`FindLock`), waits for it
(`Acquire`), works and releases. `Crash` and `Start` forget memory and rebuild it
(`Loaded`, `Locked`). A workspace can be made under the root of another one, as
a client may ask; its store is made once. The list of recent workspaces is left
out.

### Run

| run | states | shows |
|---|---|---|
| `registry` | 1,530,742 | Two symmetric threads, two workspaces, an owned and an external database, one repository that shows the external one or none; failing saves, crashes. No two requests work on one database, also when it was detached and attached elsewhere while one waited (`OneWorkerPerDatabase`): this is the lock `TaskRequests` relies on. One owner per attached database (`OneOwner`); references resolve (`LinksResolve`); attachments that were acknowledged survive failed saves and restarts, but for a listing that only memory has (`AttachmentsSurvive`); an archived workspace stays archived (`RetiredStaysRetired`); listed stores have locks (`StoresAreServed`). |

Bounds. Every pair of operations meets on two threads; one repository and one
external database make two workspaces compete. With one database to be found, a
repository never changes from one database to another: that part of
`WithRepository` is covered by the theorem `LinksAlwaysResolve` only. Four
properties name an exception that the code has. `OneOwner` excludes owned stores,
which `workspace_create` lists without a check; the instance has no request that
attaches one elsewhere, so that this race too is left to the theorem (`DatabaseHasOneOwner`). `StoresAreServed` excludes a store
whose attachment failed to save, which memory lists without a lock until the next
start. `AttachmentsSurvive` excludes a listing that a failed save left in memory,
until some save writes it: a repeated `task_store_attach` tells the client that it
is attached (`lib.rs:765-767`), every task operation on it is refused ("not active",
`lib.rs:1467`) and a crash loses it. `RetiredStaysRetired` excludes a workspace
archived while the call that made it had saved it but not yet published its runtime,
which is then served although `docs/backend.md:40-42` says that archiving removes
the endpoint immediately. Without its exception, TLC refutes each of the last two:
in eleven steps (the save fails, the client attaches again) and in eight. Neither
hazard is caught by a property that holds.
`OneWorkerPerDatabase` speaks of the requests of one host process: a `br` that
outlives a crashed host is outside it (`task_orphan` shows what that does). An archive
whose save fails is modelled, and no property says what it leaves. No fairness is
assumed.

## 8. Live events

### Model and code

| variable of `LiveEvents` | in the code |
|---|---|
| `runtime`, `cancelled` | the entry in `runtimes`, the hub's cancellation |
| `socket` | each browser socket: its phase, its queue, whether it lagged, its session, what its view lacks (`events.rs::serve`) |
| `caller` | a mutating call between its effect, `publish` and `note_mail_change` |
| `waiter`, `slots` | threads in `workspace_alerts`, `ALERT_WAITERS` (`resources.rs`) |
| `watch` | the loop of `reconcile.rs`: what has changed since the fingerprint, what it found |

What a browser lacks is a set of kinds: changes by calls, edits that a
fingerprint shows, and edits that only the minutely resync covers (in the plugin
database, or before the first fingerprint). A full queue drops its oldest event
and marks the socket as lagged; `Shown` gives a lagged socket a resync.

### Run

| run | states | shows |
|---|---|---|
| `events` | 107,159 | One caller, edits of other programs, one socket on a queue of one event, two waits for one slot, logout, archive, shutdown. What a browser lacks is on its way (`NoChangeIsMissed`) and is shown in the end (`EveryChangeIsShown`); no wake-up is lost (`NoLostWakeUp`); the count of waiters is right on every way out (`SlotsAreHeld`); waits end (`WaitsEnd`); logout, archive and shutdown close the sockets they concern (`SocketsEnd`). |

Bounds. The queue of 32 is one, so that lag is common; the limit of waiters is
one for two waits. `Apart` makes sockets and waits take turns: they share
only the hub, so that what one does neither enables nor disables the other.
Fairness (`FairSpec`). A caller, the loop and the tasks of sockets and waits go on
when they can (weak fairness). A branch of `select!` that stays ready is taken
in the end (`Stop`); a minute is over again and again (strong fairness of the
fallback); a deadline that has passed is noticed between two sleeps (strong
fairness of `GiveUp`). `WaitsEnd` excludes one case that the code has:
`wait_for_mail` looks at the count before the deadline, so a change during
every scan keeps a wait going past it.

## 9. Proofs

All theorems hold for every set of threads, requests, tasks, participants,
channels, calls, files, sockets and faults that satisfies the named assumptions
of the modules: ids differ from `None`, calls are well formed, faults are of the
known kinds, the seed is an upload, request ids of artifacts are finitely many,
queues and slots have a limit. Four theorems have a hypothesis of their own,
named next to them; each is needed, as the run it names shows.

The proofs share a layout. Lemmas say what each kind of step changes ("this
step only moves a thread", "this step is a commit"); the step lemma of an
invariant then goes through the kinds, and under each through the conjuncts the
kind can disturb. Where an invariant speaks of a call, a receipt or a marker,
it is an operator of their values, so that the same lemma serves before and
after the step.

`TaskRequests_proofs`. `OneBrPerRequest` is not inductive: a thread about to
start `br` must know that nobody did. `IInv` adds what a thread holds at each
place (`Control`: its call, its request lock) and what it may rely on after
reading the receipts (`Pending`: no receipt before the intent, one after it, no
`br` before `Spawn`), and `OneMeaningPerRequest`, which the reading step needs.
The step that preserves it is split by kind of action: moves that only change a
thread's place, steps that leave, steps that write a receipt, and starting
`br`; threads with the same request id are kept apart by the lock
(lemma `Apart`). Results: `Consistent` (`IInv`), `TypeCorrect`, `AtMostOneBr`,
`OneMeaning`, for any combination of faults, crashes included. On top of it:
- `RejectionsAreFinal` (with `RejectedInv`): a rejected request was not carried
  out and will not be, if tasks can be read (`NoReadFaults`; finding 1 shows
  why).
- `SuccessesAreOwn`: `CommitInv` counts the commits of a request against its
  `br`, and `OwnInv` says what a thread knows of that count in each phase. Only
  for `NoOtherWriter`: `create_task` finds a task by its `external_ref`, whoever
  wrote it.
- `HoldersKeepTheirTask` and `ClosedTasksStayClosed`: a thread between check and
  `inspect` holds the store lock (`Holding`), and a `br` that has not committed
  is waited for and would still pass its check (`Attended`). Only if nobody else
  writes and the host stays up (`Undisturbed`; finding 2 shows why).
- `RequestsAreAtMostOnce`: the refinement of `AtMostOnce`. A request is bound by
  its first receipt, effective by the commit of its `br`, answered by its result
  receipt; `AnswerInv` says that a thread about to write a result finds none.
  With `NoReadFaults` and `NoOtherWriter`, crashes and lost receipts included.

`MailStore_proofs`. `MailInv` is types, `Memory` (where memory may lag behind
HEAD: only between a commit and the end of its call, or while a failed end is
repaired) and `Leftovers` (a whole marker announces the commit that is HEAD, or
one not yet made that owns every changed file; the working tree is clean
wherever the code assumes it). Each of three lemmas goes through the actions
one by one. Results: `MailConsistent` (`MailInv`), `MailTypeCorrect`,
`MemoryAgrees`, `LeftoversOwned`. `Histories` adds that a commit under way was
accepted on top of HEAD (`Admitted`) and that the numbers taken are those below
the next one (`Numbered`); then what `Accepts` lets in is what
`verify_git_history` and `rebuild_index` ask for, one commit at a time
(`VerifiesMore`), which gives `HistoriesVerify`. `MailboxIsRequestLog` is the
refinement: `CommitFiles` is `Commit` of the abstract log, `Finish` and
`AnswerRetry` are its `Answer`, every other step is a stutter. All for any calls
and any faults.

`WorkspaceRegistry_proofs`. Two facts are inductive with different companions.
For the file: every step leaves configuration and file alone, or derives a new
configuration by one of six operations and saves it, and a save leaves in
memory and on disk only the old or the new one (`ConfigStep`, `Derived`,
`Saves`). What one operation does to one workspace's entry is then a matter of
records and sets: `LinksResolve` is preserved by each operation, and `OneOwner`
by each given `LinksResolve`, since a store that is released keeps its
database's only entry. For the locks: `MutexInv` says that a thread that works
on a database holds the guard it found in the table, that a lock has one
holder (`OneGuard`), and that the entry of a path that is in use has not been
replaced. Results: `RegistryType`, `LinksAlwaysResolve`, `DatabaseHasOneOwner`,
`DatabaseHasOneWorker`, for any threads, workspaces, databases, repositories
and calls, with failing saves and crashes.

`WorkspaceHistory_proofs` goes on from there with what clients were told. An
operation is classified by what it takes from and adds to which workspace
(`Alters`), and the id of a workspace that is being made is nobody else's
(`NewIds`). `AttachmentsAreKept`: an acknowledged attachment that is not among the
`unsaved` ones is in the file, and in memory while the host runs, so that later
saves write it again; and what memory lists and the file does not is `unsaved`, which
a repeated attachment relies on (`Kept`).
`ArchivedIsNotServed`: from the save of an archive on, memory and file agree on
it, and a thread that publishes an archived workspace is the exception the
property names (`Sealed`, `Doomed`). `ListedStoresAreServed`: a listed store has
its lock or a thread that brings it, for workspaces that are served or about to
be (`Supplied`).

`StatePlugin_proofs`. `TypeInv` is types, unambiguous definitions of one name,
and what a call has in hand per phase. `HistoriesAreChains`: each entry starts
where the one before ended (`Chain`). `MovesWereJustified`: what an advance has
read holds of the revision it expects, for as long as the marker is at it (`Seen`);
since the transaction compares the revision, the entry it writes was justified
(`Justifications`). `DetachedIsFrozen`: a transaction sees the attachment it
commits under. `OpportunitiesWereReal`. `MarkersAreVersioned`: the refinement of
`VersionedMarkers`, with `Turns`: the call whose transaction is open has no
receipt, and one that replies has one.

`Artifacts_proofs`. `Base` is types, the lineage of receipts (a commit brings
the receipt of its request, which no earlier commit had), what is uncommitted of
receipts (at most one, `Pended`), and the receipt of the running call phase by
phase (`Announced`). It gives `ArtifactTypeCorrect` and `OneRequestPends`.
`FilesInv` adds what the index of the call, a pending delete and the untouched files
of a call hold, and gives `CommitsHoldTheirPlan` and `DeletesTakeWhatTheySaw`.
`LeftInv` describes what an interrupted request leaves of each file, per
operation, and gives `InterruptionsCanBeRetried`. `ArtifactsAreRevisions` is the
refinement of `Revisions`.

`LiveEvents_proofs`. `LiveTypeCorrect` and `SlotsAreThoseHeld` with the count
of waiting calls. `WakeUpsAreKept`: a call about to sleep that has not seen its
mail has a caller that has yet to publish or a loop that has yet to look
(`WakeUpComes`). `NoChangeIsLost`: the same for each socket's view, through
queues that drop their oldest event (`Shows`).

Corrections the proofs led to. `write_artifact_receipt` and `transition_readiness`
had overlapping CASE guards, of which TLC takes the first and TLA+ any: they are
now disjoint. `DeleteTakesWhatItSaw` also says that a delete touches its own
files only, and tells the removal from an edit of an agent by whose step it is.
`RequestLog` enters calls, numbered by the numbers already taken, instead of
members of a precomputed set of entries, whose size bounded the numbers.
`Artifacts` and `StatePlugin` name the assumptions on their constants that they
used silently.

Only model-checked. `CallReturns`, `EveryChangeIsShown`, `WaitsEnd` and
`SocketsEnd`: liveness under fairness is out of the prover's reach. The four
expected violations are TLC's by nature. No module uses RECURSIVE operators.
`TypeOK` of `TaskRequests` and `MailTypeOK` are checked by TLC within `IInv` and
`MailInv`, of which they are a part. The strengthenings that no run lists
(`CommitInv`, `OwnInv`, `Histories`, `FilesInv`, ...) are lemmas: they are proved,
and their theorems do not depend on a run.

## 10. Findings

1. `task_read_fault`: when `br` has committed and its task cannot be read
   afterwards, the request is recorded as rejected, and every retry gets that
   answer. The documentation promises an unknown receipt.
2. `task_orphan`: the assignee is compared before `br update` runs and the
   command itself is unconditional; a `br` that outlives a crashed host releases
   the task of a later holder.
3. `mail_torn`: the transaction marker is emptied and rewritten in place, twice
   per request. A process that dies in between, or a failed first write followed by
   a restart, leaves a mailbox that refuses to open, although its history
   is intact.
4. `artifact_seed`: a start that dies between staging and committing the README
   leaves staged files that no later start commits or removes. Every upload,
   delete and commit is refused from then on, except an upload of that very file
   under the id that the seed uses. The documentation promises a repair.

Details, with the lines quoted, are in `PROJECT.json`.

## 11. Not modelled

- MCP credentials and routers. Two rotations of one token write the file, the
  runtime and the router one after the other without a common lock, and share
  one temporary file; `PROJECT.json` lists both hazards. Planned next.
- Beads store synchronisation: the watermark, the import and the flush happen
  inside the bundled `br`; `TaskRequests` has their outcomes.
- Resource links, the agent command line, the update check, the desktop shell,
  the user interface and the mail front ends keep no state that others rely on:
  conversions, one-shot requests and rendering.
- Login, origin and host checks; the port and the three seconds of drain.
- Commits that other programs make in the mailbox or the artifact repository.

## 12. Running

    tlc -workers 2 -config MCTaskCrash.cfg MCTaskRequests.tla
    tlc -workers 2 -config MCMailLog.cfg MCMailStore.tla
    tlapm TaskRequests_proofs.tla
    tlapm MailStore_proofs.tla
    tlapm WorkspaceRegistry_proofs.tla      (and the other *_proofs modules)

Each operator whose name starts with `Mut` is a plausible mistake in the
definition that follows it. `PROJECT.json` pairs it with the property that
fails when it takes that definition's place; no specification uses it.
