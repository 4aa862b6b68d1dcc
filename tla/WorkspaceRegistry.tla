-------------------------- MODULE WorkspaceRegistry --------------------------
(***************************************************************************)
(* The registry of workspaces: config.json and its copy in memory, the     *)
(* runtimes of the workspaces that are served, and the lock of each task   *)
(* database.  Requests run on threads of their own.  Each takes the lock   *)
(* of the configuration for one step, in which it checks, changes and      *)
(* saves; the runtime and the lock of a store follow in later steps.  A    *)
(* save fails, before or after the file is replaced, and the host dies     *)
(* between any two steps.                                                  *)
(***************************************************************************)
EXTENDS Naturals, FiniteSets

CONSTANTS
    Threads,
    Workspaces,     \* the ids that new workspaces get
    Databases,      \* canonical paths of task databases
    External,       \* the databases that exist before the host does
    Owned,          \* the database that a workspace gets under its root
    Repositories,   \* canonical paths of Git repositories
    Found,          \* the databases that are seen in a repository (None: none)
    Calls,          \* the requests clients make
    Faults,         \* what may go wrong: "save", "sync", "create", "crash"
    None            \* absence of a value

Mutations ==
    {"repository_attach", "repository_detach", "task_store_attach", "task_store_detach"}
Operations ==
    Mutations \cup {"workspace_create", "workspace_archive", "workspace_visit", "with_store"}

ASSUME OwnedAssumption == Owned \in [Workspaces -> Databases]
ASSUME FoundAssumption == Found \in [Repositories -> SUBSET (Databases \cup {None})]
ASSUME NoneAssumption ==
    None \notin Databases /\ None \notin Repositories /\ None \notin Workspaces
ASSUME CallsAssumption ==
    Calls \subseteq [op: Operations, ws: Workspaces, db: Databases, repo: Repositories]
ASSUME ExternalAssumption == External \subseteq Databases

VARIABLES
    disk,           \* config.json: the workspaces it lists
    mem,            \* the same in memory
    made,           \* the databases that exist
    up,             \* the host runs
    running,        \* the workspaces that have a runtime
    store_locks,    \* the lock of a database, by number; 0 while it has none
    call,           \* what each thread does
    refused,        \* history: databases without a lock since their attachment was not saved
    unsaved,        \* history: listings that a failed save left in memory alone
    attached,       \* history: attachments clients were told of, and not detached since
    retired,        \* history: workspaces whose archiving was acknowledged
    early           \* history: workspaces archived before the call that made them returned

files == <<disk, mem>>
tables == <<running, store_locks>>
answers == <<refused, attached, retired, early>>
history == <<answers, unsaved>>
vars == <<disk, mem, made, up, running, store_locks, call, history>>

Phases ==
    {"idle", "runtime", "prepare", "config", "publish", "retire", "lock",
     "copy", "find", "acquire", "work"}

Store == [db: Databases, source: {"owned", "external", "repository"},
          repo: Repositories \cup {None}]

\* repos: the database each attached repository refers to.
WorkspaceConfig ==
    [archived: BOOLEAN, stores: SUBSET Store,
     repos: UNION {[R -> Databases \cup {None}] : R \in SUBSET Repositories}]

IsAppConfig(config) ==
    /\ DOMAIN config \subseteq Workspaces
    /\ config \in [DOMAIN config -> WorkspaceConfig]

\* guard: the number of the lock that a thread waits for or holds.
Call ==
    [phase: Phases, args: Calls \cup {None}, db: Databases \cup {None}, guard: Nat]

Idle == [phase |-> "idle", args |-> None, db |-> None, guard |-> 0]

RegistryTypeOK ==
    /\ IsAppConfig(disk)
    /\ IsAppConfig(mem)
    /\ made \subseteq Databases
    /\ up \in BOOLEAN
    /\ running \subseteq DOMAIN mem
    /\ store_locks \in [Databases -> 0..1]
    /\ call \in [Threads -> Call]
    /\ refused \subseteq Databases
    /\ unsaved \subseteq Workspaces \X Databases
    /\ attached \subseteq Workspaces \X Databases
    /\ retired \subseteq Workspaces
    /\ early \subseteq Workspaces

Init ==
    /\ disk = <<>>
    /\ mem = <<>>
    /\ made = External
    /\ up = FALSE
    /\ running = {}
    /\ store_locks = [db \in Databases |-> 0]
    /\ call = [t \in Threads |-> Idle]
    /\ refused = {}
    /\ unsaved = {}
    /\ attached = {}
    /\ retired = {}
    /\ early = {}

-----------------------------------------------------------------------------
(* The contents of the configuration.                                      *)

StoreOf(config, db) == {s \in config.stores : s.db = db}
Has(config, db) == StoreOf(config, db) # {}

\* Which workspace lists which database.
Listed(config) ==
    {e \in Workspaces \X Databases : e[1] \in DOMAIN config /\ Has(config[e[1]], e[2])}

\* MUTANT of Holders: archived workspaces give up their databases.
MutActiveHolders(db) == {w \in DOMAIN mem : ~mem[w].archived /\ Has(mem[w], db)}

\* The workspaces that list a database.
Holders(db) == {w \in DOMAIN mem : Has(mem[w], db)}

\* active_workspace_mut
Active(w) == w \in DOMAIN mem /\ ~mem[w].archived

\* Stores that their repository no longer names become external ones.
Released(stores, r, dbs) ==
    {IF s.repo = r /\ s.db \in dbs
       THEN [s EXCEPT !.source = "external", !.repo = None] ELSE s : s \in stores}

\* Attaching r, in which db was found.  A repository without a database keeps
\* the reference it had; a database that no repository refers to any longer
\* becomes an external one.
WithRepository(config, r, db) ==
    LET old == IF r \in DOMAIN config.repos THEN config.repos[r] ELSE None
        new == IF db = None THEN old ELSE db
        shared == \E q \in DOMAIN config.repos \ {r} : config.repos[q] = old
        added == IF db # None /\ ~Has(config, db)
                   THEN {[db |-> db, source |-> "repository", repo |-> r]} ELSE {}
        dropped == IF old # None /\ old # new /\ ~shared THEN {old} ELSE {}
    IN [config EXCEPT !.stores = Released(config.stores, r, dropped) \cup added,
                      !.repos = [q \in DOMAIN config.repos \cup {r} |->
                                    IF q = r THEN new ELSE config.repos[q]]]

WithoutRepository(config, r) ==
    [config EXCEPT
        !.stores = Released(config.stores, r, Databases),
        !.repos = [q \in DOMAIN config.repos \ {r} |-> config.repos[q]]]

WithStore(config, db) ==
    [config EXCEPT
        !.stores = config.stores \cup {[db |-> db, source |-> "external", repo |-> None]}]

\* MUTANT of WithoutStore: repositories go on referring to the store.
MutDanglingReference(config, db) ==
    [config EXCEPT !.stores = {s \in config.stores : s.db # db}]

WithoutStore(config, db) ==
    [config EXCEPT
        !.stores = {s \in config.stores : s.db # db},
        !.repos = [q \in DOMAIN config.repos |->
                      IF config.repos[q] = db THEN None ELSE config.repos[q]]]

NewWorkspace(w, owned) ==
    [archived |-> FALSE, repos |-> <<>>,
     stores |-> IF owned THEN {[db |-> Owned[w], source |-> "owned", repo |-> None]}
                ELSE {}]

With(config, w, entry) ==
    [v \in DOMAIN config \cup {w} |-> IF v = w THEN entry ELSE config[v]]

-----------------------------------------------------------------------------
(* Threads and the file.                                                   *)

At(t, phase, op) == up /\ call[t].phase = phase /\ call[t].args.op = op
Goto(t, phase) == call' = [call EXCEPT ![t].phase = phase]
Lock(t, db) == call' = [call EXCEPT ![t].phase = "lock", ![t].db = db]
Return(t) == call' = [call EXCEPT ![t] = Idle]
Fail(t) == Return(t) /\ UNCHANGED <<files, made, up, tables, history>>

\* MUTANT of save: an error of the file is not reported.
MutSave(next, kept, ok) ==
    /\ ok
    /\ mem' = next
    /\ disk' \in {next} \cup {disk : f \in {"save"} \cap Faults}
    /\ unsaved' = unsaved \ Listed(next)

\* config::save replaces the file by a rename.  An error comes before the
\* rename, or from the directory's sync after it; kept is what memory then holds.
save(next, kept, ok) ==
    /\ \/ ok /\ disk' = next /\ mem' = next
       \/ "save" \in Faults /\ ~ok /\ UNCHANGED disk /\ mem' = kept
       \/ "sync" \in Faults /\ ~ok /\ disk' = next /\ mem' = kept
    /\ unsaved' = IF ok THEN unsaved \ Listed(next)
                        ELSE unsaved \cup (Listed(kept) \ Listed(mem))

\* A new workspace has an id that nothing else has.
Fresh(w) ==
    /\ w \notin DOMAIN mem \cup DOMAIN disk
    /\ \A t \in Threads :
        call[t].phase # "idle" => ~(call[t].args.op = "workspace_create" /\ call[t].args.ws = w)

FirstPhase(op) ==
    CASE op = "workspace_create" -> "prepare"
      [] op \in {"workspace_archive", "workspace_visit"} -> "config"
      [] OTHER -> "runtime"

Begin(t) ==
    /\ up
    /\ call[t].phase = "idle"
    /\ \E c \in Calls :
        /\ c.op = "workspace_create" => Fresh(c.ws)
        /\ call' = [call EXCEPT ![t] = [Idle EXCEPT !.phase = FirstPhase(c.op), !.args = c]]
    /\ UNCHANGED <<files, made, up, tables, history>>

active_runtime(t) ==
    /\ up
    /\ call[t].phase = "runtime"
    /\ \/ /\ call[t].args.ws \notin running
          /\ Return(t)
       \/ /\ call[t].args.ws \in running
          /\ Goto(t, IF call[t].args.op = "with_store" THEN "copy" ELSE "config")
    /\ UNCHANGED <<files, made, up, tables, history>>

-----------------------------------------------------------------------------
(* Workspaces.                                                             *)

\* Mail, token, actors and README, and the owned store where br is there.  What
\* was made before an error stays.
PrepareWorkspace(t) ==
    LET db == Owned[call[t].args.ws] IN
    /\ At(t, "prepare", "workspace_create")
    /\ \/ Goto(t, "config") /\ UNCHANGED made
       \/ db \notin made /\ made' = made \cup {db}
          /\ call' = [call EXCEPT ![t].phase = "config", ![t].db = db]
       \/ db \in made /\ Return(t) /\ UNCHANGED made
       \/ "create" \in Faults /\ Return(t) /\ made' \in {made, made \cup {db}}
    /\ UNCHANGED <<files, up, tables, history>>

workspace_create(t) ==
    LET w == call[t].args.ws
        next == With(mem, w, NewWorkspace(w, call[t].db # None))
    IN
    /\ At(t, "config", "workspace_create")
    /\ \E ok \in BOOLEAN :
        /\ save(next, next, ok)
        /\ IF ok THEN Goto(t, "publish") ELSE Return(t)
    /\ UNCHANGED <<made, up, tables, answers>>

PublishRuntime(t) ==
    /\ At(t, "publish", "workspace_create")
    /\ running' = running \cup {call[t].args.ws}
    /\ IF call[t].db = None THEN Return(t) ELSE Lock(t, call[t].db)
    /\ UNCHANGED <<files, made, up, store_locks, history>>

BeingMade(w) ==
    \E t \in Threads :
        /\ call[t].phase # "idle"
        /\ call[t].args.op = "workspace_create" /\ call[t].args.ws = w

workspace_archive(t) ==
    LET w == call[t].args.ws IN
    /\ At(t, "config", "workspace_archive")
    /\ \/ w \notin DOMAIN mem /\ Fail(t)
       \/ /\ w \in DOMAIN mem
          /\ LET next == [mem EXCEPT ![w].archived = TRUE] IN
             \E ok \in BOOLEAN :
                /\ save(next, next, ok)
                /\ IF ok THEN Goto(t, "retire") ELSE Return(t)
          /\ early' = IF BeingMade(w) THEN early \cup {w} ELSE early
          /\ UNCHANGED <<made, up, tables, refused, attached, retired>>

RetireRuntime(t) ==
    LET w == call[t].args.ws IN
    /\ At(t, "retire", "workspace_archive")
    /\ running' = running \ {w}
    /\ retired' = retired \cup {w}
    /\ Return(t)
    /\ UNCHANGED <<files, made, up, store_locks, refused, unsaved, attached, early>>

\* A visit moves the workspace to the front of the recent ones, which are left
\* out: the file is written as memory has it.
workspace_visit(t) ==
    /\ At(t, "config", "workspace_visit")
    /\ \/ Fail(t)
       \/ /\ Active(call[t].args.ws)
          /\ \E ok \in BOOLEAN : save(mem, mem, ok)
          /\ Return(t)
          /\ UNCHANGED <<made, up, tables, answers>>

-----------------------------------------------------------------------------
(* Repositories and task stores.                                           *)

\* The first workspace that lists the database owns it; any of them may be first.
OwnedElsewhere(db, w) == \E owner \in Holders(db) : owner # w
FreeFor(db, w) == Holders(db) = {} \/ w \in Holders(db)

\* A copy is changed and saved before memory takes it over.  The answer shows the store
\* that the repository refers to, whether it was attached before or not.
repository_attach(t) ==
    LET w == call[t].args.ws
        r == call[t].args.repo
    IN
    /\ At(t, "config", "repository_attach")
    /\ \E db \in Found[r] \cap (made \cup {None}) :
        \/ (~Active(w) \/ OwnedElsewhere(db, w)) /\ Fail(t)
        \/ /\ Active(w) /\ FreeFor(db, w)
           /\ LET entry == WithRepository(mem[w], r, db)
                  shown == {s.db : s \in StoreOf(entry, entry.repos[r])}
              IN \E ok \in BOOLEAN :
                /\ save(With(mem, w, entry), mem, ok)
                /\ IF ok /\ entry.repos[r] # None THEN Lock(t, entry.repos[r]) ELSE Return(t)
                /\ attached' = IF ok THEN attached \cup ({w} \X shown) ELSE attached
           /\ UNCHANGED <<made, up, tables, refused, retired, early>>

repository_detach(t) ==
    LET w == call[t].args.ws
        r == call[t].args.repo
    IN
    /\ At(t, "config", "repository_detach")
    /\ \/ ~(Active(w) /\ r \in DOMAIN mem[w].repos) /\ Fail(t)
       \/ /\ Active(w) /\ r \in DOMAIN mem[w].repos
          /\ LET next == With(mem, w, WithoutRepository(mem[w], r)) IN
             \E ok \in BOOLEAN : save(next, next, ok)
          /\ Return(t)
          /\ UNCHANGED <<made, up, tables, answers>>

\* Memory takes the store over before the file does, and keeps it when the save fails.
\* A workspace that lists the store is told so ("attached": false), archived or not.
task_store_attach(t) ==
    LET w == call[t].args.ws
        db == call[t].args.db
    IN
    /\ At(t, "config", "task_store_attach")
    /\ \/ /\ db \notin made \/ OwnedElsewhere(db, w) \/ (Holders(db) = {} /\ ~Active(w))
          /\ Fail(t)
       \/ /\ db \in made /\ w \in Holders(db)
          /\ attached' = attached \cup {<<w, db>>}
          /\ Return(t)
          /\ UNCHANGED <<files, made, up, tables, refused, unsaved, retired, early>>
       \/ /\ db \in made /\ Active(w) /\ Holders(db) = {}
          /\ LET next == With(mem, w, WithStore(mem[w], db)) IN
             \E ok \in BOOLEAN :
                /\ save(next, next, ok)
                /\ IF ok THEN Lock(t, db) ELSE Return(t)
                /\ attached' = IF ok THEN attached \cup {<<w, db>>} ELSE attached
                /\ refused' = IF ok \/ store_locks[db] # 0 THEN refused ELSE refused \cup {db}
          /\ UNCHANGED <<made, up, tables, retired, early>>

task_store_detach(t) ==
    LET w == call[t].args.ws
        db == call[t].args.db
        Detachable == Active(w) /\ \E s \in StoreOf(mem[w], db) : s.source # "owned"
    IN
    /\ At(t, "config", "task_store_detach")
    /\ \/ ~Detachable /\ Fail(t)
       \/ /\ Detachable
          /\ LET next == With(mem, w, WithoutStore(mem[w], db)) IN
             \E ok \in BOOLEAN : save(next, next, ok)
          /\ attached' = attached \ {<<w, db>>}
          /\ Return(t)
          /\ UNCHANGED <<made, up, tables, refused, retired, early>>

\* MUTANT of NewLock: an attachment replaces the lock of the database.
MutReplaceLock(db) == store_locks[db] + 1

\* entry().or_insert_with(): a lock is made once and never removed.
NewLock(db) == IF store_locks[db] = 0 THEN 1 ELSE store_locks[db]

InsertLock(t) ==
    LET db == call[t].db IN
    /\ up
    /\ call[t].phase = "lock"
    /\ store_locks' = [store_locks EXCEPT ![db] = NewLock(db)]
    /\ refused' = refused \ {db}
    /\ Return(t)
    /\ UNCHANGED <<files, made, up, running, unsaved, attached, retired, early>>

-----------------------------------------------------------------------------
(* with_store_raw: an operation of br on an attached store.                *)

CopyConfig(t) ==
    LET w == call[t].args.ws
        db == call[t].args.db
    IN
    /\ At(t, "copy", "with_store")
    /\ IF w \in DOMAIN mem /\ Has(mem[w], db)
         THEN call' = [call EXCEPT ![t].phase = "find", ![t].db = db]
         ELSE Return(t)
    /\ UNCHANGED <<files, made, up, tables, history>>

FindLock(t) ==
    LET lock == store_locks[call[t].db] IN
    /\ At(t, "find", "with_store")
    /\ IF lock = 0 THEN Return(t)
                   ELSE call' = [call EXCEPT ![t].phase = "acquire", ![t].guard = lock]
    /\ UNCHANGED <<files, made, up, tables, history>>

Working(t) == call[t].phase = "work"
Acquire(t) ==
    /\ At(t, "acquire", "with_store")
    /\ ~\E u \in Threads :
        Working(u) /\ call[u].db = call[t].db /\ call[u].guard = call[t].guard
    /\ Goto(t, "work")
    /\ UNCHANGED <<files, made, up, tables, history>>

Release(t) ==
    /\ At(t, "work", "with_store")
    /\ Return(t)
    /\ UNCHANGED <<files, made, up, tables, history>>

-----------------------------------------------------------------------------
(* Start and crash of the host.                                            *)

\* MUTANT of Loaded: a start serves archived workspaces too.
MutLoadAll(config) == DOMAIN config

\* open_with_port: the workspaces that get a runtime.
Loaded(config) == {w \in DOMAIN config : ~config[w].archived}

\* MUTANT of Locked: a start makes locks for owned stores only.
MutLockOwned(config) ==
    {s.db : s \in {v \in UNION {config[w].stores : w \in Loaded(config)} : v.source = "owned"}}

Locked(config) == {s.db : s \in UNION {config[w].stores : w \in Loaded(config)}}

Start ==
    /\ ~up
    /\ up' = TRUE
    /\ mem' = disk
    /\ running' = Loaded(disk)
    /\ store_locks' = [db \in Databases |-> IF db \in Locked(disk) THEN 1 ELSE 0]
    /\ UNCHANGED <<disk, made, call, history>>

\* The history of failed attachments ends with the memory that kept them; of listings
\* that were left in memory, those that clients were told of count on.
Crash ==
    /\ "crash" \in Faults
    /\ up
    /\ up' = FALSE
    /\ mem' = <<>>
    /\ running' = {}
    /\ store_locks' = [db \in Databases |-> 0]
    /\ call' = [t \in Threads |-> Idle]
    /\ refused' = {}
    /\ unsaved' = unsaved \cap attached
    /\ UNCHANGED <<disk, made, attached, retired, early>>

Proceed(t) ==
    \/ active_runtime(t)
    \/ PrepareWorkspace(t) \/ workspace_create(t) \/ PublishRuntime(t)
    \/ workspace_archive(t) \/ RetireRuntime(t) \/ workspace_visit(t)
    \/ repository_attach(t) \/ repository_detach(t)
    \/ task_store_attach(t) \/ task_store_detach(t) \/ InsertLock(t)
    \/ CopyConfig(t) \/ FindLock(t) \/ Acquire(t) \/ Release(t)

Next == Start \/ Crash \/ \E t \in Threads : Begin(t) \/ Proceed(t)

Spec == Init /\ [][Next]_vars

-----------------------------------------------------------------------------
(* Properties                                                              *)

(* Two requests never run br on one database at the same time, whatever    *)
(* workspaces list it and however often it was detached and attached while *)
(* a request waited: with_store_raw locks by the path of the database, and *)
(* the lock of a path is never replaced (entry().or_insert_with()).  These *)
(* are requests of one host process: a br that outlives a crashed host is  *)
(* not among them (see ReleaseOnlyByAssignee in TaskRequests).             *)
OneWorkerPerDatabase ==
    \A t, u \in Threads : Working(t) /\ Working(u) /\ call[t].db = call[u].db => t = u

(* A database that clients attached is listed by no other workspace that   *)
(* attached it, archived workspaces included, in memory and in config.json *)
(* ("a canonical database has one Orchard lock owner", task_store_attach   *)
(* and repository_attach).  An owned store is written without that check.  *)
OneOwnerIn(config) ==
    \A v, w \in DOMAIN config : \A s \in config[v].stores, z \in config[w].stores :
        s.db = z.db /\ s.source # "owned" /\ z.source # "owned" => v = w /\ s = z
OneOwner == OneOwnerIn(mem) /\ OneOwnerIn(disk)

(* Repositories and stores of a workspace refer to each other: the store a *)
(* repository names is attached, and a store that came with a repository   *)
(* is one of an attached repository, through attaching again with another  *)
(* database and through both detachments.                                  *)
LinksResolveIn(config) ==
    \A w \in DOMAIN config :
        /\ \A r \in DOMAIN config[w].repos :
            config[w].repos[r] # None => Has(config[w], config[w].repos[r])
        /\ \A s \in config[w].stores :
            /\ s.source = "repository" <=> s.repo # None
            /\ s.repo # None => s.repo \in DOMAIN config[w].repos
LinksResolve == LinksResolveIn(mem) /\ LinksResolveIn(disk)

(* A store of a served workspace has a lock, or gets it in the next step   *)
(* of the request that attached it.  The exception is an attachment that   *)
(* could not be saved: memory lists it, with_store finds no lock, and      *)
(* attaching it again says that it is attached (task_store_attach).        *)
StoresAreServed ==
    \A w \in running : \A s \in mem[w].stores :
        \/ store_locks[s.db] # 0
        \/ s.db \in refused
        \/ \E t \in Threads : call[t].phase = "lock" /\ call[t].db = s.db

(* A workspace whose archiving was acknowledged is not served again, also  *)
(* after a restart, unless it was archived while the call that made it was *)
(* between its configuration and its runtime (workspace_create).           *)
RetiredStaysRetired == retired \cap running \subseteq early

(* A store that a client was told is attached, by the request that         *)
(* attached it, by a repeated one ("attached": false) or by that of a      *)
(* repository, is in config.json until a client detaches it: later saves,  *)
(* of which some fail, never lose it, and a restart finds it.  The         *)
(* exception is a listing that a failed save left in memory, until some    *)
(* save writes it: a repeated task_store_attach answers from memory alone, *)
(* and a crash then loses what the client was told.                        *)
AttachmentsSurvive == attached \ unsaved \subseteq Listed(disk)

=============================================================================
