----------------------- MODULE WorkspaceRegistry_proofs -----------------------
(***************************************************************************)
(* Proofs about WorkspaceRegistry, for every set of threads, workspaces,   *)
(* repositories, databases and requests and every combination of faults.   *)
(* Whatever a step does, the configuration in memory and in the file is    *)
(* the old one, the other one, none, or one that a single request derives  *)
(* from memory (ConfigStep); what is to hold of every configuration is     *)
(* then a matter of the operators that derive one.                         *)
(***************************************************************************)
EXTENDS WorkspaceRegistry, TLAPS

\* What one request makes of the configuration in memory.
Derived(next) ==
    \/ next = mem
    \/ \E w \in Workspaces, owned \in BOOLEAN :
        next = With(mem, w, NewWorkspace(w, owned))
    \/ \E w \in DOMAIN mem :
        \/ next = [mem EXCEPT ![w].archived = TRUE]
        \/ \E r \in Repositories, db \in Databases \cup {None} :
            /\ FreeFor(db, w)
            /\ next = With(mem, w, WithRepository(mem[w], r, db))
        \/ \E r \in Repositories : next = With(mem, w, WithoutRepository(mem[w], r))
        \/ \E db \in Databases :
            Holders(db) = {} /\ next = With(mem, w, WithStore(mem[w], db))
        \/ \E db \in Databases : next = With(mem, w, WithoutStore(mem[w], db))

Saves(next) == mem' \in {mem, next} /\ disk' \in {disk, next}

LEMMA SaveFact ==
    ASSUME NEW next, NEW kept \in {mem, next}, NEW ok, save(next, kept, ok)
    PROVE  Saves(next)
  BY DEF save, Saves

LEMMA UnsavedType ==
    ASSUME NEW next, NEW kept, NEW ok, save(next, kept, ok),
           unsaved \subseteq Workspaces \X Databases
    PROVE  unsaved' \subseteq Workspaces \X Databases
  BY DEF save, Listed

\* Threads that are busy have a request, and there are none while the host is down;
\* a workspace whose runtime is about to be published is in memory, and who looks for
\* the lock of a database knows it.
Engaged ==
    /\ ~up => \A t \in Threads : call[t].phase = "idle"
    /\ \A t \in Threads : call[t].phase # "idle" => call[t].args \in Calls
    /\ \A t \in Threads : call[t].phase = "publish" => call[t].args.ws \in DOMAIN mem
    /\ \A t \in Threads : call[t].phase = "find" => call[t].db \in Databases

TypeInv == RegistryTypeOK /\ Engaged

LEMMA CallFact ==
    ASSUME NEW c \in Calls
    PROVE  /\ c.op \in Operations /\ c.ws \in Workspaces
           /\ c.db \in Databases /\ c.repo \in Repositories
  BY CallsAssumption

-----------------------------------------------------------------------------
(* Types of the operators.                                                 *)

LEMMA ConfigType ==
    ASSUME NEW config \in WorkspaceConfig
    PROVE  /\ config.archived \in BOOLEAN
           /\ config.stores \in SUBSET Store
           /\ DOMAIN config.repos \in SUBSET Repositories
           /\ config.repos \in [DOMAIN config.repos -> Databases \cup {None}]
  BY DEF WorkspaceConfig

Links == UNION {[R -> Databases \cup {None}] : R \in SUBSET Repositories}

LEMMA RecordReplaced ==
    ASSUME NEW X, NEW Y, NEW Z, NEW config \in [archived: X, stores: Y, repos: Z],
           NEW stores \in Y, NEW repos \in Z
    PROVE  [config EXCEPT !.stores = stores, !.repos = repos]
             \in [archived: X, stores: Y, repos: Z]
  OBVIOUS

Replace(config, stores, repos) == [config EXCEPT !.stores = stores, !.repos = repos]

LEMMA Replaced ==
    ASSUME NEW config \in WorkspaceConfig, NEW stores \in SUBSET Store, NEW repos \in Links
    PROVE  Replace(config, stores, repos) \in WorkspaceConfig
<1>1. WorkspaceConfig = [archived: BOOLEAN, stores: SUBSET Store, repos: Links]
  BY DEF WorkspaceConfig, Links
<1>. QED
  BY <1>1, RecordReplaced DEF Replace

LEMMA ReleasedType ==
    ASSUME NEW stores \in SUBSET Store, NEW r, NEW dbs
    PROVE  Released(stores, r, dbs) \in SUBSET Store
  BY DEF Released, Store

LEMMA WithRepositoryType ==
    ASSUME NEW config \in WorkspaceConfig, NEW r \in Repositories,
           NEW db \in Databases \cup {None}
    PROVE  WithRepository(config, r, db) \in WorkspaceConfig
<1>. DEFINE old == IF r \in DOMAIN config.repos THEN config.repos[r] ELSE None
            new == IF db = None THEN old ELSE db
            shared == \E q \in DOMAIN config.repos \ {r} : config.repos[q] = old
            added == IF db # None /\ ~Has(config, db)
                       THEN {[db |-> db, source |-> "repository", repo |-> r]} ELSE {}
            dropped == IF old # None /\ old # new /\ ~shared THEN {old} ELSE {}
            stores == Released(config.stores, r, dropped) \cup added
            repos == [q \in DOMAIN config.repos \cup {r} |->
                         IF q = r THEN new ELSE config.repos[q]]
<1>1. old \in Databases \cup {None} /\ new \in Databases \cup {None}
  BY ConfigType
<1>2. added \in SUBSET Store
  BY DEF Store
<1>3. stores \in SUBSET Store
  BY <1>2, ReleasedType, ConfigType
<1>4. repos \in Links
  <2>1. /\ DOMAIN config.repos \cup {r} \in SUBSET Repositories
        /\ repos \in [DOMAIN config.repos \cup {r} -> Databases \cup {None}]
    BY <1>1, ConfigType
  <2>. QED
    BY <2>1 DEF Links
<1>5. WithRepository(config, r, db) = Replace(config, stores, repos)
  BY DEF WithRepository, Replace
<1>. HIDE DEF stores, repos
<1>. QED
  BY <1>3, <1>4, <1>5, Replaced

\* The database that an attached repository refers to.
LEMMA LinkOf ==
    ASSUME NEW config \in WorkspaceConfig, NEW r \in Repositories,
           NEW db \in Databases \cup {None}
    PROVE  WithRepository(config, r, db).repos[r] \in Databases \cup {None}
<1>1. r \in DOMAIN WithRepository(config, r, db).repos
  BY DEF WithRepository, WorkspaceConfig
<1>. QED
  BY <1>1, WithRepositoryType, ConfigType

LEMMA WithoutRepositoryType ==
    ASSUME NEW config \in WorkspaceConfig, NEW r \in Repositories
    PROVE  WithoutRepository(config, r) \in WorkspaceConfig
<1>. DEFINE stores == Released(config.stores, r, Databases)
            repos == [q \in DOMAIN config.repos \ {r} |-> config.repos[q]]
<1>1. stores \in SUBSET Store
  BY ReleasedType, ConfigType
<1>2. repos \in Links
  <2>1. /\ DOMAIN config.repos \ {r} \in SUBSET Repositories
        /\ repos \in [DOMAIN config.repos \ {r} -> Databases \cup {None}]
    BY ConfigType
  <2>. QED
    BY <2>1 DEF Links
<1>3. WithoutRepository(config, r) = Replace(config, stores, repos)
  BY DEF WithoutRepository, Replace
<1>. HIDE DEF stores, repos
<1>. QED
  BY <1>1, <1>2, <1>3, Replaced

LEMMA WithStoreType ==
    ASSUME NEW config \in WorkspaceConfig, NEW db \in Databases
    PROVE  WithStore(config, db) \in WorkspaceConfig
  BY DEF WithStore, WorkspaceConfig, Store

LEMMA WithoutStoreType ==
    ASSUME NEW config \in WorkspaceConfig, NEW db \in Databases
    PROVE  WithoutStore(config, db) \in WorkspaceConfig
<1>. DEFINE stores == {s \in config.stores : s.db # db}
            repos == [q \in DOMAIN config.repos |->
                         IF config.repos[q] = db THEN None ELSE config.repos[q]]
<1>1. stores \in SUBSET Store
  BY ConfigType
<1>2. repos \in Links
  <2>1. /\ DOMAIN config.repos \in SUBSET Repositories
        /\ repos \in [DOMAIN config.repos -> Databases \cup {None}]
    BY ConfigType
  <2>. QED
    BY <2>1 DEF Links
<1>3. WithoutStore(config, db) = Replace(config, stores, repos)
  BY DEF WithoutStore, Replace
<1>. HIDE DEF stores, repos
<1>. QED
  BY <1>1, <1>2, <1>3, Replaced

LEMMA NewWorkspaceType ==
    ASSUME NEW w \in Workspaces, NEW owned \in BOOLEAN
    PROVE  NewWorkspace(w, owned) \in WorkspaceConfig
<1>. DEFINE stores == IF owned THEN {[db |-> Owned[w], source |-> "owned", repo |-> None]}
                      ELSE {}
<1>1. stores \in SUBSET Store
  BY OwnedAssumption DEF Store
<1>2. {} \in SUBSET Repositories /\ <<>> \in [{} -> Databases \cup {None}]
  OBVIOUS
<1>. QED
  BY <1>1, <1>2 DEF NewWorkspace, WorkspaceConfig

LEMMA WithType ==
    ASSUME NEW config, IsAppConfig(config), NEW w \in Workspaces,
           NEW entry \in WorkspaceConfig
    PROVE  /\ IsAppConfig(With(config, w, entry))
           /\ DOMAIN With(config, w, entry) = DOMAIN config \cup {w}
           /\ DOMAIN config \subseteq DOMAIN With(config, w, entry)
           /\ With(config, w, entry)[w] = entry
           /\ \A v \in DOMAIN config \ {w} : With(config, w, entry)[v] = config[v]
  BY DEF With, IsAppConfig

LEMMA ArchivedType ==
    ASSUME NEW config, IsAppConfig(config), NEW w \in DOMAIN config
    PROVE  /\ IsAppConfig([config EXCEPT ![w].archived = TRUE])
           /\ DOMAIN [config EXCEPT ![w].archived = TRUE] = DOMAIN config
<1>1. [config[w] EXCEPT !.archived = TRUE] \in WorkspaceConfig
  BY DEF IsAppConfig, WorkspaceConfig
<1>. QED
  BY <1>1 DEF IsAppConfig

\* A derived configuration is one, and lists what memory lists.
LEMMA DerivedType ==
    ASSUME IsAppConfig(mem), NEW next, Derived(next)
    PROVE  IsAppConfig(next) /\ DOMAIN mem \subseteq DOMAIN next
<1>1. \A w \in DOMAIN mem : w \in Workspaces /\ mem[w] \in WorkspaceConfig
  BY DEF IsAppConfig
<1>2. \A w \in DOMAIN mem :
        LET changed == [mem EXCEPT ![w].archived = TRUE] IN
            IsAppConfig(changed) /\ DOMAIN mem \subseteq DOMAIN changed
  BY ArchivedType
<1>3. \A w \in Workspaces, entry \in WorkspaceConfig :
        /\ IsAppConfig(With(mem, w, entry))
        /\ DOMAIN mem \subseteq DOMAIN With(mem, w, entry)
  BY WithType
<1>4. CASE \E w \in Workspaces, owned \in BOOLEAN :
             next = With(mem, w, NewWorkspace(w, owned))
  BY <1>3, <1>4, NewWorkspaceType
<1>5. CASE \E w \in DOMAIN mem, r \in Repositories, db \in Databases \cup {None} :
             next = With(mem, w, WithRepository(mem[w], r, db))
  BY <1>1, <1>3, <1>5, WithRepositoryType
<1>6. CASE \E w \in DOMAIN mem, r \in Repositories :
             next = With(mem, w, WithoutRepository(mem[w], r))
  BY <1>1, <1>3, <1>6, WithoutRepositoryType
<1>7. CASE \E w \in DOMAIN mem, db \in Databases : next = With(mem, w, WithStore(mem[w], db))
  BY <1>1, <1>3, <1>7, WithStoreType
<1>8. CASE \E w \in DOMAIN mem, db \in Databases :
             next = With(mem, w, WithoutStore(mem[w], db))
  BY <1>1, <1>3, <1>8, WithoutStoreType
<1>9. CASE next = mem \/ \E w \in DOMAIN mem : next = [mem EXCEPT ![w].archived = TRUE]
  BY <1>2, <1>9
<1>. QED
  BY <1>4, <1>5, <1>6, <1>7, <1>8, <1>9 DEF Derived

-----------------------------------------------------------------------------
(* What a step does to the configurations.                                 *)

ConfigStep ==
    \/ UNCHANGED files
    \/ up' /\ mem' = disk /\ UNCHANGED disk
    \/ ~up' /\ mem' = <<>> /\ UNCHANGED disk
    \/ \E next : Derived(next) /\ Saves(next)

LEMMA CreateSaves ==
    ASSUME TypeInv, NEW t \in Threads, workspace_create(t)
    PROVE  \E next : Derived(next) /\ Saves(next)
<1>. DEFINE w == call[t].args.ws
            next == With(mem, w, NewWorkspace(w, call[t].db # None))
<1>1. w \in Workspaces
  BY CallFact DEF workspace_create, At, TypeInv, Engaged
<1>2. Derived(next)
  BY <1>1 DEF Derived
<1>3. Saves(next)
  BY SaveFact DEF workspace_create
<1>. QED
  BY <1>2, <1>3

LEMMA ArchiveSaves ==
    ASSUME TypeInv, NEW t \in Threads, workspace_archive(t)
    PROVE  UNCHANGED files \/ \E next : Derived(next) /\ Saves(next)
<1>. DEFINE w == call[t].args.ws
            next == [mem EXCEPT ![w].archived = TRUE]
<1>1. CASE w \notin DOMAIN mem /\ Fail(t)
  BY <1>1 DEF Fail
<1>2. CASE w \in DOMAIN mem /\ \E ok \in BOOLEAN : save(next, next, ok)
  <2>1. Derived(next)
    BY <1>2 DEF Derived
  <2>2. Saves(next)
    BY <1>2, SaveFact
  <2>. QED
    BY <2>1, <2>2
<1>. QED
  BY <1>1, <1>2 DEF workspace_archive

LEMMA VisitSaves ==
    ASSUME TypeInv, NEW t \in Threads, workspace_visit(t)
    PROVE  UNCHANGED files \/ \E next : Derived(next) /\ Saves(next)
<1>1. CASE Fail(t)
  BY <1>1 DEF Fail
<1>2. CASE \E ok \in BOOLEAN : save(mem, mem, ok)
  BY <1>2, SaveFact DEF Derived
<1>. QED
  BY <1>1, <1>2 DEF workspace_visit

LEMMA RepositoryAttachSaves ==
    ASSUME TypeInv, NEW t \in Threads, repository_attach(t)
    PROVE  UNCHANGED files \/ \E next : Derived(next) /\ Saves(next)
<1>. DEFINE w == call[t].args.ws
            r == call[t].args.repo
<1>1. w \in Workspaces /\ r \in Repositories
  BY CallFact DEF repository_attach, At, TypeInv, Engaged
<1>2. PICK db \in Found[r] \cap (made \cup {None}) :
        \/ Fail(t)
        \/ /\ Active(w) /\ FreeFor(db, w)
           /\ \E ok \in BOOLEAN : save(With(mem, w, WithRepository(mem[w], r, db)), mem, ok)
  BY DEF repository_attach
<1>3. db \in Databases \cup {None}
  BY <1>1, FoundAssumption
<1>4. CASE Fail(t)
  BY <1>4 DEF Fail
<1>5. CASE /\ Active(w) /\ FreeFor(db, w)
           /\ \E ok \in BOOLEAN : save(With(mem, w, WithRepository(mem[w], r, db)), mem, ok)
  <2>. DEFINE next == With(mem, w, WithRepository(mem[w], r, db))
  <2>1. Derived(next)
    BY <1>1, <1>3, <1>5 DEF Derived, Active
  <2>2. Saves(next)
    BY <1>5, SaveFact
  <2>. QED
    BY <2>1, <2>2
<1>. QED
  BY <1>2, <1>4, <1>5

LEMMA RepositoryDetachSaves ==
    ASSUME TypeInv, NEW t \in Threads, repository_detach(t)
    PROVE  UNCHANGED files \/ \E next : Derived(next) /\ Saves(next)
<1>. DEFINE w == call[t].args.ws
            r == call[t].args.repo
            next == With(mem, w, WithoutRepository(mem[w], r))
<1>1. w \in Workspaces /\ r \in Repositories
  BY CallFact DEF repository_detach, At, TypeInv, Engaged
<1>2. CASE Fail(t)
  BY <1>2 DEF Fail
<1>3. CASE Active(w) /\ \E ok \in BOOLEAN : save(next, next, ok)
  <2>1. Derived(next)
    BY <1>1, <1>3 DEF Derived, Active
  <2>2. Saves(next)
    BY <1>3, SaveFact
  <2>. QED
    BY <2>1, <2>2
<1>. QED
  BY <1>2, <1>3 DEF repository_detach

LEMMA StoreAttachSaves ==
    ASSUME TypeInv, NEW t \in Threads, task_store_attach(t)
    PROVE  UNCHANGED files \/ \E next : Derived(next) /\ Saves(next)
<1>. DEFINE w == call[t].args.ws
            db == call[t].args.db
            next == With(mem, w, WithStore(mem[w], db))
<1>1. w \in Workspaces /\ db \in Databases
  BY CallFact DEF task_store_attach, At, TypeInv, Engaged
<1>2. CASE Fail(t)
  BY <1>2 DEF Fail
<1>3. CASE Active(w) /\ Holders(db) = {} /\ \E ok \in BOOLEAN : save(next, next, ok)
  <2>1. Derived(next)
    BY <1>1, <1>3 DEF Derived, Active
  <2>2. Saves(next)
    BY <1>3, SaveFact
  <2>. QED
    BY <2>1, <2>2
<1>4. CASE UNCHANGED files
  BY <1>4
<1>. QED
  BY <1>2, <1>3, <1>4 DEF task_store_attach

LEMMA StoreDetachSaves ==
    ASSUME TypeInv, NEW t \in Threads, task_store_detach(t)
    PROVE  UNCHANGED files \/ \E next : Derived(next) /\ Saves(next)
<1>. DEFINE w == call[t].args.ws
            db == call[t].args.db
            next == With(mem, w, WithoutStore(mem[w], db))
<1>1. w \in Workspaces /\ db \in Databases
  BY CallFact DEF task_store_detach, At, TypeInv, Engaged
<1>2. CASE Fail(t)
  BY <1>2 DEF Fail
<1>3. CASE Active(w) /\ \E ok \in BOOLEAN : save(next, next, ok)
  <2>1. Derived(next)
    BY <1>1, <1>3 DEF Derived, Active
  <2>2. Saves(next)
    BY <1>3, SaveFact
  <2>. QED
    BY <2>1, <2>2
<1>. QED
  BY <1>2, <1>3 DEF task_store_detach

LEMMA ThreadSaves ==
    ASSUME TypeInv, NEW t \in Threads, Begin(t) \/ Proceed(t)
    PROVE  up /\ up' /\ (UNCHANGED files \/ \E next : Derived(next) /\ Saves(next))
<1>1. CASE Begin(t)
  BY <1>1 DEF Begin
<1>2. CASE active_runtime(t)
  BY <1>2 DEF active_runtime
<1>3. CASE PrepareWorkspace(t)
  BY <1>3 DEF PrepareWorkspace, At
<1>4. CASE PublishRuntime(t)
  BY <1>4 DEF PublishRuntime, At
<1>5. CASE RetireRuntime(t)
  BY <1>5 DEF RetireRuntime, At
<1>6. CASE InsertLock(t)
  BY <1>6 DEF InsertLock
<1>7. CASE CopyConfig(t)
  BY <1>7 DEF CopyConfig, At
<1>8. CASE FindLock(t)
  BY <1>8 DEF FindLock, At
<1>9. CASE Acquire(t)
  BY <1>9 DEF Acquire, At
<1>10. CASE Release(t)
  BY <1>10 DEF Release, At
<1>11. CASE \/ workspace_create(t) \/ workspace_archive(t) \/ workspace_visit(t)
            \/ repository_attach(t) \/ repository_detach(t)
            \/ task_store_attach(t) \/ task_store_detach(t)
  <2>1. up /\ up'
    BY <1>11 DEF workspace_create, workspace_archive, workspace_visit, repository_attach,
       repository_detach, task_store_attach, task_store_detach, Fail, At
  <2>. QED
    BY <1>11, <2>1, CreateSaves, ArchiveSaves, VisitSaves, RepositoryAttachSaves,
       RepositoryDetachSaves, StoreAttachSaves, StoreDetachSaves
<1>. QED
  BY <1>1, <1>2, <1>3, <1>4, <1>5, <1>6, <1>7, <1>8, <1>9, <1>10, <1>11 DEF Proceed

LEMMA ThreadConfigs ==
    ASSUME TypeInv, NEW t \in Threads, Begin(t) \/ Proceed(t)
    PROVE  /\ IsAppConfig(disk)' /\ IsAppConfig(mem)'
           /\ DOMAIN mem \subseteq DOMAIN mem' /\ up /\ up'
<1>1. IsAppConfig(mem) /\ IsAppConfig(disk)
  BY DEF TypeInv, RegistryTypeOK
<1>2. CASE UNCHANGED files
  BY <1>1, <1>2, ThreadSaves DEF files, IsAppConfig
<1>3. ASSUME NEW next, Derived(next), Saves(next)
      PROVE  /\ IsAppConfig(disk)' /\ IsAppConfig(mem)'
             /\ DOMAIN mem \subseteq DOMAIN mem'
  <2>1. IsAppConfig(next) /\ DOMAIN mem \subseteq DOMAIN next
    BY <1>1, <1>3, DerivedType
  <2>. QED
    BY <1>1, <1>3, <2>1 DEF Saves, IsAppConfig
<1>. QED
  BY <1>2, <1>3, ThreadSaves

-----------------------------------------------------------------------------
(* Types                                                                   *)

CallOf(c, t) ==
    /\ c \in [Threads -> Call]
    /\ \A u \in Threads \ {t} : c[u] = call[u]

\* Ways in which a request goes on.
LEMMA Returns ==
    ASSUME TypeInv, NEW t \in Threads, Return(t)
    PROVE  CallOf(call', t) /\ call'[t].phase = "idle"
<1>1. call \in [Threads -> Call]
  BY DEF TypeInv, RegistryTypeOK
<1>2. Idle \in Call /\ Idle.phase = "idle"
  BY DEF Idle, Call, Phases
<1>. QED
  BY <1>1, <1>2 DEF Return, CallOf

LEMMA Proceeds ==
    ASSUME TypeInv, NEW t \in Threads, NEW phase \in Phases, Goto(t, phase)
    PROVE  /\ CallOf(call', t) /\ call'[t].phase = phase /\ call'[t].args = call[t].args
           /\ call'[t].db = call[t].db /\ call'[t].guard = call[t].guard
<1>1. call \in [Threads -> Call]
  BY DEF TypeInv, RegistryTypeOK
<1>2. [call[t] EXCEPT !.phase = phase] \in Call
  BY <1>1 DEF Call
<1>. QED
  BY <1>1, <1>2 DEF Goto, CallOf, Call

LEMMA Names ==
    ASSUME TypeInv, NEW t \in Threads, NEW phase \in Phases, NEW db \in Databases,
           call' = [call EXCEPT ![t].phase = phase, ![t].db = db]
    PROVE  /\ CallOf(call', t) /\ call'[t].phase = phase /\ call'[t].args = call[t].args
           /\ call'[t].db = db /\ call'[t].guard = call[t].guard
<1>1. call \in [Threads -> Call]
  BY DEF TypeInv, RegistryTypeOK
<1>2. [call[t] EXCEPT !.phase = phase, !.db = db] \in Call
  BY <1>1 DEF Call
<1>. QED
  BY <1>1, <1>2 DEF CallOf, Call

LEMMA Guards ==
    ASSUME TypeInv, NEW t \in Threads, NEW n \in Nat,
           call' = [call EXCEPT ![t].phase = "acquire", ![t].guard = n]
    PROVE  /\ CallOf(call', t) /\ call'[t].phase = "acquire" /\ call'[t].args = call[t].args
           /\ call'[t].db = call[t].db /\ call'[t].guard = n
<1>1. call \in [Threads -> Call]
  BY DEF TypeInv, RegistryTypeOK
<1>2. [call[t] EXCEPT !.phase = "acquire", !.guard = n] \in Call
  BY <1>1 DEF Call, Phases
<1>. QED
  BY <1>1, <1>2 DEF CallOf, Call

LEMMA Begins ==
    ASSUME TypeInv, NEW t \in Threads, Begin(t)
    PROVE  /\ CallOf(call', t) /\ call'[t].args \in Calls
           /\ call'[t].phase \in {"prepare", "config", "runtime"}
<1>1. call \in [Threads -> Call]
  BY DEF TypeInv, RegistryTypeOK
<1>2. PICK c \in Calls :
        call' = [call EXCEPT ![t] = [Idle EXCEPT !.phase = FirstPhase(c.op), !.args = c]]
  BY DEF Begin
<1>3. FirstPhase(c.op) \in {"prepare", "config", "runtime"}
  BY DEF FirstPhase
<1>4. /\ [Idle EXCEPT !.phase = FirstPhase(c.op), !.args = c] \in Call
      /\ [Idle EXCEPT !.phase = FirstPhase(c.op), !.args = c].phase = FirstPhase(c.op)
      /\ [Idle EXCEPT !.phase = FirstPhase(c.op), !.args = c].args = c
  BY <1>3 DEF Idle, Call, Phases
<1>. QED
  BY <1>1, <1>2, <1>3, <1>4 DEF CallOf

\* The request of a thread, after its step.
Requests(t) ==
    /\ CallOf(call', t)
    /\ call'[t].phase # "idle" => call'[t].args \in Calls
    /\ call'[t].phase = "publish" =>
          workspace_create(t) /\ call'[t].args.ws \in DOMAIN mem'
    /\ call'[t].phase = "find" => call'[t].db \in Databases
    /\ call'[t].phase \in {"acquire", "work"} => FindLock(t) \/ Acquire(t)

LEMMA RequestSteps ==
    ASSUME TypeInv, NEW t \in Threads, Begin(t) \/ Proceed(t)
    PROVE  Requests(t)
<1>a. call[t].phase # "idle" => call[t].args \in Calls
  BY DEF TypeInv, Engaged
<1>b. {"config", "retire", "copy", "work", "lock", "find", "publish"} \subseteq Phases
  BY DEF Phases
<1>c. ASSUME Return(t) PROVE Requests(t)
  BY <1>c, Returns DEF Requests
<1>d. ASSUME NEW phase \in {"config", "retire", "copy"}, Goto(t, phase),
             call[t].phase # "idle"
      PROVE  Requests(t)
  BY <1>a, <1>b, <1>d, Proceeds DEF Requests
<1>e. ASSUME NEW phase \in {"config", "lock", "find"}, NEW db \in Databases,
             call' = [call EXCEPT ![t].phase = phase, ![t].db = db], call[t].phase # "idle"
      PROVE  Requests(t)
  <2>1. /\ CallOf(call', t) /\ call'[t].phase = phase /\ call'[t].args = call[t].args
        /\ call'[t].db = db
    <3>1. phase \in Phases
      BY <1>b
    <3>. QED
      BY <1>e, <3>1, Names, ZenonT(40)
  <2>. QED
    BY <1>a, <1>e, <2>1 DEF Requests
<1>f. call[t].phase # "idle" =>
        /\ call[t].args.ws \in Workspaces /\ call[t].args.db \in Databases
        /\ call[t].args.repo \in Repositories
  BY <1>a, CallFact
<1>g. call[t].db \in Databases \cup {None}
  BY DEF TypeInv, RegistryTypeOK, Call
<1>1. CASE Begin(t)
  BY <1>1, Begins DEF Requests
<1>2. CASE active_runtime(t)
  BY <1>2, <1>b, <1>c, <1>d DEF active_runtime
<1>3. CASE PrepareWorkspace(t)
  <2>1. Owned[call[t].args.ws] \in Databases
    BY <1>3, <1>f, OwnedAssumption DEF PrepareWorkspace, At
  <2>. QED
    BY <1>3, <2>1, <1>b, <1>c, <1>d, <1>e DEF PrepareWorkspace, At
<1>4. CASE workspace_create(t)
  <2>1. CASE Return(t)
    BY <2>1, <1>c
  <2>2. CASE Goto(t, "publish") /\ mem' = With(mem, call[t].args.ws,
                NewWorkspace(call[t].args.ws, call[t].db # None))
    <3>1. call[t].args.ws \in DOMAIN mem'
      BY <2>2 DEF With
    <3>. QED
      BY <1>4, <1>a, <1>b, <2>2, <3>1, Proceeds DEF Requests, workspace_create, At
  <2>. QED
    BY <1>4, <2>1, <2>2 DEF workspace_create, save
<1>5. CASE PublishRuntime(t)
  BY <1>5, <1>b, <1>c, <1>e, <1>g DEF PublishRuntime, At, Lock
<1>6. CASE workspace_archive(t)
  BY <1>6, <1>b, <1>c, <1>d DEF workspace_archive, At, Fail
<1>7. CASE RetireRuntime(t) \/ workspace_visit(t) \/ repository_detach(t)
           \/ task_store_detach(t) \/ InsertLock(t) \/ Release(t)
  BY <1>7, <1>c DEF RetireRuntime, workspace_visit, repository_detach, task_store_detach,
     InsertLock, Release, Fail
<1>8. CASE repository_attach(t)
  <2>. DEFINE w == call[t].args.ws
              r == call[t].args.repo
  <2>1. PICK db \in Found[r] \cap (made \cup {None}) :
          \/ Return(t)
          \/ LET entry == WithRepository(mem[w], r, db) IN
                entry.repos[r] # None /\ Active(w) /\ Lock(t, entry.repos[r])
    BY <1>8 DEF repository_attach, Fail
  <2>2. CASE Return(t)
    BY <2>2, <1>c
  <2>3. CASE LET entry == WithRepository(mem[w], r, db) IN
                entry.repos[r] # None /\ Active(w) /\ Lock(t, entry.repos[r])
    <3>1. w \in Workspaces /\ r \in Repositories /\ db \in Databases \cup {None}
      BY <1>8, <1>f, FoundAssumption DEF repository_attach, At
    <3>2. mem[w] \in WorkspaceConfig
      BY <2>3 DEF Active, TypeInv, RegistryTypeOK, IsAppConfig
    <3>3. WithRepository(mem[w], r, db).repos[r] \in Databases \cup {None}
      BY <3>1, <3>2, LinkOf
    <3>. QED
      BY <1>8, <2>3, <3>3, <1>b, <1>e DEF Lock, repository_attach, At
  <2>. QED
    BY <2>1, <2>2, <2>3
<1>9. CASE task_store_attach(t)
  BY <1>9, <1>b, <1>c, <1>e, <1>f DEF task_store_attach, At, Fail, Lock
<1>10. CASE CopyConfig(t)
  BY <1>10, <1>b, <1>c, <1>e, <1>f DEF CopyConfig, At
<1>11. CASE FindLock(t)
  <2>1. store_locks[call[t].db] \in Nat
    BY <1>11 DEF FindLock, At, TypeInv, Engaged, RegistryTypeOK
  <2>2. CASE Return(t)
    BY <2>2, <1>c
  <2>3. CASE call' = [call EXCEPT ![t].phase = "acquire", ![t].guard = store_locks[call[t].db]]
    BY <1>11, <1>a, <2>1, <2>3, Guards DEF Requests, FindLock, At
  <2>. QED
    BY <1>11, <2>2, <2>3 DEF FindLock
<1>12. CASE Acquire(t)
  BY <1>12, <1>a, <1>b, Proceeds DEF Requests, Acquire, At
<1>. QED
  BY <1>1, <1>2, <1>3, <1>4, <1>5, <1>6, <1>7, <1>8, <1>9, <1>10, <1>11, <1>12 DEF Proceed

LEMMA NoConfig == IsAppConfig(<<>>) /\ DOMAIN <<>> = {}
<1>1. DOMAIN <<>> = {}
  OBVIOUS
<1>2. <<>> \in [DOMAIN <<>> -> WorkspaceConfig]
  BY <1>1
<1>. QED
  BY <1>1, <1>2 DEF IsAppConfig

LEMMA InitType == Init => TypeInv
<1>. SUFFICES ASSUME Init PROVE TypeInv
  OBVIOUS
<1>1. Idle \in Call /\ Idle.phase = "idle"
  BY DEF Idle, Call, Phases
<1>2. RegistryTypeOK
  <2>1. IsAppConfig(mem) /\ IsAppConfig(disk) /\ running \subseteq DOMAIN mem
    BY NoConfig DEF Init
  <2>2. store_locks \in [Databases -> 0..1] /\ call \in [Threads -> Call]
    BY <1>1 DEF Init
  <2>. QED
    BY <2>1, <2>2, ExternalAssumption DEF Init, RegistryTypeOK
<1>3. Engaged
  BY <1>1 DEF Init, Engaged
<1>. QED
  BY <1>2, <1>3 DEF TypeInv

\* The parts of the state that threads change besides their requests.
LEMMA TableSteps ==
    ASSUME TypeInv, NEW t \in Threads, Begin(t) \/ Proceed(t)
    PROVE  /\ made' \subseteq Databases
           /\ running' \subseteq DOMAIN mem'
           /\ store_locks' \in [Databases -> 0..1]
           /\ refused' \subseteq Databases
           /\ unsaved' \subseteq Workspaces \X Databases
           /\ attached' \subseteq Workspaces \X Databases
           /\ retired' \subseteq Workspaces
           /\ early' \subseteq Workspaces
<1>. DEFINE Good == /\ made' \subseteq Databases
                    /\ running' \subseteq DOMAIN mem'
                    /\ store_locks' \in [Databases -> 0..1]
                    /\ refused' \subseteq Databases
                    /\ unsaved' \subseteq Workspaces \X Databases
                    /\ attached' \subseteq Workspaces \X Databases
                    /\ retired' \subseteq Workspaces
                    /\ early' \subseteq Workspaces
<1>a. /\ made \subseteq Databases /\ running \subseteq DOMAIN mem'
      /\ store_locks \in [Databases -> 0..1] /\ refused \subseteq Databases
      /\ unsaved \subseteq Workspaces \X Databases
      /\ attached \subseteq Workspaces \X Databases
      /\ retired \subseteq Workspaces /\ early \subseteq Workspaces
  BY ThreadConfigs DEF TypeInv, RegistryTypeOK
<1>b. call[t].phase # "idle" =>
        /\ call[t].args.ws \in Workspaces /\ call[t].args.db \in Databases
        /\ call[t].args.repo \in Repositories
  BY CallFact DEF TypeInv, Engaged
<1>c. unsaved' = unsaved \/ (\E next, kept, ok : save(next, kept, ok))
        => unsaved' \subseteq Workspaces \X Databases
  BY <1>a, UnsavedType
<1>1. CASE Begin(t) \/ active_runtime(t) \/ CopyConfig(t) \/ FindLock(t) \/ Acquire(t)
           \/ Release(t)
  BY <1>1, <1>a DEF Begin, active_runtime, CopyConfig, FindLock, Acquire, Release, tables,
     history, answers
<1>2. CASE PrepareWorkspace(t)
  BY <1>2, <1>a, <1>b, OwnedAssumption DEF PrepareWorkspace, At, tables, history, answers
<1>3. CASE PublishRuntime(t)
  <2>1. call[t].args.ws \in DOMAIN mem'
    BY <1>3, ThreadConfigs DEF PublishRuntime, At, TypeInv, Engaged
  <2>. QED
    BY <1>3, <2>1, <1>a DEF PublishRuntime, history, answers
<1>4. CASE Fail(t)
  BY <1>4, <1>a DEF Fail, tables, history, answers
<1>5. CASE RetireRuntime(t)
  BY <1>5, <1>a, <1>b DEF RetireRuntime, At
<1>6. CASE workspace_create(t) \/ ((workspace_visit(t) \/ repository_detach(t)) /\ ~Fail(t))
  <2>1. UNCHANGED <<made, tables, answers>>
    BY <1>6 DEF workspace_create, workspace_visit, repository_detach
  <2>2. \E next, kept, ok : save(next, kept, ok)
    BY <1>6 DEF workspace_create, workspace_visit, repository_detach
  <2>. QED
    BY <2>1, <2>2, <1>a, <1>c DEF tables, answers
<1>7. CASE workspace_archive(t) /\ ~Fail(t)
  <2>1. /\ UNCHANGED <<made, tables, refused, attached, retired>>
        /\ early' \subseteq early \cup {call[t].args.ws}
    BY <1>7 DEF workspace_archive
  <2>2. \E next, kept, ok : save(next, kept, ok)
    BY <1>7 DEF workspace_archive
  <2>3. call[t].args.ws \in Workspaces
    BY <1>7, <1>b DEF workspace_archive, At
  <2>. QED
    BY <2>1, <2>2, <2>3, <1>a, <1>c DEF tables
<1>8. CASE repository_attach(t) /\ ~Fail(t)
  <2>. DEFINE w == call[t].args.ws
              r == call[t].args.repo
  <2>1. PICK db \in Found[r] \cap (made \cup {None}) :
          /\ Active(w)
          /\ LET entry == WithRepository(mem[w], r, db) IN
             \/ UNCHANGED attached
             \/ attached' = attached \cup ({w} \X {s.db : s \in StoreOf(entry, entry.repos[r])})
    BY <1>8 DEF repository_attach
  <2>2. w \in Workspaces /\ r \in Repositories /\ db \in Databases \cup {None}
    BY <1>8, <1>b, FoundAssumption DEF repository_attach, At
  <2>3. mem[w] \in WorkspaceConfig
    BY <2>1 DEF Active, TypeInv, RegistryTypeOK, IsAppConfig
  <2>4. WithRepository(mem[w], r, db).stores \in SUBSET Store
    BY <2>2, <2>3, WithRepositoryType, ConfigType
  <2>5. attached' \subseteq Workspaces \X Databases
    <3>. DEFINE entry == WithRepository(mem[w], r, db)
                shown == {s.db : s \in StoreOf(entry, entry.repos[r])}
    <3>1. shown \subseteq Databases
      BY <2>4 DEF StoreOf, Store
    <3>2. attached' = attached \/ attached' = attached \cup ({w} \X shown)
      BY <2>1
    <3>. HIDE DEF shown
    <3>. QED
      BY <1>a, <2>2, <3>1, <3>2
  <2>6. UNCHANGED <<made, tables, refused, retired, early>>
    BY <1>8 DEF repository_attach
  <2>7. \E next, kept, ok : save(next, kept, ok)
    BY <1>8 DEF repository_attach
  <2>. QED
    BY <2>5, <2>6, <2>7, <1>a, <1>c DEF tables
<1>9. CASE task_store_attach(t) /\ ~Fail(t)
  <2>1. /\ UNCHANGED <<made, tables, retired, early>>
        /\ attached' \in {attached, attached \cup {<<call[t].args.ws, call[t].args.db>>}}
        /\ refused' \in {refused, refused \cup {call[t].args.db}}
    BY <1>9 DEF task_store_attach
  <2>2. call[t].args.ws \in Workspaces /\ call[t].args.db \in Databases
    BY <1>9, <1>b DEF task_store_attach, At
  <2>3. unsaved' = unsaved \/ \E next, kept, ok : save(next, kept, ok)
    BY <1>9 DEF task_store_attach
  <2>. QED
    BY <2>1, <2>2, <2>3, <1>a, <1>c DEF tables
<1>10. CASE task_store_detach(t) /\ ~Fail(t)
  <2>1. UNCHANGED <<made, tables, refused, retired, early>> /\ attached' \subseteq attached
    BY <1>10 DEF task_store_detach
  <2>2. \E next, kept, ok : save(next, kept, ok)
    BY <1>10 DEF task_store_detach
  <2>. QED
    BY <2>1, <2>2, <1>a, <1>c DEF tables
<1>11. CASE InsertLock(t)
  <2>1. \A db \in Databases : NewLock(db) \in 0..1
    BY <1>a DEF NewLock
  <2>2. store_locks' \in [Databases -> 0..1]
    BY <1>11, <1>a, <2>1 DEF InsertLock
  <2>. QED
    BY <1>11, <1>a, <2>2 DEF InsertLock
<1>. QED
  BY <1>1, <1>2, <1>3, <1>4, <1>5, <1>6, <1>7, <1>8, <1>9, <1>10, <1>11 DEF Proceed

LEMMA TypeStep == TypeInv /\ Next => TypeInv'
<1>. SUFFICES ASSUME TypeInv, Next PROVE TypeInv'
  OBVIOUS
<1>a. RegistryTypeOK /\ Engaged
  BY DEF TypeInv
<1>1. CASE Start
  <2>1. \A t \in Threads : call'[t] = call[t] /\ call'[t].phase = "idle"
    BY <1>1, <1>a DEF Start, Engaged
  <2>2. Engaged'
    BY <2>1 DEF Engaged
  <2>3. Loaded(disk) \subseteq DOMAIN disk
    BY DEF Loaded
  <2>4. RegistryTypeOK'
    BY <1>1, <1>a, <2>3 DEF Start, history, answers, RegistryTypeOK, IsAppConfig
  <2>. QED
    BY <2>2, <2>4 DEF TypeInv
<1>2. CASE Crash
  <2>1. Idle \in Call /\ Idle.phase = "idle"
    BY DEF Idle, Call, Phases
  <2>2. Engaged'
    BY <1>2, <2>1 DEF Crash, Engaged
  <2>3. IsAppConfig(mem)' /\ IsAppConfig(disk)'
    BY <1>2, <1>a, NoConfig DEF Crash, RegistryTypeOK, IsAppConfig
  <2>4. RegistryTypeOK'
    <3>1. store_locks' \in [Databases -> 0..1] /\ call' \in [Threads -> Call]
      BY <1>2, <2>1 DEF Crash
    <3>. QED
      BY <1>2, <1>a, <2>3, <3>1 DEF Crash, RegistryTypeOK
  <2>. QED
    BY <2>2, <2>4 DEF TypeInv
<1>3. ASSUME NEW t \in Threads, Begin(t) \/ Proceed(t) PROVE TypeInv'
  <2>1. /\ IsAppConfig(disk)' /\ IsAppConfig(mem)'
        /\ DOMAIN mem \subseteq DOMAIN mem' /\ up /\ up'
    BY <1>3, ThreadConfigs
  <2>2. Requests(t)
    BY <1>3, RequestSteps
  <2>3. RegistryTypeOK'
    BY <1>3, <2>1, <2>2, TableSteps DEF RegistryTypeOK, Requests, CallOf
  <2>4. Engaged'
    BY <1>a, <2>1, <2>2 DEF Engaged, Requests, CallOf
  <2>. QED
    BY <2>3, <2>4 DEF TypeInv
<1>. QED
  BY <1>1, <1>2, <1>3 DEF Next

LEMMA TypeStutter == TypeInv /\ UNCHANGED vars => TypeInv'
  BY DEF TypeInv, RegistryTypeOK, IsAppConfig, Engaged, vars, files, tables, history,
     answers

(* Types, the shape of the configuration, and what each phase of a call    *)
(* has in hand.                                                            *)
THEOREM TypeInvariant == Spec => []TypeInv
<1>1. Init => TypeInv
  BY InitType
<1>2. TypeInv /\ [Next]_vars => TypeInv'
  BY TypeStep, TypeStutter
<1>. QED
  BY <1>1, <1>2, PTL DEF Spec

(* Types: config.json and its copy in memory are configurations, whatever  *)
(* saves fail and wherever the host dies, only workspaces that memory      *)
(* lists are served, and a database never gets a second lock.              *)
THEOREM RegistryType == Spec => []RegistryTypeOK
<1>1. TypeInv => RegistryTypeOK
  BY DEF TypeInv
<1>. QED
  BY <1>1, TypeInvariant, PTL

-----------------------------------------------------------------------------
(* One worker per database                                                 *)

\* Whoever waits for a lock or holds it found the only one there will be.
OneGuard ==
    \A t \in Threads : call[t].phase \in {"acquire", "work"} => call[t].guard = 1

MutexInv == TypeInv /\ OneGuard /\ OneWorkerPerDatabase

LEMMA MutexThread ==
    ASSUME MutexInv, NEW t \in Threads, Begin(t) \/ Proceed(t)
    PROVE  OneGuard' /\ OneWorkerPerDatabase'
<1>a. TypeInv /\ Requests(t) /\ CallOf(call', t)
  BY RequestSteps DEF MutexInv, Requests
<1>b. ASSUME call'[t].phase \notin {"acquire", "work"}
      PROVE  OneGuard' /\ OneWorkerPerDatabase'
  BY <1>a, <1>b DEF MutexInv, OneGuard, OneWorkerPerDatabase, Working, CallOf
<1>1. CASE FindLock(t)
  <2>1. call[t].db \in Databases /\ store_locks[call[t].db] \in 0..1
    BY <1>1, <1>a DEF FindLock, At, TypeInv, Engaged, RegistryTypeOK
  <2>2. CASE Return(t)
    BY <2>2, <1>a, <1>b, Returns
  <2>3. CASE /\ store_locks[call[t].db] # 0
             /\ call' = [call EXCEPT ![t].phase = "acquire", ![t].guard = store_locks[call[t].db]]
    <3>1. store_locks[call[t].db] = 1
      BY <2>1, <2>3
    <3>2. call' = [call EXCEPT ![t].phase = "acquire", ![t].guard = 1]
      BY <2>3, <3>1
    <3>3. call'[t].phase = "acquire" /\ call'[t].guard = 1
      BY <1>a, <3>2, Guards
    <3>. QED
      BY <1>a, <3>3 DEF MutexInv, OneGuard, OneWorkerPerDatabase, Working, CallOf
  <2>. QED
    BY <1>1, <2>2, <2>3 DEF FindLock
<1>2. CASE Acquire(t)
  <2>1. /\ call'[t].phase = "work" /\ call'[t].db = call[t].db
        /\ call'[t].guard = call[t].guard
    BY <1>2, <1>a, Proceeds DEF Acquire, Phases
  <2>2. call[t].guard = 1
    BY <1>2 DEF Acquire, At, MutexInv, OneGuard
  <2>3. \A u \in Threads : ~(Working(u) /\ call[u].db = call[t].db)
    BY <1>2, <2>2 DEF Acquire, MutexInv, OneGuard, Working
  <2>. QED
    BY <1>a, <2>1, <2>2, <2>3 DEF MutexInv, OneGuard, OneWorkerPerDatabase, Working, CallOf
<1>. QED
  BY <1>1, <1>2, <1>a, <1>b DEF Requests

LEMMA MutexStep == MutexInv /\ [Next]_vars => MutexInv'
<1>. SUFFICES ASSUME MutexInv, [Next]_vars PROVE MutexInv'
  OBVIOUS
<1>1. TypeInv'
  BY TypeStep, TypeStutter DEF MutexInv
<1>2. CASE Start
  BY <1>1, <1>2 DEF Start, MutexInv, OneGuard, OneWorkerPerDatabase, Working
<1>3. CASE Crash
  BY <1>1, <1>3 DEF Crash, Idle, MutexInv, OneGuard, OneWorkerPerDatabase, Working
<1>4. CASE \E t \in Threads : Begin(t) \/ Proceed(t)
  BY <1>1, <1>4, MutexThread DEF MutexInv
<1>5. CASE UNCHANGED vars
  BY <1>1, <1>5 DEF vars, MutexInv, OneGuard, OneWorkerPerDatabase, Working
<1>. QED
  BY <1>2, <1>3, <1>4, <1>5 DEF Next

(* Two requests of a host never work on one database at once: the lock of a *)
(* path is made once while the host runs, so that whoever waits for it     *)
(* through a detachment and another attachment still waits for the lock    *)
(* that the next request will find (with_store_raw).                       *)
THEOREM DatabaseHasOneWorker == Spec => []OneWorkerPerDatabase
<1>1. Init => MutexInv
  BY InitType DEF Init, Idle, MutexInv, OneGuard, OneWorkerPerDatabase, Working
<1>2. MutexInv => OneWorkerPerDatabase
  BY DEF MutexInv
<1>. QED
  BY <1>1, <1>2, MutexStep, PTL DEF Spec

-----------------------------------------------------------------------------
(* Links between repositories and stores                                   *)

Linked(config) ==
    /\ \A r \in DOMAIN config.repos :
        config.repos[r] # None => \E s \in config.stores : s.db = config.repos[r]
    /\ \A s \in config.stores :
        /\ s.source = "repository" <=> s.repo # None
        /\ s.repo # None => s.repo \in DOMAIN config.repos

LEMMA LinkedAll ==
    ASSUME NEW config
    PROVE  LinksResolveIn(config) <=> \A w \in DOMAIN config : Linked(config[w])
  BY DEF LinksResolveIn, Linked, Has, StoreOf

LEMMA RecordFields ==
    ASSUME NEW X, NEW Y, NEW Z, NEW config \in [archived: X, stores: Y, repos: Z],
           NEW stores, NEW repos
    PROVE  /\ [config EXCEPT !.stores = stores, !.repos = repos].stores = stores
           /\ [config EXCEPT !.stores = stores, !.repos = repos].repos = repos
  OBVIOUS

LEMMA ReplacedFields ==
    ASSUME NEW config \in WorkspaceConfig, NEW stores, NEW repos
    PROVE  /\ Replace(config, stores, repos).stores = stores
           /\ Replace(config, stores, repos).repos = repos
<1>1. WorkspaceConfig = [archived: BOOLEAN, stores: SUBSET Store, repos: Links]
  BY DEF WorkspaceConfig, Links
<1>. QED
  BY <1>1, RecordFields DEF Replace

\* Stores that are released stay, as external ones.
LEMMA ReleasedFacts ==
    ASSUME NEW stores \in SUBSET Store, NEW r \in Repositories, NEW dbs
    PROVE  /\ \A s \in stores : \E z \in Released(stores, r, dbs) : z.db = s.db
           /\ \A z \in Released(stores, r, dbs) :
                \/ z \in stores /\ ~(z.repo = r /\ z.db \in dbs)
                \/ /\ z.source = "external" /\ z.repo = None
                   /\ \E s \in stores : s.db = z.db /\ s.repo = r /\ s.db \in dbs
<1>1. \A s \in Store : LET z == [s EXCEPT !.source = "external", !.repo = None] IN
        z.db = s.db /\ z.source = "external" /\ z.repo = None
  BY DEF Store
<1>. QED
  BY <1>1, ZenonT(30) DEF Released

\* What an attached repository and its workspace look like: dbs are released, added
\* is the store that came with it.
Attached(config, next, r, db, dbs, added) ==
    /\ next.stores = Released(config.stores, r, dbs) \cup added
    /\ \/ added = {}
       \/ /\ db # None /\ ~Has(config, db)
          /\ added = {[db |-> db, source |-> "repository", repo |-> r]}
    /\ db # None => Has(config, db) \/ added # {}
    /\ DOMAIN next.repos = DOMAIN config.repos \cup {r}
    /\ \A q \in DOMAIN config.repos \ {r} : next.repos[q] = config.repos[q]
    /\ \/ db # None /\ next.repos[r] = db
       \/ r \in DOMAIN config.repos /\ next.repos[r] = config.repos[r]
       \/ next.repos[r] = None

LEMMA WithRepositoryParts ==
    ASSUME NEW config \in WorkspaceConfig, NEW r \in Repositories,
           NEW db \in Databases \cup {None}
    PROVE  \E dbs, added : Attached(config, WithRepository(config, r, db), r, db, dbs, added)
<1>. DEFINE old == IF r \in DOMAIN config.repos THEN config.repos[r] ELSE None
            new == IF db = None THEN old ELSE db
            shared == \E q \in DOMAIN config.repos \ {r} : config.repos[q] = old
            added == IF db # None /\ ~Has(config, db)
                       THEN {[db |-> db, source |-> "repository", repo |-> r]} ELSE {}
            dropped == IF old # None /\ old # new /\ ~shared THEN {old} ELSE {}
            stores == Released(config.stores, r, dropped) \cup added
            repos == [q \in DOMAIN config.repos \cup {r} |->
                         IF q = r THEN new ELSE config.repos[q]]
<1>1. WithRepository(config, r, db) = Replace(config, stores, repos)
  BY DEF WithRepository, Replace
<1>3. /\ DOMAIN repos = DOMAIN config.repos \cup {r}
      /\ \A q \in DOMAIN config.repos \ {r} : repos[q] = config.repos[q]
      /\ repos[r] = new
  OBVIOUS
<1>4. \/ db # None /\ new = db
      \/ r \in DOMAIN config.repos /\ new = config.repos[r]
      \/ new = None
  OBVIOUS
<1>5. \/ added = {}
      \/ /\ db # None /\ ~Has(config, db)
         /\ added = {[db |-> db, source |-> "repository", repo |-> r]}
  OBVIOUS
<1>6. db # None => Has(config, db) \/ added # {}
  OBVIOUS
<1>7. stores = Released(config.stores, r, dropped) \cup added
  OBVIOUS
<1>. HIDE DEF new, added, dropped, stores, repos
<1>2. /\ WithRepository(config, r, db).stores = stores
      /\ WithRepository(config, r, db).repos = repos
  BY <1>1, ReplacedFields
<1>8. Attached(config, WithRepository(config, r, db), r, db, dropped, added)
  BY <1>2, <1>3, <1>4, <1>5, <1>6, <1>7 DEF Attached
<1>. QED
  BY <1>8

LEMMA WithRepositoryLinked ==
    ASSUME NEW config \in WorkspaceConfig, Linked(config), NEW r \in Repositories,
           NEW db \in Databases \cup {None}
    PROVE  Linked(WithRepository(config, r, db))
<1>. DEFINE next == WithRepository(config, r, db)
<1>1. PICK dbs, added : Attached(config, next, r, db, dbs, added)
  BY WithRepositoryParts
<1>2. config.stores \in SUBSET Store
  BY ConfigType
<1>. HIDE DEF next
<1>3. \A s \in config.stores : \E z \in next.stores : z.db = s.db
  BY <1>1, <1>2, ReleasedFacts DEF Attached
<1>4. db # None => \E z \in next.stores : z.db = db
  <2>1. CASE Has(config, db)
    <3>1. \E s \in config.stores : s.db = db
      BY <2>1 DEF Has, StoreOf
    <3>. QED
      BY <1>3, <3>1
  <2>2. CASE added = {[db |-> db, source |-> "repository", repo |-> r]}
    <3>1. [db |-> db, source |-> "repository", repo |-> r] \in next.stores
      BY <1>1, <2>2 DEF Attached
    <3>. QED
      BY <3>1
  <2>. QED
    BY <1>1, <2>1, <2>2 DEF Attached
<1>5. \A q \in DOMAIN next.repos :
        next.repos[q] # None => \E z \in next.stores : z.db = next.repos[q]
  BY <1>1, <1>3, <1>4 DEF Linked, Attached
<1>6. \A s \in next.stores : s \in Released(config.stores, r, dbs)
                             \/ s = [db |-> db, source |-> "repository", repo |-> r]
  BY <1>1 DEF Attached
<1>7. ASSUME NEW s \in Released(config.stores, r, dbs)
      PROVE  /\ s.source = "repository" <=> s.repo # None
             /\ s.repo # None => s.repo \in DOMAIN next.repos
  BY <1>1, <1>2, <1>7, ReleasedFacts DEF Linked, Attached
<1>8. ASSUME NEW s, s = [db |-> db, source |-> "repository", repo |-> r]
      PROVE  /\ s.source = "repository" <=> s.repo # None
             /\ s.repo # None => s.repo \in DOMAIN next.repos
  BY <1>1, <1>8, NoneAssumption DEF Attached
<1>9. Linked(next)
  BY <1>5, <1>6, <1>7, <1>8 DEF Linked
<1>. QED
  BY <1>9 DEF next

LEMMA WithoutRepositoryLinked ==
    ASSUME NEW config \in WorkspaceConfig, Linked(config), NEW r \in Repositories
    PROVE  Linked(WithoutRepository(config, r))
<1>. DEFINE stores == Released(config.stores, r, Databases)
            repos == [q \in DOMAIN config.repos \ {r} |-> config.repos[q]]
            next == WithoutRepository(config, r)
<1>1. next = Replace(config, stores, repos)
  BY DEF WithoutRepository, Replace
<1>2. /\ DOMAIN repos = DOMAIN config.repos \ {r}
      /\ \A q \in DOMAIN repos : repos[q] = config.repos[q]
  OBVIOUS
<1>3. config.stores \in SUBSET Store
  BY ConfigType
<1>4. \A s \in config.stores : \E z \in stores : z.db = s.db
  BY <1>3, ReleasedFacts
<1>5. \A z \in stores :
        \/ z \in config.stores /\ z.repo # r
        \/ z.source = "external" /\ z.repo = None
  BY <1>3, ReleasedFacts DEF Store
<1>. HIDE DEF stores, repos, next
<1>6. next.stores = stores /\ next.repos = repos
  BY <1>1, ReplacedFields
<1>7. \A q \in DOMAIN next.repos :
        next.repos[q] # None => \E z \in next.stores : z.db = next.repos[q]
  BY <1>2, <1>4, <1>6 DEF Linked
<1>8. \A s \in next.stores :
        /\ s.source = "repository" <=> s.repo # None
        /\ s.repo # None => s.repo \in DOMAIN next.repos
  BY <1>2, <1>5, <1>6 DEF Linked
<1>9. Linked(next)
  BY <1>7, <1>8 DEF Linked
<1>. QED
  BY <1>9 DEF next

LEMMA WithStoreFields ==
    ASSUME NEW config \in WorkspaceConfig, NEW db \in Databases
    PROVE  /\ WithStore(config, db).stores
                = config.stores \cup {[db |-> db, source |-> "external", repo |-> None]}
           /\ WithStore(config, db).repos = config.repos
<1>. DEFINE more == config.stores \cup {[db |-> db, source |-> "external", repo |-> None]}
<1>1. WorkspaceConfig = [archived: BOOLEAN, stores: SUBSET Store, repos: Links]
  BY DEF WorkspaceConfig, Links
<1>2. /\ [config EXCEPT !.stores = more].stores = more
      /\ [config EXCEPT !.stores = more].repos = config.repos
  BY <1>1
<1>. QED
  BY <1>2 DEF WithStore

LEMMA WithStoreLinked ==
    ASSUME NEW config \in WorkspaceConfig, Linked(config), NEW db \in Databases
    PROVE  Linked(WithStore(config, db))
  BY WithStoreFields DEF Linked

LEMMA WithoutStoreFields ==
    ASSUME NEW config \in WorkspaceConfig, NEW db \in Databases
    PROVE  /\ WithoutStore(config, db).stores = {s \in config.stores : s.db # db}
           /\ DOMAIN WithoutStore(config, db).repos = DOMAIN config.repos
           /\ \A q \in DOMAIN config.repos : WithoutStore(config, db).repos[q]
                = IF config.repos[q] = db THEN None ELSE config.repos[q]
<1>. DEFINE stores == {s \in config.stores : s.db # db}
            repos == [q \in DOMAIN config.repos |->
                         IF config.repos[q] = db THEN None ELSE config.repos[q]]
<1>1. WithoutStore(config, db) = Replace(config, stores, repos)
  BY DEF WithoutStore, Replace
<1>2. /\ DOMAIN repos = DOMAIN config.repos
      /\ \A q \in DOMAIN config.repos :
            repos[q] = IF config.repos[q] = db THEN None ELSE config.repos[q]
  OBVIOUS
<1>3. stores = {s \in config.stores : s.db # db}
  OBVIOUS
<1>. HIDE DEF stores, repos
<1>4. WithoutStore(config, db).stores = stores /\ WithoutStore(config, db).repos = repos
  BY <1>1, ReplacedFields
<1>. QED
  BY <1>2, <1>3, <1>4

LEMMA WithoutStoreLinked ==
    ASSUME NEW config \in WorkspaceConfig, Linked(config), NEW db \in Databases
    PROVE  Linked(WithoutStore(config, db))
  BY WithoutStoreFields DEF Linked

LEMMA NewWorkspaceLinked ==
    ASSUME NEW w \in Workspaces, NEW owned \in BOOLEAN
    PROVE  Linked(NewWorkspace(w, owned))
  BY NoConfig DEF NewWorkspace, Linked

\* What archiving leaves alone.
LEMMA ArchivedFields ==
    ASSUME IsAppConfig(mem), NEW w \in DOMAIN mem, NEW v \in DOMAIN mem
    PROVE  /\ [mem EXCEPT ![w].archived = TRUE][v].stores = mem[v].stores
           /\ [mem EXCEPT ![w].archived = TRUE][v].repos = mem[v].repos
<1>1. WorkspaceConfig = [archived: BOOLEAN, stores: SUBSET Store, repos: Links]
  BY DEF WorkspaceConfig, Links
<1>2. mem[w] \in [archived: BOOLEAN, stores: SUBSET Store, repos: Links]
  BY <1>1 DEF IsAppConfig
<1>3. /\ [mem[w] EXCEPT !.archived = TRUE].stores = mem[w].stores
      /\ [mem[w] EXCEPT !.archived = TRUE].repos = mem[w].repos
  BY <1>2
<1>. QED
  BY <1>3 DEF IsAppConfig

LEMMA DerivedLinks ==
    ASSUME IsAppConfig(mem), LinksResolveIn(mem), NEW next, Derived(next)
    PROVE  LinksResolveIn(next)
<1>1. \A w \in DOMAIN mem : w \in Workspaces /\ mem[w] \in WorkspaceConfig /\ Linked(mem[w])
  BY LinkedAll DEF IsAppConfig
<1>2. ASSUME NEW w \in Workspaces, NEW entry \in WorkspaceConfig, Linked(entry)
      PROVE  LinksResolveIn(With(mem, w, entry))
  <2>1. /\ DOMAIN With(mem, w, entry) = DOMAIN mem \cup {w}
        /\ With(mem, w, entry)[w] = entry
        /\ \A v \in DOMAIN mem \ {w} : With(mem, w, entry)[v] = mem[v]
    BY <1>2, WithType
  <2>2. \A v \in DOMAIN With(mem, w, entry) : Linked(With(mem, w, entry)[v])
    BY <1>1, <1>2, <2>1
  <2>. QED
    BY <2>2, LinkedAll
<1>3. CASE \E w \in Workspaces, owned \in BOOLEAN :
             next = With(mem, w, NewWorkspace(w, owned))
  BY <1>2, <1>3, NewWorkspaceType, NewWorkspaceLinked
<1>4. CASE \E w \in DOMAIN mem, r \in Repositories, db \in Databases \cup {None} :
             next = With(mem, w, WithRepository(mem[w], r, db))
  BY <1>1, <1>2, <1>4, WithRepositoryType, WithRepositoryLinked
<1>5. CASE \E w \in DOMAIN mem, r \in Repositories :
             next = With(mem, w, WithoutRepository(mem[w], r))
  BY <1>1, <1>2, <1>5, WithoutRepositoryType, WithoutRepositoryLinked
<1>6. CASE \E w \in DOMAIN mem, db \in Databases : next = With(mem, w, WithStore(mem[w], db))
  BY <1>1, <1>2, <1>6, WithStoreType, WithStoreLinked
<1>7. CASE \E w \in DOMAIN mem, db \in Databases :
             next = With(mem, w, WithoutStore(mem[w], db))
  BY <1>1, <1>2, <1>7, WithoutStoreType, WithoutStoreLinked
<1>8. ASSUME NEW w \in DOMAIN mem, next = [mem EXCEPT ![w].archived = TRUE]
      PROVE  LinksResolveIn(next)
  <2>1. DOMAIN next = DOMAIN mem
    BY <1>8
  <2>2. \A v \in DOMAIN mem : Linked(next[v])
    BY <1>1, <1>8, ArchivedFields DEF Linked
  <2>. QED
    BY <2>1, <2>2, LinkedAll
<1>. QED
  BY <1>3, <1>4, <1>5, <1>6, <1>7, <1>8 DEF Derived

\* Whatever holds of the configurations, and of one derived, holds after a step.
LEMMA ConfigSteps ==
    ASSUME TypeInv, [Next]_vars
    PROVE  \/ mem' \in {mem, disk, <<>>} /\ disk' = disk
           \/ \E next : Derived(next) /\ Saves(next)
<1>1. CASE Start \/ Crash
  BY <1>1 DEF Start, Crash
<1>2. CASE \E t \in Threads : Begin(t) \/ Proceed(t)
  BY <1>2, ThreadSaves DEF files
<1>3. CASE UNCHANGED vars
  BY <1>3 DEF vars, files
<1>. QED
  BY <1>1, <1>2, <1>3 DEF Next

LEMMA LinksStep == TypeInv /\ LinksResolve /\ [Next]_vars => LinksResolve'
<1>. SUFFICES ASSUME TypeInv, LinksResolve, [Next]_vars PROVE LinksResolve'
  OBVIOUS
<1>1. LinksResolveIn(<<>>)
  BY NoConfig DEF LinksResolveIn
<1>2. CASE mem' \in {mem, disk, <<>>} /\ disk' = disk
  BY <1>1, <1>2 DEF LinksResolve
<1>3. ASSUME NEW next, Derived(next), Saves(next) PROVE LinksResolve'
  <2>1. LinksResolveIn(next)
    BY <1>3, DerivedLinks DEF TypeInv, RegistryTypeOK, LinksResolve
  <2>. QED
    BY <1>3, <2>1 DEF Saves, LinksResolve
<1>. QED
  BY <1>2, <1>3, ConfigSteps

(* In every configuration that memory or config.json ever holds, the store *)
(* a repository names is attached and the repository of a store too.       *)
THEOREM LinksAlwaysResolve == Spec => []LinksResolve
<1>1. Init => LinksResolve
  BY NoConfig DEF Init, LinksResolve, LinksResolveIn
<1>. QED
  BY <1>1, LinksStep, TypeInvariant, PTL DEF Spec

-----------------------------------------------------------------------------
(* One owner                                                               *)

\* The databases that a workspace lists and that clients attached, and that it lists
\* each of them once.
Clients(config) == {s.db : s \in {z \in config.stores : z.source # "owned"}}
Sole(config) ==
    \A s, z \in config.stores :
        s.db = z.db /\ s.source # "owned" /\ z.source # "owned" => s = z

LEMMA Owners ==
    ASSUME NEW config
    PROVE  OneOwnerIn(config) <=>
             /\ \A w \in DOMAIN config : Sole(config[w])
             /\ \A v, w \in DOMAIN config :
                    v # w => Clients(config[v]) \cap Clients(config[w]) = {}
  BY SMTT(30) DEF OneOwnerIn, Sole, Clients

\* A workspace whose new entry takes only databases it had, or that nobody lists.
LEMMA WithOwner ==
    ASSUME IsAppConfig(mem), OneOwnerIn(mem), NEW w \in Workspaces,
           NEW entry \in WorkspaceConfig, Sole(entry),
           \A db \in Clients(entry) :
                (w \in DOMAIN mem /\ db \in Clients(mem[w])) \/ Holders(db) = {}
    PROVE  OneOwnerIn(With(mem, w, entry))
<1>. DEFINE next == With(mem, w, entry)
<1>1. /\ DOMAIN next = DOMAIN mem \cup {w}
      /\ next[w] = entry
      /\ \A v \in DOMAIN mem \ {w} : next[v] = mem[v]
  BY WithType
<1>. HIDE DEF next
<1>2. \A v \in DOMAIN next : Sole(next[v])
  BY <1>1, Owners
<1>3. \A v \in DOMAIN mem \ {w} : Clients(mem[v]) \cap Clients(entry) = {}
  <2>1. SUFFICES ASSUME NEW v \in DOMAIN mem \ {w}, NEW db \in Clients(mem[v]),
                        db \in Clients(entry)
                 PROVE  FALSE
    OBVIOUS
  <2>2. v \in Holders(db)
    BY <2>1 DEF Holders, Has, StoreOf, Clients
  <2>3. w \in DOMAIN mem /\ db \in Clients(mem[w])
    BY <2>1, <2>2
  <2>. QED
    BY <2>1, <2>3, Owners
<1>4. \A u, v \in DOMAIN next : u # v => Clients(next[u]) \cap Clients(next[v]) = {}
  BY <1>1, <1>3, Owners
<1>5. OneOwnerIn(next)
  BY <1>2, <1>4, Owners
<1>. QED
  BY <1>5 DEF next

\* Released stores were attached by clients, and are the same for the same database.
LEMMA ReleasedSole ==
    ASSUME NEW config \in WorkspaceConfig, Linked(config), Sole(config),
           NEW r \in Repositories, NEW dbs,
           NEW s \in Released(config.stores, r, dbs), s.source # "owned"
    PROVE  /\ s \in Store /\ s.db \in Clients(config)
           /\ \A z \in Released(config.stores, r, dbs) :
                z.source # "owned" /\ z.db = s.db => z = s
<1>1. config.stores \in SUBSET Store
  BY ConfigType
<1>2. \A z \in Released(config.stores, r, dbs) : z \in Store
  BY <1>1, ReleasedType
<1>3. \A z \in Released(config.stores, r, dbs) : z.source # "owned" =>
        \/ /\ z \in config.stores /\ ~(z.repo = r /\ z.db \in dbs)
        \/ /\ z.source = "external" /\ z.repo = None
           /\ \E y \in config.stores :
                y.db = z.db /\ y.repo = r /\ y.db \in dbs /\ y.source # "owned"
  BY <1>1, ReleasedFacts, NoneAssumption DEF Linked
<1>4. s.db \in Clients(config)
  BY <1>3 DEF Clients
<1>5. ASSUME NEW z \in Released(config.stores, r, dbs), z.source # "owned", z.db = s.db
      PROVE  z = s
  <2>1. CASE z \in config.stores /\ s \in config.stores
    BY <1>5, <2>1 DEF Sole
  <2>2. CASE z.source = "external" /\ z.repo = None /\ s.source = "external" /\ s.repo = None
    BY <1>2, <1>5, <2>2 DEF Store
  <2>3. CASE /\ z \in config.stores /\ ~(z.repo = r /\ z.db \in dbs)
             /\ \E y \in config.stores :
                  y.db = s.db /\ y.repo = r /\ y.db \in dbs /\ y.source # "owned"
    BY <1>5, <2>3 DEF Sole
  <2>4. CASE /\ s \in config.stores /\ ~(s.repo = r /\ s.db \in dbs)
             /\ \E y \in config.stores :
                  y.db = z.db /\ y.repo = r /\ y.db \in dbs /\ y.source # "owned"
    BY <1>5, <2>4 DEF Sole
  <2>. QED
    BY <1>3, <1>5, <2>1, <2>2, <2>3, <2>4
<1>. QED
  BY <1>2, <1>4, <1>5

LEMMA WithRepositorySole ==
    ASSUME NEW config \in WorkspaceConfig, Linked(config), Sole(config),
           NEW r \in Repositories, NEW db \in Databases \cup {None}
    PROVE  /\ Sole(WithRepository(config, r, db))
           /\ \A d \in Clients(WithRepository(config, r, db)) :
                d \in Clients(config) \/ (d = db /\ ~Has(config, db))
<1>. DEFINE next == WithRepository(config, r, db)
            new == [db |-> db, source |-> "repository", repo |-> r]
<1>1. PICK dbs, added : Attached(config, next, r, db, dbs, added)
  BY WithRepositoryParts
<1>. HIDE DEF next, new
<1>2. \A s \in next.stores : s.source # "owned" =>
        \/ s \in Released(config.stores, r, dbs) /\ s.db \in Clients(config)
        \/ s = new /\ s.db = db /\ ~Has(config, db)
  <2>1. next.stores = Released(config.stores, r, dbs) \cup added
    BY <1>1 DEF Attached
  <2>2. added = {} \/ (~Has(config, db) /\ added = {new})
    <3>1. \/ added = {}
          \/ /\ ~Has(config, db)
             /\ added = {[db |-> db, source |-> "repository", repo |-> r]}
      BY <1>1, Zenon DEF Attached
    <3>. QED
      BY <3>1, Zenon DEF new
  <2>3. \A s \in next.stores :
          s \in Released(config.stores, r, dbs) \/ (s = new /\ ~Has(config, db))
    BY <2>1, <2>2
  <2>4. \A s \in Released(config.stores, r, dbs) :
          s.source # "owned" => s.db \in Clients(config)
    BY ReleasedSole
  <2>5. new.db = db
    BY DEF new
  <2>. QED
    BY <2>3, <2>4, <2>5
<1>3. \A d \in Clients(config) : d = db => Has(config, db)
  BY DEF Clients, Has, StoreOf
<1>4. Sole(next)
  <2>1. SUFFICES ASSUME NEW s \in next.stores, NEW z \in next.stores,
                        s.db = z.db, s.source # "owned", z.source # "owned"
                 PROVE  s = z
    BY DEF Sole
  <2>2. \/ s \in Released(config.stores, r, dbs) /\ s.db \in Clients(config)
        \/ s = new /\ s.db = db /\ ~Has(config, db)
    BY <1>2, <2>1
  <2>3. \/ z \in Released(config.stores, r, dbs) /\ z.db \in Clients(config)
        \/ z = new /\ z.db = db /\ ~Has(config, db)
    BY <1>2, <2>1
  <2>4. CASE s \in Released(config.stores, r, dbs) /\ z \in Released(config.stores, r, dbs)
    BY <2>1, <2>4, ReleasedSole
  <2>5. CASE s = new /\ z = new
    BY <2>5
  <2>. QED
    BY <1>3, <2>1, <2>2, <2>3, <2>4, <2>5
<1>5. \A d \in Clients(next) : d \in Clients(config) \/ (d = db /\ ~Has(config, db))
  <2>1. SUFFICES ASSUME NEW s \in next.stores, s.source # "owned"
                 PROVE  s.db \in Clients(config) \/ (s.db = db /\ ~Has(config, db))
    BY DEF Clients
  <2>. QED
    BY <1>2, <2>1
<1>. QED
  BY <1>4, <1>5 DEF next

LEMMA WithoutRepositorySole ==
    ASSUME NEW config \in WorkspaceConfig, Linked(config), Sole(config),
           NEW r \in Repositories
    PROVE  /\ Sole(WithoutRepository(config, r))
           /\ Clients(WithoutRepository(config, r)) \subseteq Clients(config)
<1>. DEFINE stores == Released(config.stores, r, Databases)
            repos == [q \in DOMAIN config.repos \ {r} |-> config.repos[q]]
<1>1. WithoutRepository(config, r) = Replace(config, stores, repos)
  BY DEF WithoutRepository, Replace
<1>. HIDE DEF repos
<1>2. WithoutRepository(config, r).stores = stores
  BY <1>1, ReplacedFields
<1>3. ASSUME NEW s \in stores, s.source # "owned"
      PROVE  /\ s.db \in Clients(config)
             /\ \A z \in stores : z.source # "owned" /\ z.db = s.db => z = s
  BY <1>3, ReleasedSole
<1>. HIDE DEF stores
<1>4. Sole(WithoutRepository(config, r))
  BY <1>2, <1>3 DEF Sole
<1>5. Clients(WithoutRepository(config, r)) \subseteq Clients(config)
  BY <1>2, <1>3 DEF Clients
<1>. QED
  BY <1>4, <1>5

LEMMA DerivedOwner ==
    ASSUME IsAppConfig(mem), LinksResolveIn(mem), OneOwnerIn(mem), NEW next, Derived(next)
    PROVE  OneOwnerIn(next)
<1>1. \A w \in DOMAIN mem : /\ w \in Workspaces /\ mem[w] \in WorkspaceConfig
                            /\ Linked(mem[w]) /\ Sole(mem[w])
  BY LinkedAll, Owners DEF IsAppConfig
<1>2. ASSUME NEW w \in Workspaces, NEW owned \in BOOLEAN,
             next = With(mem, w, NewWorkspace(w, owned))
      PROVE  OneOwnerIn(next)
  <2>1. Sole(NewWorkspace(w, owned)) /\ Clients(NewWorkspace(w, owned)) = {}
    BY DEF NewWorkspace, Sole, Clients
  <2>. QED
    BY <1>2, <2>1, NewWorkspaceType, WithOwner
<1>3. ASSUME NEW w \in DOMAIN mem, NEW r \in Repositories, NEW db \in Databases \cup {None},
             FreeFor(db, w), next = With(mem, w, WithRepository(mem[w], r, db))
      PROVE  OneOwnerIn(next)
  <2>1. ~Has(mem[w], db) => Holders(db) = {}
    BY <1>3 DEF FreeFor, Holders
  <2>2. \A d \in Clients(WithRepository(mem[w], r, db)) :
            (w \in DOMAIN mem /\ d \in Clients(mem[w])) \/ Holders(d) = {}
    BY <1>1, <1>3, <2>1, WithRepositorySole
  <2>. QED
    BY <1>1, <1>3, <2>2, WithRepositorySole, WithRepositoryType, WithOwner
<1>4. ASSUME NEW w \in DOMAIN mem, NEW r \in Repositories,
             next = With(mem, w, WithoutRepository(mem[w], r))
      PROVE  OneOwnerIn(next)
  BY <1>1, <1>4, WithoutRepositorySole, WithoutRepositoryType, WithOwner
<1>5. ASSUME NEW w \in DOMAIN mem, NEW db \in Databases, Holders(db) = {},
             next = With(mem, w, WithStore(mem[w], db))
      PROVE  OneOwnerIn(next)
  <2>1. \A s \in mem[w].stores : s.db # db
    BY <1>5 DEF Holders, Has, StoreOf
  <2>2. Sole(WithStore(mem[w], db))
    BY <1>1, <2>1, WithStoreFields DEF Sole
  <2>3. \A d \in Clients(WithStore(mem[w], db)) : d \in Clients(mem[w]) \/ d = db
    BY <1>1, WithStoreFields DEF Clients
  <2>. QED
    BY <1>1, <1>5, <2>2, <2>3, WithStoreType, WithOwner
<1>6. ASSUME NEW w \in DOMAIN mem, NEW db \in Databases,
             next = With(mem, w, WithoutStore(mem[w], db))
      PROVE  OneOwnerIn(next)
  <2>1. /\ Sole(WithoutStore(mem[w], db))
        /\ Clients(WithoutStore(mem[w], db)) \subseteq Clients(mem[w])
    BY <1>1, WithoutStoreFields DEF Sole, Clients
  <2>. QED
    BY <1>1, <1>6, <2>1, WithoutStoreType, WithOwner
<1>7. ASSUME NEW w \in DOMAIN mem, next = [mem EXCEPT ![w].archived = TRUE]
      PROVE  OneOwnerIn(next)
  <2>1. DOMAIN next = DOMAIN mem
    BY <1>7
  <2>2. \A v \in DOMAIN mem : next[v].stores = mem[v].stores
    BY <1>7, ArchivedFields
  <2>. QED
    BY <2>1, <2>2 DEF OneOwnerIn
<1>. QED
  BY <1>2, <1>3, <1>4, <1>5, <1>6, <1>7 DEF Derived

LEMMA OwnerStep == TypeInv /\ LinksResolve /\ OneOwner /\ [Next]_vars => OneOwner'
<1>. SUFFICES ASSUME TypeInv, LinksResolve, OneOwner, [Next]_vars PROVE OneOwner'
  OBVIOUS
<1>1. OneOwnerIn(<<>>)
  BY NoConfig DEF OneOwnerIn
<1>2. CASE mem' \in {mem, disk, <<>>} /\ disk' = disk
  BY <1>1, <1>2 DEF OneOwner
<1>3. ASSUME NEW next, Derived(next), Saves(next) PROVE OneOwner'
  <2>1. OneOwnerIn(next)
    BY <1>3, DerivedOwner DEF TypeInv, RegistryTypeOK, LinksResolve, OneOwner
  <2>. QED
    BY <1>3, <2>1 DEF Saves, OneOwner
<1>. QED
  BY <1>2, <1>3, ConfigSteps

(* No database that clients attached is listed by two workspaces that      *)
(* attached it, archived ones included, in memory or in config.json, for   *)
(* every interleaving of attachments that fail, and after every restart.   *)
THEOREM DatabaseHasOneOwner == Spec => []OneOwner
<1>1. Init => OneOwner
  BY NoConfig DEF Init, OneOwner, OneOwnerIn
<1>. QED
  BY <1>1, OwnerStep, LinksAlwaysResolve, TypeInvariant, PTL DEF Spec

=============================================================================
