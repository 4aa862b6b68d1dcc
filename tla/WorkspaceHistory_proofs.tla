----------------------- MODULE WorkspaceHistory_proofs -----------------------
(***************************************************************************)
(* Proofs about WorkspaceRegistry that relate the configuration to what    *)
(* clients were told: attachments that were acknowledged stay, workspaces  *)
(* that were archived stay archived, and what a served workspace lists has *)
(* a lock.  They rest on the ids of new workspaces, which nobody else has. *)
(***************************************************************************)
EXTENDS WorkspaceRegistry_proofs

Dbs(config) == {s.db : s \in config.stores}
Lists(config, w, db) == w \in DOMAIN config /\ db \in Dbs(config[w])
Archived(config, w) == w \in DOMAIN config /\ config[w].archived

\* next is memory with another entry for w, which lists what w listed but for less, at
\* most more besides, and stays archived if it was.
Alters(next, w, less, more) ==
    /\ DOMAIN next = DOMAIN mem \cup {w}
    /\ \A v \in DOMAIN mem \ {w} : next[v] = mem[v]
    /\ \A db : Lists(mem, w, db) /\ db \notin less => Lists(next, w, db)
    /\ \A db : Lists(next, w, db) => Lists(mem, w, db) \/ db \in more
    /\ Archived(mem, w) => Archived(next, w)

\* The same for the entry alone.
Amends(config, entry, less, more) ==
    /\ Dbs(config) \ less \subseteq Dbs(entry)
    /\ Dbs(entry) \subseteq Dbs(config) \cup more
    /\ entry.archived = config.archived

-----------------------------------------------------------------------------
(* What each operation makes of the entry of a workspace.                  *)

LEMMA ReplacedFlag ==
    ASSUME NEW config \in WorkspaceConfig, NEW stores, NEW repos
    PROVE  Replace(config, stores, repos).archived = config.archived
<1>1. ASSUME NEW X, NEW Y, NEW Z, NEW c \in [archived: X, stores: Y, repos: Z]
      PROVE  [c EXCEPT !.stores = stores, !.repos = repos].archived = c.archived
  OBVIOUS
<1>2. config \in [archived: BOOLEAN, stores: SUBSET Store, repos: Links]
  BY DEF WorkspaceConfig, Links
<1>. QED
  BY <1>1, <1>2 DEF Replace

LEMMA ReleasedDbs ==
    ASSUME NEW config \in WorkspaceConfig, NEW r \in Repositories, NEW dbs
    PROVE  {s.db : s \in Released(config.stores, r, dbs)} = Dbs(config)
<1>1. config.stores \in SUBSET Store
  BY ConfigType
<1>2. /\ \A s \in config.stores : \E z \in Released(config.stores, r, dbs) : z.db = s.db
      /\ \A z \in Released(config.stores, r, dbs) : \E s \in config.stores : s.db = z.db
  BY <1>1, ReleasedFacts
<1>. QED
  BY <1>2 DEF Dbs

LEMMA WithRepositoryAmends ==
    ASSUME NEW config \in WorkspaceConfig, NEW r \in Repositories,
           NEW db \in Databases \cup {None}
    PROVE  /\ Amends(config, WithRepository(config, r, db), {}, {db} \ {None})
           /\ db # None => /\ db \in Dbs(WithRepository(config, r, db))
                           /\ WithRepository(config, r, db).repos[r] = db
<1>. DEFINE next == WithRepository(config, r, db)
<1>1. PICK dbs, added : Attached(config, next, r, db, dbs, added)
  BY WithRepositoryParts
<1>2. next.archived = config.archived
  <2>1. \E stores, repos : next = Replace(config, stores, repos)
    BY DEF WithRepository, Replace
  <2>. QED
    BY <2>1, ReplacedFlag
<1>3. db # None => next.repos[r] = db
  BY DEF WithRepository, WorkspaceConfig
<1>. HIDE DEF next
<1>4. Dbs(next) = Dbs(config) \cup {s.db : s \in added}
  <2>1. next.stores = Released(config.stores, r, dbs) \cup added
    BY <1>1 DEF Attached
  <2>2. {s.db : s \in Released(config.stores, r, dbs)} = Dbs(config)
    BY ReleasedDbs
  <2>. QED
    BY <2>1, <2>2 DEF Dbs
<1>5. \/ added = {}
      \/ db # None /\ ~Has(config, db) /\ {s.db : s \in added} = {db}
  <2>1. ASSUME added = {[db |-> db, source |-> "repository", repo |-> r]}
        PROVE  {s.db : s \in added} = {db}
    BY <2>1
  <2>2. \/ added = {}
        \/ /\ db # None /\ ~Has(config, db)
           /\ added = {[db |-> db, source |-> "repository", repo |-> r]}
    BY <1>1, Zenon DEF Attached
  <2>. QED
    BY <2>1, <2>2
<1>6. Has(config, db) => db \in Dbs(config)
  BY DEF Has, StoreOf, Dbs
<1>7. db # None => Has(config, db) \/ added # {}
  BY <1>1, Zenon DEF Attached
<1>8. {s.db : s \in added} \subseteq {db} \ {None}
  BY <1>5
<1>9. Amends(config, next, {}, {db} \ {None})
  BY <1>2, <1>4, <1>8 DEF Amends
<1>10. db # None => db \in Dbs(next)
  BY <1>4, <1>5, <1>6, <1>7
<1>11. db # None => next.repos[r] = db
  BY <1>3
<1>. QED
  BY <1>9, <1>10, <1>11 DEF next

LEMMA WithoutRepositoryAmends ==
    ASSUME NEW config \in WorkspaceConfig, NEW r \in Repositories
    PROVE  Amends(config, WithoutRepository(config, r), {}, {})
<1>. DEFINE stores == Released(config.stores, r, Databases)
            repos == [q \in DOMAIN config.repos \ {r} |-> config.repos[q]]
<1>1. WithoutRepository(config, r) = Replace(config, stores, repos)
  BY DEF WithoutRepository, Replace
<1>. HIDE DEF repos
<1>2. /\ WithoutRepository(config, r).stores = stores
      /\ WithoutRepository(config, r).archived = config.archived
  BY <1>1, ReplacedFields, ReplacedFlag
<1>3. {s.db : s \in stores} = Dbs(config)
  BY ReleasedDbs
<1>. HIDE DEF stores
<1>. QED
  BY <1>2, <1>3 DEF Amends, Dbs

LEMMA WithStoreAmends ==
    ASSUME NEW config \in WorkspaceConfig, NEW db \in Databases
    PROVE  Amends(config, WithStore(config, db), {}, {db}) /\ db \in Dbs(WithStore(config, db))
<1>1. WithStore(config, db).stores
        = config.stores \cup {[db |-> db, source |-> "external", repo |-> None]}
  BY WithStoreFields
<1>2. WithStore(config, db).archived = config.archived
  <2>1. ASSUME NEW X, NEW Y, NEW Z, NEW c \in [archived: X, stores: Y, repos: Z], NEW more
        PROVE  [c EXCEPT !.stores = more].archived = c.archived
    OBVIOUS
  <2>2. config \in [archived: BOOLEAN, stores: SUBSET Store, repos: Links]
    BY DEF WorkspaceConfig, Links
  <2>. QED
    BY <2>1, <2>2 DEF WithStore
<1>3. Dbs(WithStore(config, db)) = Dbs(config) \cup {db}
  <2>. DEFINE new == [db |-> db, source |-> "external", repo |-> None]
  <2>1. new.db = db
    OBVIOUS
  <2>. HIDE DEF new
  <2>2. {s.db : s \in config.stores \cup {new}} = {s.db : s \in config.stores} \cup {db}
    BY <2>1
  <2>. QED
    BY <1>1, <2>2 DEF Dbs, new
<1>. QED
  BY <1>2, <1>3 DEF Amends

LEMMA WithoutStoreAmends ==
    ASSUME NEW config \in WorkspaceConfig, NEW db \in Databases
    PROVE  Amends(config, WithoutStore(config, db), {db}, {})
<1>1. WithoutStore(config, db).stores = {s \in config.stores : s.db # db}
  BY WithoutStoreFields
<1>2. WithoutStore(config, db).archived = config.archived
  <2>1. \E stores, repos : WithoutStore(config, db) = Replace(config, stores, repos)
    BY DEF WithoutStore, Replace
  <2>. QED
    BY <2>1, ReplacedFlag
<1>3. Dbs(WithoutStore(config, db)) = Dbs(config) \ {db}
  BY <1>1 DEF Dbs
<1>. QED
  BY <1>2, <1>3 DEF Amends

\* A new entry that amends the old one alters the configuration.
LEMMA AmendsAlters ==
    ASSUME IsAppConfig(mem), NEW w \in DOMAIN mem, NEW entry \in WorkspaceConfig,
           NEW less, NEW more, Amends(mem[w], entry, less, more)
    PROVE  /\ Alters(With(mem, w, entry), w, less, more)
           /\ Archived(With(mem, w, entry), w) => Archived(mem, w)
<1>. DEFINE next == With(mem, w, entry)
<1>1. /\ DOMAIN next = DOMAIN mem \cup {w}
      /\ next[w] = entry
      /\ \A v \in DOMAIN mem \ {w} : next[v] = mem[v]
  BY DEF With
<1>. HIDE DEF next
<1>2. Alters(next, w, less, more) /\ (Archived(next, w) => Archived(mem, w))
  BY <1>1 DEF Alters, Amends, Lists, Archived
<1>. QED
  BY <1>2 DEF next

LEMMA ArchiveAlters ==
    ASSUME IsAppConfig(mem), NEW w \in DOMAIN mem
    PROVE  /\ Alters([mem EXCEPT ![w].archived = TRUE], w, {}, {})
           /\ Archived([mem EXCEPT ![w].archived = TRUE], w)
<1>. DEFINE next == [mem EXCEPT ![w].archived = TRUE]
<1>1. DOMAIN next = DOMAIN mem /\ \A v \in DOMAIN mem \ {w} : next[v] = mem[v]
  OBVIOUS
<1>2. next[w].stores = mem[w].stores
  BY ArchivedFields
<1>3. next[w].archived
  <2>1. ASSUME NEW X, NEW Y, NEW Z, NEW c \in [archived: X, stores: Y, repos: Z]
        PROVE  [c EXCEPT !.archived = TRUE].archived
    OBVIOUS
  <2>2. mem[w] \in [archived: BOOLEAN, stores: SUBSET Store, repos: Links]
    BY DEF IsAppConfig, WorkspaceConfig, Links
  <2>3. next[w] = [mem[w] EXCEPT !.archived = TRUE]
    OBVIOUS
  <2>. QED
    BY <2>1, <2>2, <2>3
<1>. HIDE DEF next
<1>4. Alters(next, w, {}, {}) /\ Archived(next, w)
  BY <1>1, <1>2, <1>3 DEF Alters, Lists, Archived, Dbs
<1>. QED
  BY <1>4 DEF next

LEMMA CreateAlters ==
    ASSUME IsAppConfig(mem), NEW w \in Workspaces, w \notin DOMAIN mem, NEW owned \in BOOLEAN
    PROVE  LET next == With(mem, w, NewWorkspace(w, owned)) IN
           /\ Alters(next, w, {}, IF owned THEN {Owned[w]} ELSE {})
           /\ ~Archived(next, w)
<1>. DEFINE entry == NewWorkspace(w, owned)
            next == With(mem, w, entry)
<1>1. entry.archived = FALSE
  BY DEF NewWorkspace
<1>2. Dbs(entry) = IF owned THEN {Owned[w]} ELSE {}
  <2>1. entry.stores = IF owned THEN {[db |-> Owned[w], source |-> "owned", repo |-> None]}
                       ELSE {}
    BY DEF NewWorkspace
  <2>2. CASE owned
    <3>1. {s.db : s \in {[db |-> Owned[w], source |-> "owned", repo |-> None]}} = {Owned[w]}
      OBVIOUS
    <3>. QED
      BY <2>1, <2>2, <3>1 DEF Dbs
  <2>3. CASE ~owned
    BY <2>1, <2>3 DEF Dbs
  <2>. QED
    BY <2>2, <2>3
<1>. HIDE DEF entry
<1>3. /\ DOMAIN next = DOMAIN mem \cup {w}
      /\ next[w] = entry
      /\ \A v \in DOMAIN mem \ {w} : next[v] = mem[v]
  BY DEF With
<1>. HIDE DEF next
<1>4. Alters(next, w, {}, IF owned THEN {Owned[w]} ELSE {}) /\ ~Archived(next, w)
  BY <1>1, <1>2, <1>3 DEF Alters, Lists, Archived
<1>. QED
  BY <1>4 DEF next, entry

-----------------------------------------------------------------------------
(* What a request that rewrites the configuration does, whether its save   *)
(* fails or not.                                                           *)

\* What a save does to the file and to memory, and notes of what memory alone lists.
Notes(next) ==
    \/ mem' = next /\ disk' = next /\ unsaved' = unsaved \ Listed(next)
    \/ Saves(next) /\ unsaved' = unsaved \cup (Listed(mem') \ Listed(mem))

\* new: the databases that its answer says are attached; what it adds it did not put in
\* memory, or it has a lock, or it goes on to make its lock, or it notes that it has none.
Outcome(t, next, less, more, new) ==
    LET w == call[t].args.ws IN
    /\ w \in DOMAIN mem
    /\ Alters(next, w, less, more)
    /\ Archived(next, w) => Archived(mem, w) \/ workspace_archive(t)
    /\ Saves(next) /\ Notes(next) /\ (less = {} \/ mem' = next)
    /\ attached' \subseteq (attached \ ({w} \X less)) \cup ({w} \X new)
    /\ new = {} \/ ({w} \X new \subseteq Listed(next) /\ mem' = next /\ disk' = next)
    /\ \A db \in more : mem' = mem \/ store_locks[db] # 0 \/ db \in refused' \/ Lock(t, db)
    /\ refused \subseteq refused' /\ early \subseteq early'
    /\ UNCHANGED <<tables, retired>>

\* An answer that rests on memory, or an error.
Silent ==
    /\ UNCHANGED <<files, tables, refused, unsaved, retired, early>>
    /\ attached' \subseteq attached \cup Listed(mem)

LEMMA RequestFacts ==
    ASSUME TypeInv, NEW t \in Threads, call[t].phase # "idle"
    PROVE  /\ call[t].args.ws \in Workspaces /\ call[t].args.db \in Databases
           /\ call[t].args.repo \in Repositories
           /\ IsAppConfig(mem) /\ IsAppConfig(disk)
           /\ call[t].args.ws \in DOMAIN mem => mem[call[t].args.ws] \in WorkspaceConfig
  BY CallFact DEF TypeInv, Engaged, RegistryTypeOK, IsAppConfig

LEMMA SavedFact ==
    ASSUME NEW next, NEW kept \in {mem, next}, NEW ok, save(next, kept, ok)
    PROVE  /\ Saves(next) /\ Notes(next)
           /\ ok => mem' = next /\ disk' = next
           /\ ~ok => mem' = kept
  BY DEF save, Saves, Notes

LEMMA FailedSilently == ASSUME NEW t, Fail(t) PROVE Silent /\ Return(t)
  BY DEF Fail, Silent, files, tables, history, answers

LEMMA ArchiveOutcome ==
    ASSUME TypeInv, NEW t \in Threads, workspace_archive(t)
    PROVE  \/ Silent /\ Return(t)
           \/ /\ BeingMade(call[t].args.ws) => call[t].args.ws \in early'
              /\ \E next : /\ Outcome(t, next, {}, {}, {}) /\ mem' = next
                           /\ Archived(next, call[t].args.ws)
                           /\ Return(t) \/ disk' = next
<1>. DEFINE w == call[t].args.ws
            next == [mem EXCEPT ![w].archived = TRUE]
<1>1. CASE w \notin DOMAIN mem /\ Fail(t)
  BY <1>1, FailedSilently
<1>2. CASE ~(w \notin DOMAIN mem /\ Fail(t))
  <2>1. PICK ok \in BOOLEAN : w \in DOMAIN mem /\ save(next, next, ok) /\ (ok \/ Return(t))
    BY <1>2 DEF workspace_archive
  <2>2. IsAppConfig(mem)
    BY DEF TypeInv, RegistryTypeOK
  <2>3. Alters(next, w, {}, {}) /\ Archived(next, w)
    BY <2>1, <2>2, ArchiveAlters
  <2>4. /\ UNCHANGED <<tables, refused, attached, retired>> /\ early \subseteq early'
        /\ BeingMade(w) => w \in early'
    BY <1>2 DEF workspace_archive
  <2>. HIDE DEF next
  <2>5. Saves(next) /\ Notes(next) /\ mem' = next /\ (Return(t) \/ disk' = next)
    BY <2>1, SavedFact
  <2>6. Outcome(t, next, {}, {}, {})
    BY <2>1, <2>3, <2>4, <2>5 DEF Outcome
  <2>. QED
    BY <2>3, <2>4, <2>5, <2>6
<1>. QED
  BY <1>1, <1>2

LEMMA VisitOutcome ==
    ASSUME TypeInv, NEW t \in Threads, workspace_visit(t)
    PROVE  Silent \/ \E next : Outcome(t, next, {}, {}, {})
<1>1. CASE Fail(t)
  BY <1>1, FailedSilently
<1>2. CASE ~Fail(t)
  <2>1. PICK ok \in BOOLEAN : Active(call[t].args.ws) /\ save(mem, mem, ok)
    BY <1>2 DEF workspace_visit
  <2>2. Alters(mem, call[t].args.ws, {}, {}) /\ call[t].args.ws \in DOMAIN mem
    BY <2>1 DEF Active, Alters
  <2>3. Saves(mem) /\ Notes(mem)
    BY <2>1, SavedFact
  <2>4. UNCHANGED <<tables, answers>>
    BY <1>2 DEF workspace_visit
  <2>5. Outcome(t, mem, {}, {}, {})
    BY <2>2, <2>3, <2>4 DEF Outcome, answers
  <2>. QED
    BY <2>5
<1>. QED
  BY <1>1, <1>2

LEMMA RepositoryAttachOutcome ==
    ASSUME TypeInv, NEW t \in Threads, repository_attach(t)
    PROVE  Silent \/ \E next, more, new : Outcome(t, next, {}, more, new)
<1>. DEFINE w == call[t].args.ws
            r == call[t].args.repo
<1>1. /\ w \in Workspaces /\ r \in Repositories /\ IsAppConfig(mem)
      /\ w \in DOMAIN mem => mem[w] \in WorkspaceConfig
  BY RequestFacts DEF repository_attach, At
<1>2. CASE Fail(t)
  BY <1>2, FailedSilently
<1>3. CASE ~Fail(t)
  <2>1. PICK db \in Found[r] \cap (made \cup {None}), ok \in BOOLEAN :
          LET entry == WithRepository(mem[w], r, db)
              shown == {s.db : s \in StoreOf(entry, entry.repos[r])}
          IN /\ Active(w)
             /\ save(With(mem, w, entry), mem, ok)
             /\ IF ok /\ entry.repos[r] # None THEN Lock(t, entry.repos[r]) ELSE Return(t)
             /\ attached' = IF ok THEN attached \cup ({w} \X shown) ELSE attached
             /\ UNCHANGED <<made, up, tables, refused, retired, early>>
    BY <1>3 DEF repository_attach
  <2>. DEFINE entry == WithRepository(mem[w], r, db)
              next == With(mem, w, entry)
  <2>2. db \in Databases \cup {None}
    BY <1>1, FoundAssumption
  <2>3. w \in DOMAIN mem /\ mem[w] \in WorkspaceConfig
    BY <1>1, <2>1 DEF Active
  <2>4. /\ Amends(mem[w], entry, {}, {db} \ {None})
        /\ db # None => db \in Dbs(entry) /\ entry.repos[r] = db
        /\ entry \in WorkspaceConfig
    <3>1. entry \in WorkspaceConfig
      BY <1>1, <2>2, <2>3, WithRepositoryType
    <3>2. /\ Amends(mem[w], entry, {}, {db} \ {None})
          /\ db # None => db \in Dbs(entry) /\ entry.repos[r] = db
        BY ONLY <1>1, <2>2, <2>3, WithRepositoryAmends
    <3>. QED
      BY <3>1, <3>2
  <2>5. next[w] = entry /\ w \in DOMAIN next
    BY DEF With
  <2>6. /\ save(next, mem, ok)
        /\ ok /\ entry.repos[r] # None => Lock(t, entry.repos[r])
        /\ UNCHANGED <<tables, refused, retired, early>>
    BY <2>1
  <2>. DEFINE shown == {s.db : s \in StoreOf(entry, entry.repos[r])}
  <2>7. attached' = IF ok THEN attached \cup ({w} \X shown) ELSE attached
    BY <2>1
  <2>. HIDE DEF entry
  <2>8. /\ Alters(next, w, {}, {db} \ {None})
        /\ Archived(next, w) => Archived(mem, w)
    BY <1>1, <2>3, <2>4, AmendsAlters
  <2>9. {w} \X shown \subseteq Listed(next)
    <3>1. entry.stores \in SUBSET Store
      BY <2>4, ConfigType
    <3>2. \A d \in shown : d \in Databases /\ Has(entry, d)
      BY <3>1 DEF StoreOf, Has, Store
    <3>. QED
      BY <1>1, <2>5, <3>2 DEF Listed
  <2>. HIDE DEF next, shown
  <2>10. /\ Saves(next) /\ Notes(next)
         /\ ok => mem' = next /\ disk' = next
         /\ ~ok => mem' = mem
    BY <2>6, SavedFact
  <2>11. \A d \in {db} \ {None} : mem' = mem \/ Lock(t, d)
    BY <2>4, <2>6, <2>10
  <2>12. CASE ok
    <3>1. Outcome(t, next, {}, {db} \ {None}, shown)
      BY <2>3, <2>6, <2>7, <2>8, <2>9, <2>10, <2>11, <2>12 DEF Outcome
    <3>. QED
      BY <3>1
  <2>13. CASE ~ok
    <3>1. Outcome(t, next, {}, {db} \ {None}, {})
      BY <2>3, <2>6, <2>7, <2>8, <2>10, <2>11, <2>13 DEF Outcome
    <3>. QED
      BY <3>1
  <2>. QED
    BY <2>12, <2>13
<1>. QED
  BY <1>2, <1>3

LEMMA RepositoryDetachOutcome ==
    ASSUME TypeInv, NEW t \in Threads, repository_detach(t)
    PROVE  Silent \/ \E next : Outcome(t, next, {}, {}, {})
<1>. DEFINE w == call[t].args.ws
            r == call[t].args.repo
            entry == WithoutRepository(mem[w], r)
            next == With(mem, w, entry)
<1>1. /\ r \in Repositories /\ IsAppConfig(mem)
      /\ w \in DOMAIN mem => mem[w] \in WorkspaceConfig
  BY RequestFacts DEF repository_detach, At
<1>2. CASE Fail(t)
  BY <1>2, FailedSilently
<1>3. CASE ~Fail(t)
  <2>1. PICK ok \in BOOLEAN : Active(w) /\ save(next, next, ok)
    BY <1>3 DEF repository_detach
  <2>2. UNCHANGED <<tables, answers>>
    BY <1>3 DEF repository_detach
  <2>3. w \in DOMAIN mem /\ entry \in WorkspaceConfig /\ Amends(mem[w], entry, {}, {})
    BY <1>1, <2>1, WithoutRepositoryAmends, WithoutRepositoryType DEF Active
  <2>. HIDE DEF entry
  <2>4. Alters(next, w, {}, {}) /\ (Archived(next, w) => Archived(mem, w))
    BY <1>1, <2>3, AmendsAlters
  <2>. HIDE DEF next
  <2>5. Saves(next) /\ Notes(next)
    BY <2>1, SavedFact
  <2>6. Outcome(t, next, {}, {}, {})
    BY <2>2, <2>3, <2>4, <2>5 DEF Outcome, answers
  <2>. QED
    BY <2>6
<1>. QED
  BY <1>2, <1>3

LEMMA StoreAttachOutcome ==
    ASSUME TypeInv, NEW t \in Threads, task_store_attach(t)
    PROVE  Silent \/ \E next, more, new : Outcome(t, next, {}, more, new)
<1>. DEFINE w == call[t].args.ws
            db == call[t].args.db
            entry == WithStore(mem[w], db)
            next == With(mem, w, entry)
<1>1. /\ w \in Workspaces /\ db \in Databases /\ IsAppConfig(mem)
      /\ w \in DOMAIN mem => mem[w] \in WorkspaceConfig
  BY RequestFacts DEF task_store_attach, At
<1>2. CASE Fail(t)
  BY <1>2, FailedSilently
<1>3. CASE /\ w \in Holders(db) /\ attached' = attached \cup {<<w, db>>}
           /\ UNCHANGED <<files, made, up, tables, refused, unsaved, retired, early>>
  <2>1. <<w, db>> \in Listed(mem)
    BY <1>1, <1>3 DEF Listed, Holders
  <2>. QED
    BY <1>3, <2>1 DEF Silent
<1>4. CASE /\ Active(w)
           /\ \E ok \in BOOLEAN :
                /\ save(next, next, ok)
                /\ IF ok THEN Lock(t, db) ELSE Return(t)
                /\ attached' = IF ok THEN attached \cup {<<w, db>>} ELSE attached
                /\ refused' = IF ok \/ store_locks[db] # 0 THEN refused ELSE refused \cup {db}
           /\ UNCHANGED <<made, up, tables, retired, early>>
  <2>1. PICK ok \in BOOLEAN :
          /\ save(next, next, ok)
          /\ IF ok THEN Lock(t, db) ELSE Return(t)
          /\ attached' = IF ok THEN attached \cup {<<w, db>>} ELSE attached
          /\ refused' = IF ok \/ store_locks[db] # 0 THEN refused ELSE refused \cup {db}
    BY <1>4
  <2>2. Active(w) /\ UNCHANGED <<tables, retired, early>>
    BY <1>4
  <2>3. /\ w \in DOMAIN mem /\ entry \in WorkspaceConfig
        /\ Amends(mem[w], entry, {}, {db}) /\ db \in Dbs(entry)
    BY <1>1, <2>2, WithStoreAmends, WithStoreType DEF Active
  <2>4. next[w] = entry /\ w \in DOMAIN next
    BY DEF With
  <2>. HIDE DEF entry
  <2>5. /\ Alters(next, w, {}, {db}) /\ {w} \X {db} \subseteq Listed(next)
        /\ Archived(next, w) => Archived(mem, w)
    BY <1>1, <2>3, <2>4, AmendsAlters DEF Listed, Has, StoreOf, Dbs
  <2>. HIDE DEF next
  <2>6. Saves(next) /\ Notes(next) /\ mem' = next /\ (ok => disk' = next)
    BY <2>1, SavedFact
  <2>7. CASE ok
    <3>1. Outcome(t, next, {}, {db}, {db})
      BY <2>1, <2>2, <2>3, <2>5, <2>6, <2>7 DEF Outcome
    <3>. QED
      BY <3>1
  <2>8. CASE ~ok
    <3>1. Outcome(t, next, {}, {db}, {})
      BY <2>1, <2>2, <2>3, <2>5, <2>6, <2>8 DEF Outcome
    <3>. QED
      BY <3>1
  <2>. QED
    BY <2>7, <2>8
<1>. QED
  BY <1>2, <1>3, <1>4 DEF task_store_attach

LEMMA StoreDetachOutcome ==
    ASSUME TypeInv, NEW t \in Threads, task_store_detach(t)
    PROVE  Silent \/ \E next, less : Outcome(t, next, less, {}, {})
<1>. DEFINE w == call[t].args.ws
            db == call[t].args.db
            entry == WithoutStore(mem[w], db)
            next == With(mem, w, entry)
<1>1. /\ db \in Databases /\ IsAppConfig(mem)
      /\ w \in DOMAIN mem => mem[w] \in WorkspaceConfig
  BY RequestFacts DEF task_store_detach, At
<1>2. CASE Fail(t)
  BY <1>2, FailedSilently
<1>3. CASE ~Fail(t)
  <2>1. PICK ok \in BOOLEAN : Active(w) /\ save(next, next, ok)
    BY <1>3 DEF task_store_detach
  <2>2. UNCHANGED <<tables, refused, retired, early>> /\ attached' = attached \ {<<w, db>>}
    BY <1>3 DEF task_store_detach
  <2>3. w \in DOMAIN mem /\ entry \in WorkspaceConfig /\ Amends(mem[w], entry, {db}, {})
    BY <1>1, <2>1, WithoutStoreAmends, WithoutStoreType DEF Active
  <2>. HIDE DEF entry
  <2>4. Alters(next, w, {db}, {}) /\ (Archived(next, w) => Archived(mem, w))
    BY <1>1, <2>3, AmendsAlters
  <2>. HIDE DEF next
  <2>5. Saves(next) /\ Notes(next) /\ mem' = next
    BY <2>1, SavedFact
  <2>6. Outcome(t, next, {db}, {}, {})
    BY <2>2, <2>3, <2>4, <2>5 DEF Outcome
  <2>. QED
    BY <2>6
<1>. QED
  BY <1>2, <1>3

\* The requests that rewrite the configuration of a workspace that exists.
Rewrites(t) ==
    \/ workspace_archive(t) \/ workspace_visit(t)
    \/ repository_attach(t) \/ repository_detach(t)
    \/ task_store_attach(t) \/ task_store_detach(t)

LEMMA RewriteOutcome ==
    ASSUME TypeInv, NEW t \in Threads, Rewrites(t)
    PROVE  /\ call[t].phase = "config" /\ up
           /\ Silent \/ \E next, less, more, new : Outcome(t, next, less, more, new)
<1>1. call[t].phase = "config" /\ up
  BY DEF Rewrites, workspace_archive, workspace_visit, repository_attach, repository_detach,
     task_store_attach, task_store_detach, At
<1>2. Silent \/ \E next, less, more, new : Outcome(t, next, less, more, new)
  BY ArchiveOutcome, VisitOutcome, RepositoryAttachOutcome, RepositoryDetachOutcome,
     StoreAttachOutcome, StoreDetachOutcome DEF Rewrites
<1>. QED
  BY <1>1, <1>2

\* The other steps leave the configuration alone.
Elsewhere(t) ==
    \/ Begin(t) \/ active_runtime(t) \/ PrepareWorkspace(t) \/ PublishRuntime(t)
    \/ RetireRuntime(t) \/ InsertLock(t) \/ CopyConfig(t) \/ FindLock(t)
    \/ Acquire(t) \/ Release(t)

LEMMA ElsewhereFact ==
    ASSUME NEW t \in Threads, Elsewhere(t)
    PROVE  /\ UNCHANGED <<files, unsaved, attached, early>> /\ up
           /\ InsertLock(t) \/ UNCHANGED refused
  BY DEF Elsewhere, Begin, active_runtime, PrepareWorkspace, PublishRuntime, RetireRuntime,
     InsertLock, CopyConfig, FindLock, Acquire, Release, At, history, answers

LEMMA ProceedCases ==
    ASSUME NEW t \in Threads, Begin(t) \/ Proceed(t)
    PROVE  Elsewhere(t) \/ workspace_create(t) \/ Rewrites(t)
  BY DEF Proceed, Elsewhere, Rewrites

-----------------------------------------------------------------------------
(* New workspaces.                                                         *)

Creating(t) == call[t].phase # "idle" /\ call[t].args.op = "workspace_create"

\* Ids of workspaces that are being made are not those of others; the database that
\* comes with one is its own.
NewIds ==
    /\ \A t, u \in Threads :
        Creating(t) /\ Creating(u) /\ call[t].args.ws = call[u].args.ws => t = u
    /\ \A t \in Threads : Creating(t) /\ call[t].phase \in {"prepare", "config"} =>
        /\ call[t].args.ws \notin DOMAIN mem \cup DOMAIN disk
        /\ call[t].db \in {None, Owned[call[t].args.ws]}
    /\ \A t \in Threads : call[t].phase \in {"prepare", "publish"} => Creating(t)
    /\ \A t \in Threads : call[t].phase = "runtime" => ~Creating(t)

\* How the request of a thread goes on.
Moves(t) ==
    /\ CallOf(call', t)
    /\ call'[t].phase # "idle" => call[t].phase # "idle" /\ call'[t].args = call[t].args
    /\ call'[t].phase \notin {"prepare", "runtime"}
    /\ call'[t].phase = "config" =>
          \/ active_runtime(t) /\ call[t].phase = "runtime" /\ call'[t].db = call[t].db
          \/ /\ PrepareWorkspace(t)
             /\ call'[t].db \in {call[t].db, Owned[call[t].args.ws]}
    /\ call'[t].phase = "publish" => workspace_create(t) /\ call'[t].db = call[t].db
    /\ call'[t].phase = "retire" => workspace_archive(t)

LEMMA ProceedMoves ==
    ASSUME TypeInv, NEW t \in Threads, Proceed(t)
    PROVE  Moves(t)
<1>b. {"config", "retire", "copy", "work", "lock", "find", "publish"} \subseteq Phases
  BY DEF Phases
<1>c. ASSUME Return(t) PROVE Moves(t)
  BY <1>c, Returns DEF Moves
<1>d. ASSUME NEW db \in Databases, Lock(t, db), call[t].phase # "idle" PROVE Moves(t)
  BY <1>b, <1>d, Names, ZenonT(40) DEF Moves, Lock
<1>f. call[t].phase # "idle" =>
        /\ call[t].args.ws \in Workspaces /\ call[t].args.db \in Databases
        /\ call[t].args.repo \in Repositories
  BY RequestFacts
<1>g. call[t].db \in Databases \cup {None}
  BY DEF TypeInv, RegistryTypeOK, Call
<1>1. CASE active_runtime(t)
  <2>1. CASE Goto(t, "config")
    BY <1>1, <1>b, <2>1, Proceeds DEF active_runtime, Moves
  <2>2. CASE Goto(t, "copy")
    BY <1>1, <1>b, <2>2, Proceeds DEF active_runtime, Moves
  <2>. QED
    BY <1>1, <1>c, <2>1, <2>2 DEF active_runtime
<1>2. CASE PrepareWorkspace(t)
  <2>. DEFINE db == Owned[call[t].args.ws]
  <2>1. db \in Databases /\ call[t].phase # "idle"
    BY <1>2, <1>f, OwnedAssumption DEF PrepareWorkspace, At
  <2>. HIDE DEF db
  <2>2. CASE Goto(t, "config")
    BY <1>2, <1>b, <2>1, <2>2, Proceeds DEF Moves
  <2>3. CASE call' = [call EXCEPT ![t].phase = "config", ![t].db = db]
    <3>1. /\ CallOf(call', t) /\ call'[t].phase = "config" /\ call'[t].args = call[t].args
          /\ call'[t].db = db
      BY <1>b, <2>1, <2>3, Names, ZenonT(40)
    <3>. QED
      BY <1>2, <2>1, <3>1 DEF Moves, db
  <2>4. Goto(t, "config") \/ Return(t)
          \/ call' = [call EXCEPT ![t].phase = "config", ![t].db = db]
    BY <1>2 DEF PrepareWorkspace, db
  <2>. QED
    BY <1>c, <2>2, <2>3, <2>4
<1>3. CASE workspace_create(t)
  <2>1. CASE Goto(t, "publish")
    BY <1>3, <1>b, <2>1, Proceeds DEF workspace_create, At, Moves
  <2>. QED
    BY <1>3, <1>c, <2>1 DEF workspace_create
<1>4. CASE PublishRuntime(t)
  BY <1>4, <1>c, <1>d, <1>g DEF PublishRuntime, At
<1>5. CASE workspace_archive(t)
  <2>1. CASE Goto(t, "retire")
    BY <1>5, <1>b, <2>1, Proceeds DEF workspace_archive, At, Moves
  <2>. QED
    BY <1>5, <1>c, <2>1 DEF workspace_archive, Fail
<1>6. CASE RetireRuntime(t) \/ workspace_visit(t) \/ repository_detach(t)
           \/ task_store_detach(t) \/ InsertLock(t) \/ Release(t)
  BY <1>6, <1>c DEF RetireRuntime, workspace_visit, repository_detach, task_store_detach,
     InsertLock, Release, Fail
<1>7. CASE repository_attach(t)
  <2>. DEFINE w == call[t].args.ws
              r == call[t].args.repo
  <2>1. PICK db \in Found[r] \cap (made \cup {None}) :
          \/ Return(t)
          \/ LET entry == WithRepository(mem[w], r, db) IN
                entry.repos[r] # None /\ Active(w) /\ Lock(t, entry.repos[r])
    BY <1>7 DEF repository_attach, Fail
  <2>2. CASE LET entry == WithRepository(mem[w], r, db) IN
                entry.repos[r] # None /\ Active(w) /\ Lock(t, entry.repos[r])
    <3>1. w \in Workspaces /\ r \in Repositories /\ db \in Databases \cup {None}
      BY <1>7, <1>f, FoundAssumption DEF repository_attach, At
    <3>2. mem[w] \in WorkspaceConfig
      BY <2>2 DEF Active, TypeInv, RegistryTypeOK, IsAppConfig
    <3>3. WithRepository(mem[w], r, db).repos[r] \in Databases \cup {None}
      BY <3>1, <3>2, LinkOf
    <3>. QED
      BY <1>7, <1>d, <2>2, <3>3 DEF repository_attach, At
  <2>. QED
    BY <1>c, <2>1, <2>2
<1>8. CASE task_store_attach(t)
  BY <1>8, <1>c, <1>d, <1>f DEF task_store_attach, At, Fail
<1>9. CASE CopyConfig(t)
  <2>1. CASE call' = [call EXCEPT ![t].phase = "find", ![t].db = call[t].args.db]
    BY <1>9, <1>b, <1>f, <2>1, Names, ZenonT(40) DEF CopyConfig, At, Moves
  <2>. QED
    BY <1>9, <1>c, <2>1 DEF CopyConfig
<1>10. CASE FindLock(t)
  <2>1. store_locks[call[t].db] \in Nat
    BY <1>10 DEF FindLock, At, TypeInv, Engaged, RegistryTypeOK
  <2>2. CASE call' = [call EXCEPT ![t].phase = "acquire", ![t].guard = store_locks[call[t].db]]
    BY <1>10, <2>1, <2>2, Guards DEF FindLock, At, Moves
  <2>. QED
    BY <1>10, <1>c, <2>2 DEF FindLock
<1>11. CASE Acquire(t)
  BY <1>11, <1>b, Proceeds DEF Acquire, At, Moves
<1>. QED
  BY <1>1, <1>2, <1>3, <1>4, <1>5, <1>6, <1>7, <1>8, <1>9, <1>10, <1>11 DEF Proceed

LEMMA BeginFacts ==
    ASSUME TypeInv, NEW t \in Threads, Begin(t)
    PROVE  /\ CallOf(call', t) /\ call[t].phase = "idle"
           /\ call'[t].phase \in {"prepare", "config", "runtime"} /\ call'[t].db = None
           /\ call'[t].args.op = "workspace_create" => Fresh(call'[t].args.ws)
           /\ call'[t].phase = "prepare" => call'[t].args.op = "workspace_create"
           /\ call'[t].phase = "runtime" => call'[t].args.op # "workspace_create"
<1>1. call \in [Threads -> Call]
  BY DEF TypeInv, RegistryTypeOK
<1>2. PICK c \in Calls :
        /\ c.op = "workspace_create" => Fresh(c.ws)
        /\ call' = [call EXCEPT ![t] = [Idle EXCEPT !.phase = FirstPhase(c.op), !.args = c]]
  BY DEF Begin
<1>3. /\ FirstPhase(c.op) = "prepare" => c.op = "workspace_create"
      /\ FirstPhase(c.op) = "runtime" => c.op # "workspace_create"
  BY DEF FirstPhase
<1>. DEFINE started == [Idle EXCEPT !.phase = FirstPhase(c.op), !.args = c]
<1>4. started.phase = FirstPhase(c.op) /\ started.args = c /\ started.db = None
  BY DEF Idle
<1>. HIDE DEF started
<1>5. call'[t] = started
  BY <1>1, <1>2 DEF started
<1>6. call[t].phase = "idle"
  BY DEF Begin
<1>. QED
  BY <1>2, <1>3, <1>4, <1>5, <1>6, Begins

\* A configuration gets a new workspace only from the request that makes it.
LEMMA Grows ==
    ASSUME TypeInv, NEW t \in Threads, Begin(t) \/ Proceed(t)
    PROVE  LET made_by == IF workspace_create(t) THEN {call[t].args.ws} ELSE {} IN
           DOMAIN mem' \cup DOMAIN disk' \subseteq DOMAIN mem \cup DOMAIN disk \cup made_by
<1>1. CASE Elsewhere(t)
  BY <1>1, ElsewhereFact DEF files
<1>2. CASE workspace_create(t)
  <2>. DEFINE w == call[t].args.ws
              next == With(mem, w, NewWorkspace(w, call[t].db # None))
  <2>1. DOMAIN next = DOMAIN mem \cup {w}
    BY DEF With
  <2>2. PICK ok \in BOOLEAN : save(next, next, ok)
    BY <1>2 DEF workspace_create
  <2>. HIDE DEF next
  <2>3. Saves(next)
    BY <2>2, SavedFact
  <2>. QED
    BY <1>2, <2>1, <2>3 DEF Saves
<1>3. CASE Rewrites(t)
  <2>1. CASE Silent
    BY <2>1 DEF Silent, files
  <2>2. ASSUME NEW next, NEW less, NEW more, NEW new, Outcome(t, next, less, more, new)
        PROVE  DOMAIN mem' \cup DOMAIN disk' \subseteq DOMAIN mem \cup DOMAIN disk
    BY <2>2 DEF Outcome, Alters, Saves
  <2>. QED
    BY <1>3, <2>1, <2>2, RewriteOutcome
<1>. QED
  BY <1>1, <1>2, <1>3, ProceedCases

LEMMA NewIdsStep == TypeInv /\ NewIds /\ [Next]_vars => NewIds'
<1>. SUFFICES ASSUME TypeInv, NewIds, [Next]_vars PROVE NewIds'
  OBVIOUS
<1>1. CASE Start \/ Crash
  <2>1. \A t \in Threads : call'[t].phase = "idle"
    BY <1>1 DEF Start, Crash, Idle, TypeInv, Engaged
  <2>. QED
    BY <2>1 DEF NewIds, Creating
<1>2. ASSUME NEW t \in Threads, Begin(t) PROVE NewIds'
  <2>1. /\ CallOf(call', t)
        /\ call'[t].phase \in {"prepare", "config", "runtime"} /\ call'[t].db = None
        /\ call'[t].args.op = "workspace_create" => Fresh(call'[t].args.ws)
        /\ call'[t].phase = "prepare" => call'[t].args.op = "workspace_create"
        /\ call'[t].phase = "runtime" => call'[t].args.op # "workspace_create"
    BY <1>2, BeginFacts
  <2>2. UNCHANGED files
    BY <1>2 DEF Begin
  <2>3. \A u \in Threads \ {t} : Creating(u) /\ call'[t].args.op = "workspace_create"
                                  => call[u].args.ws # call'[t].args.ws
    BY <2>1 DEF Fresh, Creating
  <2>. QED
    BY <2>1, <2>2, <2>3 DEF NewIds, Creating, CallOf, Fresh, files
<1>3. ASSUME NEW t \in Threads, Proceed(t) PROVE NewIds'
  <2>1. Moves(t)
    BY <1>3, ProceedMoves
  <2>2. \A u \in Threads : Creating(u)' => Creating(u) /\ call'[u].args = call[u].args
    BY <2>1 DEF Moves, CallOf, Creating
  <2>3. DOMAIN mem' \cup DOMAIN disk' \subseteq DOMAIN mem \cup DOMAIN disk
            \cup (IF workspace_create(t) THEN {call[t].args.ws} ELSE {})
    BY <1>3, Grows
  <2>4. workspace_create(t) => Creating(t)
    BY DEF workspace_create, At, Creating
  <2>5. ASSUME NEW u \in Threads, Creating(u)', call'[u].phase \in {"prepare", "config"}
        PROVE  /\ call'[u].args.ws \notin DOMAIN mem' \cup DOMAIN disk'
               /\ call'[u].db \in {None, Owned[call'[u].args.ws]}
    <3>1. CASE u = t
      <4>1. call'[t].phase = "config" /\ Creating(t) /\ call'[t].args = call[t].args
        BY <2>1, <2>2, <2>5, <3>1 DEF Moves
      <4>2. PrepareWorkspace(t) \/ active_runtime(t)
        BY <2>1, <4>1 DEF Moves
      <4>3. CASE PrepareWorkspace(t)
        <5>1. call[t].phase = "prepare" /\ UNCHANGED files
          BY <4>3 DEF PrepareWorkspace, At
        <5>2. call'[t].db \in {call[t].db, Owned[call[t].args.ws]}
          BY <2>1, <4>1, <5>1 DEF Moves, active_runtime
        <5>. QED
          BY <3>1, <4>1, <5>1, <5>2 DEF NewIds, files
      <4>4. CASE active_runtime(t)
        <5>1. call[t].phase = "runtime" /\ call[t].args.op # "workspace_create"
          BY <4>1, <4>4 DEF active_runtime, NewIds, Creating
        <5>. QED
          BY <4>1, <5>1 DEF Creating
      <4>. QED
        BY <4>2, <4>3, <4>4
    <3>2. CASE u # t
      <4>1. Creating(u) /\ call'[u] = call[u] /\ call[u].phase \in {"prepare", "config"}
        BY <2>1, <2>2, <2>5, <3>2 DEF Moves, CallOf
      <4>2. workspace_create(t) => call[t].args.ws # call[u].args.ws
        BY <2>4, <3>2, <4>1 DEF NewIds
      <4>. QED
        BY <2>3, <4>1, <4>2 DEF NewIds
    <3>. QED
      BY <3>1, <3>2
  <2>6. ASSUME NEW u \in Threads, call'[u].phase \in {"prepare", "publish"}
        PROVE  Creating(u)'
    <3>1. CASE u = t
      BY <2>1, <2>4, <2>6, <3>1 DEF Moves, Creating
    <3>2. CASE u # t
      BY <2>1, <2>6, <3>2 DEF Moves, CallOf, NewIds, Creating
    <3>. QED
      BY <3>1, <3>2
  <2>7. ASSUME NEW u \in Threads, call'[u].phase = "runtime" PROVE ~Creating(u)'
    BY <2>1, <2>7 DEF Moves, CallOf, NewIds, Creating
  <2>. QED
    BY <2>2, <2>5, <2>6, <2>7 DEF NewIds
<1>4. CASE UNCHANGED vars
  BY <1>4 DEF vars, files, NewIds, Creating
<1>. QED
  BY <1>1, <1>2, <1>3, <1>4 DEF Next

LEMMA NewIdsAlways == Spec => []NewIds
<1>1. Init => NewIds
  BY DEF Init, Idle, NewIds, Creating
<1>. QED
  BY <1>1, NewIdsStep, TypeInvariant, PTL DEF Spec

LEMMA CreateFacts ==
    ASSUME TypeInv, NewIds, NEW t \in Threads, workspace_create(t)
    PROVE  LET w == call[t].args.ws IN
           /\ w \in Workspaces /\ w \notin DOMAIN mem \cup DOMAIN disk
           /\ call[t].phase = "config" /\ up /\ Creating(t)
           /\ \E next : /\ Alters(next, w, {}, IF call[t].db # None THEN {Owned[w]} ELSE {})
                        /\ ~Archived(next, w) /\ Saves(next) /\ Notes(next)
                        /\ mem' = next
           /\ Goto(t, "publish") \/ Return(t)
           /\ UNCHANGED <<up, tables, answers>>
<1>. DEFINE w == call[t].args.ws
            next == With(mem, w, NewWorkspace(w, call[t].db # None))
<1>1. call[t].phase = "config" /\ up /\ Creating(t)
  BY DEF workspace_create, At, Creating
<1>2. w \in Workspaces /\ w \notin DOMAIN mem \cup DOMAIN disk /\ IsAppConfig(mem)
  BY <1>1, RequestFacts DEF NewIds
<1>3. /\ Alters(next, w, {}, IF call[t].db # None THEN {Owned[w]} ELSE {})
      /\ ~Archived(next, w)
  BY <1>2, CreateAlters
<1>4. /\ \E ok \in BOOLEAN : save(next, next, ok)
      /\ Goto(t, "publish") \/ Return(t)
      /\ UNCHANGED <<up, tables, answers>>
  BY DEF workspace_create
<1>. HIDE DEF next
<1>5. Saves(next) /\ Notes(next) /\ mem' = next
  BY <1>4, SavedFact
<1>. QED
  BY <1>1, <1>2, <1>3, <1>4, <1>5

-----------------------------------------------------------------------------
(* Attachments that clients were told of.  Memory lists them too while the *)
(* host runs, so that a later save writes them again; what memory lists is *)
(* in the file, but for what a failed save left there, so that an answer   *)
(* from memory is good as well.                                            *)

Kept ==
    /\ attached \ unsaved \subseteq Listed(disk)
    /\ up => attached \ unsaved \subseteq Listed(mem)
    /\ up => Listed(mem) \ unsaved \subseteq Listed(disk)

LEMMA AltersListed ==
    ASSUME NEW next, NEW w, NEW less, NEW more, Alters(next, w, less, more)
    PROVE  Listed(mem) \ ({w} \X less) \subseteq Listed(next)
<1>. SUFFICES ASSUME NEW e \in Listed(mem), e \notin {w} \X less
              PROVE  e \in Listed(next)
  OBVIOUS
<1>1. /\ e \in Workspaces \X Databases /\ e = <<e[1], e[2]>>
      /\ e[1] \in DOMAIN mem /\ Has(mem[e[1]], e[2])
  BY DEF Listed
<1>2. Lists(mem, e[1], e[2])
  BY <1>1 DEF Lists, Dbs, Has, StoreOf
<1>3. Lists(next, e[1], e[2])
  <2>1. CASE e[1] = w
    <3>1. e[2] \notin less
      BY <1>1, <2>1
    <3>. QED
      BY <1>2, <2>1, <3>1 DEF Alters
  <2>2. CASE e[1] # w
    BY <1>2, <2>2 DEF Alters, Lists
  <2>. QED
    BY <2>1, <2>2
<1>4. e[1] \in DOMAIN next /\ Has(next[e[1]], e[2])
  BY <1>3 DEF Lists, Dbs, Has, StoreOf
<1>. QED
  BY <1>1, <1>4 DEF Listed

LEMMA KeptSave ==
    ASSUME Kept, up, NEW next, NEW w, NEW less, NEW more, Alters(next, w, less, more),
           Notes(next), less = {} \/ mem' = next
    PROVE  /\ (attached \ ({w} \X less)) \ unsaved' \subseteq Listed(disk') \cap Listed(mem')
           /\ Listed(mem') \ unsaved' \subseteq Listed(disk')
<1>1. Listed(mem) \ ({w} \X less) \subseteq Listed(next)
  BY AltersListed
<1>2. /\ attached \ unsaved \subseteq Listed(disk)
      /\ attached \ unsaved \subseteq Listed(mem)
      /\ Listed(mem) \ unsaved \subseteq Listed(disk)
  BY DEF Kept
<1>3. CASE mem' = next /\ disk' = next /\ unsaved' = unsaved \ Listed(next)
  <2>1. Listed(mem') = Listed(next) /\ Listed(disk') = Listed(next)
    BY <1>3
  <2>. QED
    BY <1>1, <1>2, <1>3, <2>1
<1>4. CASE Saves(next) /\ unsaved' = unsaved \cup (Listed(mem') \ Listed(mem))
  <2>1. /\ Listed(mem') \in {Listed(mem), Listed(next)}
        /\ Listed(disk') \in {Listed(disk), Listed(next)}
    BY <1>4 DEF Saves
  <2>2. \/ Listed(disk') = Listed(disk)
        \/ Listed(mem') = Listed(next) /\ Listed(disk') = Listed(next)
        \/ less = {} /\ Listed(mem') = Listed(mem) /\ Listed(disk') = Listed(next)
    BY <1>4 DEF Saves
  <2>3. less = {} => {w} \X less = {}
    OBVIOUS
  <2>. DEFINE M == Listed(mem')
              D == Listed(disk')
  <2>. HIDE DEF M, D
  <2>4. /\ M \in {Listed(mem), Listed(next)} /\ D \in {Listed(disk), Listed(next)}
        /\ \/ D = Listed(disk)
           \/ M = Listed(next) /\ D = Listed(next)
           \/ {w} \X less = {} /\ M = Listed(mem) /\ D = Listed(next)
        /\ unsaved' = unsaved \cup (M \ Listed(mem))
    BY <1>4, <2>1, <2>2, <2>3 DEF M, D
  <2>5. /\ (attached \ ({w} \X less)) \ unsaved' \subseteq D \cap M
        /\ M \ unsaved' \subseteq D
    BY <1>1, <1>2, <2>4
  <2>. QED
    BY <2>5 DEF M, D
<1>. QED
  BY <1>3, <1>4 DEF Notes

LEMMA KeptStep == TypeInv /\ NewIds /\ Kept /\ [Next]_vars => Kept'
<1>. SUFFICES ASSUME TypeInv, NewIds, Kept, [Next]_vars PROVE Kept'
  OBVIOUS
<1>1. CASE Start
  BY <1>1 DEF Start, Kept, history, answers, Listed
<1>2. CASE Crash
  BY <1>2 DEF Crash, Kept, Listed
<1>3. ASSUME NEW t \in Threads, Begin(t) \/ Proceed(t) PROVE Kept'
  <2>1. CASE Elsewhere(t)
    BY <2>1, ElsewhereFact DEF files, Kept, Listed
  <2>2. CASE workspace_create(t)
    <3>1. PICK next :
            /\ Alters(next, call[t].args.ws, {},
                      IF call[t].db # None THEN {Owned[call[t].args.ws]} ELSE {})
            /\ Notes(next)
      BY <2>2, CreateFacts
    <3>2. attached' = attached /\ up
      BY <2>2, CreateFacts DEF answers
    <3>3. /\ (attached \ ({call[t].args.ws} \X {})) \ unsaved'
               \subseteq Listed(disk') \cap Listed(mem')
          /\ Listed(mem') \ unsaved' \subseteq Listed(disk')
      BY <3>1, <3>2, KeptSave
    <3>4. attached' \ unsaved' \subseteq Listed(disk') \cap Listed(mem')
      BY <3>2, <3>3
    <3>. QED
      BY <3>3, <3>4 DEF Kept, Listed
  <2>3. CASE Rewrites(t)
    <3>1. CASE Silent
      <4>1. /\ mem' = mem /\ disk' = disk /\ unsaved' = unsaved /\ up
            /\ attached' \subseteq attached \cup Listed(mem)
        BY <2>3, <3>1, RewriteOutcome DEF Silent, files
      <4>2. /\ attached' \ unsaved \subseteq Listed(disk) \cap Listed(mem)
            /\ Listed(mem) \ unsaved \subseteq Listed(disk)
        BY <4>1 DEF Kept
      <4>. QED
        BY <4>1, <4>2 DEF Kept, Listed
    <3>2. ASSUME NEW next, NEW less, NEW more, NEW new, Outcome(t, next, less, more, new)
          PROVE  Kept'
      <4>. DEFINE w == call[t].args.ws
      <4>1. up
        BY <2>3, RewriteOutcome
      <4>2. /\ (attached \ ({w} \X less)) \ unsaved' \subseteq Listed(disk') \cap Listed(mem')
            /\ Listed(mem') \ unsaved' \subseteq Listed(disk')
        BY <3>2, <4>1, KeptSave DEF Outcome
      <4>3. {w} \X new \subseteq Listed(disk') \cap Listed(mem')
        <5>1. new = {} \/ ({w} \X new \subseteq Listed(next) /\ mem' = next /\ disk' = next)
          BY <3>2 DEF Outcome
        <5>. QED
          BY <5>1
      <4>4. attached' \subseteq (attached \ ({w} \X less)) \cup ({w} \X new)
        BY <3>2 DEF Outcome
      <4>5. attached' \ unsaved' \subseteq Listed(disk') \cap Listed(mem')
        BY <4>2, <4>3, <4>4
      <4>. QED
        BY <4>2, <4>5 DEF Kept, Listed
    <3>. QED
      BY <2>3, <3>1, <3>2, RewriteOutcome
  <2>. QED
    BY <1>3, <2>1, <2>2, <2>3, ProceedCases
<1>4. CASE UNCHANGED vars
  BY <1>4 DEF vars, files, history, answers, Kept, Listed
<1>. QED
  BY <1>1, <1>2, <1>3, <1>4 DEF Next

(* A store that a client was told is attached, also by an answer that      *)
(* rests on memory, is in config.json until it is detached, whatever other *)
(* requests save or fail to save and whenever the host dies, unless it is  *)
(* a listing that a failed save left in memory and no save has written     *)
(* (task_store_attach, repository_attach, config::save).                   *)
THEOREM AttachmentsAreKept == Spec => []AttachmentsSurvive
<1>1. Init => Kept
  BY DEF Init, Kept
<1>2. Kept => AttachmentsSurvive
  BY DEF Kept, AttachmentsSurvive
<1>. QED
  BY <1>1, <1>2, KeptStep, NewIdsAlways, TypeInvariant, PTL DEF Spec

-----------------------------------------------------------------------------
(* Workspaces that were archived.  From the moment in which the archive is *)
(* saved, memory and config.json agree on it; the runtime of a workspace   *)
(* that is archived while it is made is published after all.               *)

Closing(w) ==
    w \in retired \/ \E t \in Threads : call[t].phase = "retire" /\ call[t].args.ws = w

Sealed == \A w : Closing(w) => Archived(disk, w) /\ (up => Archived(mem, w))

Doomed ==
    \A t \in Threads :
        call[t].phase = "publish" /\ Archived(mem, call[t].args.ws) => call[t].args.ws \in early

RetiredInv == Sealed /\ Doomed /\ RetiredStaysRetired

LEMMA StaysArchived ==
    ASSUME NEW next, NEW w, NEW less, NEW more, Alters(next, w, less, more), Saves(next),
           NEW v, Archived(mem, v)
    PROVE  Archived(mem', v) /\ (Archived(disk, v) => Archived(disk', v))
<1>1. Archived(next, v)
  BY DEF Alters, Archived
<1>2. CASE mem' = mem /\ disk' = disk
  BY <1>2
<1>3. CASE mem' = mem /\ disk' = next
  BY <1>1, <1>3
<1>4. CASE mem' = next /\ disk' = disk
  BY <1>1, <1>4
<1>5. CASE mem' = next /\ disk' = next
  BY <1>1, <1>5
<1>. QED
  BY <1>2, <1>3, <1>4, <1>5 DEF Saves

LEMMA RetiredThread ==
    ASSUME TypeInv, NewIds, RetiredInv, NEW t \in Threads, Begin(t) \/ Proceed(t)
    PROVE  RetiredInv'
<1>. DEFINE w == call[t].args.ws
<1>a. /\ CallOf(call', t) /\ up /\ up'
      /\ call'[t].phase = "publish" => workspace_create(t) /\ call'[t].args = call[t].args
      /\ call'[t].phase = "retire" => workspace_archive(t) /\ call'[t].args = call[t].args
  <2>1. CASE Begin(t)
    BY <2>1, BeginFacts, ThreadSaves
  <2>2. CASE Proceed(t)
    BY <2>2, ProceedMoves, ThreadSaves DEF Moves
  <2>. QED
    BY <2>1, <2>2
<1>b. Sealed /\ Doomed /\ RetiredStaysRetired
  BY DEF RetiredInv
\* A step that neither archives nor retires.
<1>c. ASSUME \A v : Archived(mem, v) => Archived(mem', v)
                                  /\ (Archived(disk, v) => Archived(disk', v)),
             retired' = retired, call'[t].phase # "retire"
      PROVE  Sealed'
  BY <1>a, <1>b, <1>c DEF Sealed, Closing, CallOf, Archived
<1>1. CASE Elsewhere(t)
  <2>1. UNCHANGED <<mem, disk, early>>
    BY <1>1, ElsewhereFact DEF files
  <2>2. Doomed'
    <3>1. call'[t].phase # "publish"
      BY <1>1, <1>a DEF Elsewhere, Begin, active_runtime, PrepareWorkspace, PublishRuntime,
         RetireRuntime, InsertLock, CopyConfig, FindLock, Acquire, Release, At,
         workspace_create
    <3>. QED
      BY <1>a, <1>b, <2>1, <3>1 DEF Doomed, CallOf, Archived
  <2>3. call'[t].phase # "retire"
    BY <1>1, <1>a DEF Elsewhere, Begin, active_runtime, PrepareWorkspace, PublishRuntime,
       RetireRuntime, InsertLock, CopyConfig, FindLock, Acquire, Release, At,
       workspace_archive
  <2>4. CASE PublishRuntime(t)
    <3>1. /\ retired' = retired /\ running' = running \cup {w} /\ call[t].phase = "publish"
      BY <2>4 DEF PublishRuntime, At, history, answers
    <3>2. w \in retired => w \in early
      BY <1>a, <1>b, <3>1 DEF Sealed, Closing, Doomed
    <3>3. RetiredStaysRetired'
      BY <1>b, <2>1, <3>1, <3>2 DEF RetiredStaysRetired
    <3>4. Sealed'
      BY <1>c, <2>1, <2>3, <3>1 DEF Archived
    <3>. QED
      BY <2>2, <3>3, <3>4 DEF RetiredInv
  <2>5. CASE RetireRuntime(t)
    <3>1. /\ retired' = retired \cup {w} /\ running' = running \ {w}
          /\ call[t].phase = "retire"
      BY <2>5 DEF RetireRuntime, At
    <3>2. RetiredStaysRetired'
      BY <1>b, <2>1, <3>1 DEF RetiredStaysRetired
    <3>3. \A v : Closing(v)' => Closing(v)
      BY <1>a, <2>3, <3>1 DEF Closing, CallOf
    <3>4. Sealed'
      BY <1>a, <1>b, <2>1, <3>3 DEF Sealed, Archived
    <3>. QED
      BY <2>2, <3>2, <3>4 DEF RetiredInv
  <2>6. CASE ~PublishRuntime(t) /\ ~RetireRuntime(t)
    <3>1. retired' = retired /\ running' = running
      BY <1>1, <2>6 DEF Elsewhere, Begin, active_runtime, PrepareWorkspace, InsertLock,
         CopyConfig, FindLock, Acquire, Release, history, answers, tables
    <3>2. RetiredStaysRetired'
      BY <1>b, <2>1, <3>1 DEF RetiredStaysRetired
    <3>3. Sealed'
      BY <1>c, <2>1, <2>3, <3>1 DEF Archived
    <3>. QED
      BY <2>2, <3>2, <3>3 DEF RetiredInv
  <2>. QED
    BY <2>4, <2>5, <2>6
<1>2. CASE workspace_create(t)
  <2>1. PICK next :
          /\ Alters(next, w, {}, IF call[t].db # None THEN {Owned[w]} ELSE {})
          /\ ~Archived(next, w) /\ Saves(next) /\ mem' = next
    BY <1>2, CreateFacts
  <2>2. /\ retired' = retired /\ running' = running /\ early' = early
        /\ Goto(t, "publish") \/ Return(t)
    BY <1>2, CreateFacts DEF tables, history, answers
  <2>3. call'[t].phase # "retire"
    BY <2>2, Proceeds, Returns DEF Phases
  <2>4. Sealed'
    BY <1>c, <2>1, <2>2, <2>3, StaysArchived
  <2>5. Doomed'
    <3>1. \A v : v # w /\ Archived(mem', v) => Archived(mem, v)
      BY <2>1 DEF Alters, Archived
    <3>2. ~Archived(mem', w)
      BY <2>1
    <3>3. call'[t].phase = "publish" => call'[t].args.ws = w
      BY <1>a
    <3>4. \A u \in Threads \ {t} : call'[u] = call[u]
      BY <1>a DEF CallOf
    <3>. QED
      BY <1>b, <2>2, <3>1, <3>2, <3>3, <3>4 DEF Doomed, Archived
  <2>6. RetiredStaysRetired'
    BY <1>b, <2>2 DEF RetiredStaysRetired
  <2>. QED
    BY <2>4, <2>5, <2>6 DEF RetiredInv
<1>3. CASE Rewrites(t)
  <2>a. call[t].phase = "config"
    BY <1>3, RewriteOutcome
  <2>b. call'[t].phase # "publish"
    <3>1. ASSUME workspace_create(t) PROVE FALSE
      BY <1>3, <3>1 DEF workspace_create, Rewrites, workspace_archive, workspace_visit,
         repository_attach, repository_detach, task_store_attach, task_store_detach, At
    <3>. QED
      BY <1>a, <3>1
  <2>1. ASSUME Silent, call'[t].phase # "retire" PROVE RetiredInv'
    <3>1. UNCHANGED <<mem, disk, early, retired, running>>
      BY <2>1 DEF Silent, files, tables
    <3>2. Sealed'
      BY <1>c, <2>1, <3>1 DEF Archived
    <3>3. Doomed'
      BY <1>a, <1>b, <2>b, <3>1 DEF Doomed, CallOf, Archived
    <3>. QED
      BY <1>b, <3>1, <3>2, <3>3 DEF RetiredInv, RetiredStaysRetired
  <2>2. ASSUME NEW next, NEW less, NEW more, NEW new, Outcome(t, next, less, more, new),
               call'[t].phase = "retire" => Archived(mem', w) /\ Archived(disk', w),
               workspace_archive(t) => (BeingMade(w) => w \in early')
        PROVE  RetiredInv'
    <3>1. /\ retired' = retired /\ running' = running /\ early \subseteq early'
          /\ Alters(next, w, less, more) /\ Saves(next)
          /\ Archived(next, w) => Archived(mem, w) \/ workspace_archive(t)
      BY <2>2 DEF Outcome, tables
    <3>2. \A v : Archived(mem, v) => Archived(mem', v)
                                  /\ (Archived(disk, v) => Archived(disk', v))
      BY <3>1, StaysArchived
    <3>3. Sealed'
      <4>1. ASSUME NEW v, Closing(v)' PROVE Archived(disk', v) /\ Archived(mem', v)
        <5>1. CASE Closing(v)
          BY <1>a, <1>b, <3>2, <5>1 DEF Sealed
        <5>2. CASE ~Closing(v)
          <6>1. call'[t].phase = "retire" /\ call'[t].args.ws = v
            BY <1>a, <3>1, <4>1, <5>2 DEF Closing, CallOf
          <6>2. v = w
            BY <1>a, <6>1
          <6>. QED
            BY <2>2, <6>1, <6>2
        <5>. QED
          BY <5>1, <5>2
      <4>. QED
        BY <4>1 DEF Sealed, Archived
    <3>4. Doomed'
      <4>1. ASSUME NEW u \in Threads, call'[u].phase = "publish",
                   Archived(mem', call'[u].args.ws)
            PROVE  call'[u].args.ws \in early'
        <5>1. u # t /\ call'[u] = call[u]
          BY <1>a, <2>b, <4>1 DEF CallOf
        <5>2. CASE Archived(mem, call[u].args.ws)
          BY <1>b, <3>1, <4>1, <5>1, <5>2 DEF Doomed
        <5>3. CASE ~Archived(mem, call[u].args.ws)
          <6>1. call[u].args.ws = w /\ workspace_archive(t)
            <7>1. mem' \in {mem, next}
              BY <3>1 DEF Saves
            <7>2. Archived(next, call[u].args.ws)
              BY <4>1, <5>1, <5>3, <7>1
            <7>. QED
              BY <3>1, <5>3, <7>2 DEF Alters, Archived
          <6>2. BeingMade(w)
            BY <4>1, <5>1, <6>1 DEF NewIds, Creating, BeingMade
          <6>. QED
            BY <2>2, <5>1, <6>1, <6>2
        <5>. QED
          BY <5>2, <5>3
      <4>. QED
        BY <4>1 DEF Doomed, Archived
    <3>5. RetiredStaysRetired'
      BY <1>b, <3>1 DEF RetiredStaysRetired
    <3>. QED
      BY <3>3, <3>4, <3>5 DEF RetiredInv
  <2>3. CASE workspace_archive(t)
    <3>1. CASE Silent /\ Return(t)
      BY <2>1, <3>1, Returns
    <3>2. CASE /\ BeingMade(w) => w \in early'
               /\ \E next : /\ Outcome(t, next, {}, {}, {}) /\ mem' = next
                            /\ Archived(next, w) /\ (Return(t) \/ disk' = next)
      <4>1. PICK next : /\ Outcome(t, next, {}, {}, {}) /\ mem' = next
                        /\ Archived(next, w) /\ (Return(t) \/ disk' = next)
        BY <3>2
      <4>2. call'[t].phase = "retire" => Archived(mem', w) /\ Archived(disk', w)
        <5>1. call'[t].phase = "retire" => disk' = next
          BY <4>1, Returns
        <5>2. Archived(mem', w)
          BY <4>1
        <5>3. disk' = next => Archived(disk', w)
          BY <4>1
        <5>. QED
          BY <5>1, <5>2, <5>3
      <4>. QED
        BY <2>2, <3>2, <4>1, <4>2
    <3>. QED
      BY <2>3, <3>1, <3>2, ArchiveOutcome
  <2>4. CASE ~workspace_archive(t)
    <3>1. call'[t].phase # "retire"
      BY <1>a, <2>4
    <3>. QED
      BY <1>3, <2>1, <2>2, <2>4, <3>1, RewriteOutcome
  <2>. QED
    BY <2>3, <2>4
<1>. QED
  BY <1>1, <1>2, <1>3, ProceedCases

LEMMA RetiredStep == TypeInv /\ NewIds /\ RetiredInv /\ [Next]_vars => RetiredInv'
<1>. SUFFICES ASSUME TypeInv, NewIds, RetiredInv, [Next]_vars PROVE RetiredInv'
  OBVIOUS
<1>1. CASE Start
  <2>1. \A t \in Threads : call'[t].phase = "idle" /\ call[t].phase = "idle"
    BY <1>1 DEF Start, TypeInv, Engaged
  <2>2. UNCHANGED <<disk, retired, early>> /\ mem' = disk /\ running' = Loaded(disk)
    BY <1>1 DEF Start, history, answers
  <2>3. \A w \in retired : Archived(disk, w)
    BY DEF RetiredInv, Sealed, Closing
  <2>4. RetiredStaysRetired'
    BY <2>2, <2>3 DEF RetiredStaysRetired, Loaded, Archived
  <2>5. Sealed' /\ Doomed'
    BY <2>1, <2>2, <2>3 DEF Sealed, Closing, Doomed, Archived
  <2>. QED
    BY <2>4, <2>5 DEF RetiredInv
<1>2. CASE Crash
  <2>1. \A t \in Threads : call'[t].phase = "idle"
    BY <1>2 DEF Crash, Idle
  <2>. QED
    BY <1>2, <2>1 DEF Crash, RetiredInv, Sealed, Closing, Doomed, Archived,
       RetiredStaysRetired
<1>3. CASE UNCHANGED vars
  BY <1>3 DEF vars, files, tables, history, answers, RetiredInv, Sealed, Closing, Doomed, Archived,
     RetiredStaysRetired
<1>. QED
  BY <1>1, <1>2, <1>3, RetiredThread DEF Next

(* A workspace whose archiving was acknowledged is never served again,     *)
(* after restarts and failed saves too, but for one that was archived      *)
(* while the call that makes it had yet to publish its runtime             *)
(* (workspace_archive, workspace_create, open_with_port).                  *)
THEOREM ArchivedIsNotServed == Spec => []RetiredStaysRetired
<1>1. Init => RetiredInv
  BY DEF Init, Idle, RetiredInv, Sealed, Closing, Doomed, RetiredStaysRetired
<1>2. RetiredInv => RetiredStaysRetired
  BY DEF RetiredInv
<1>. QED
  BY <1>1, <1>2, RetiredStep, NewIdsAlways, TypeInvariant, PTL DEF Spec

-----------------------------------------------------------------------------
(* Locks of the stores that served workspaces list.  What a new workspace  *)
(* lists before its runtime is there gets its lock from the thread that is *)
(* about to publish it.                                                    *)

Publishes(t, w) == call[t].phase = "publish" /\ call[t].args.ws = w
Serves(w) == w \in running \/ \E t \in Threads : Publishes(t, w)

Brings(t, w, db) ==
    call[t].db = db /\ (call[t].phase = "lock" \/ (Publishes(t, w) /\ w \notin running))
Backed(w, db) ==
    store_locks[db] # 0 \/ db \in refused \/ \E t \in Threads : Brings(t, w, db)

Supplied == \A w, db : Serves(w) /\ Lists(mem, w, db) => Backed(w, db)

LEMMA ListedType ==
    ASSUME NEW config, IsAppConfig(config), NEW w, NEW db, Lists(config, w, db)
    PROVE  db \in Databases /\ w \in Workspaces
  BY DEF IsAppConfig, WorkspaceConfig, Lists, Dbs, Store

LEMMA SuppliedThread ==
    ASSUME TypeInv, NewIds, Supplied, NEW t \in Threads, Begin(t) \/ Proceed(t)
    PROVE  Supplied'
<1>. DEFINE w == call[t].args.ws
<1>a. /\ CallOf(call', t)
      /\ call'[t].phase = "publish" =>
            workspace_create(t) /\ call'[t].args = call[t].args /\ call'[t].db = call[t].db
  <2>1. CASE Begin(t)
    BY <2>1, BeginFacts
  <2>2. CASE Proceed(t)
    BY <2>2, ProceedMoves DEF Moves
  <2>. QED
    BY <2>1, <2>2
<1>b. /\ IsAppConfig(mem) /\ store_locks \in [Databases -> 0..1] /\ running \subseteq DOMAIN mem
  BY DEF TypeInv, RegistryTypeOK
<1>c. \A u \in Threads \ {t} : call'[u] = call[u]
  BY <1>a DEF CallOf
\* A step of a thread that has no lock to bring.
<1>d. ASSUME call[t].phase \notin {"lock", "publish"}, store_locks' = store_locks,
             running' \subseteq running, refused \subseteq refused',
             NEW v, NEW db, Backed(v, db)
      PROVE  Backed(v, db)'
  BY <1>c, <1>d DEF Backed, Brings, Publishes
<1>e. ASSUME call'[t].phase # "publish", NEW v, Serves(v)', running' \subseteq running
      PROVE  Serves(v)
  BY <1>c, <1>e DEF Serves, Publishes
<1>1. CASE Elsewhere(t)
  <2>1. mem' = mem /\ (InsertLock(t) \/ refused' = refused)
    BY <1>1, ElsewhereFact DEF files
  <2>2. call'[t].phase # "publish"
    BY <1>1, <1>a DEF Elsewhere, Begin, active_runtime, PrepareWorkspace, PublishRuntime,
       RetireRuntime, InsertLock, CopyConfig, FindLock, Acquire, Release, At,
       workspace_create
  <2>3. CASE PublishRuntime(t)
    <3>1. /\ running' = running \cup {w} /\ store_locks' = store_locks
          /\ Publishes(t, w) /\ UNCHANGED refused
          /\ call[t].db = None \/ Lock(t, call[t].db)
      BY <2>3 DEF PublishRuntime, At, Publishes, history, answers
    <3>2. ASSUME NEW v, NEW db, Serves(v)', Lists(mem', v, db) PROVE Backed(v, db)'
      <4>1. Serves(v)
        BY <1>c, <2>2, <3>1, <3>2 DEF Serves, Publishes
      <4>2. Lists(mem, v, db) /\ db \in Databases
        BY <1>b, <2>1, <3>2, ListedType
      <4>3. Backed(v, db)
        BY <4>1, <4>2 DEF Supplied
      <4>4. CASE Brings(t, v, db)
        <5>1. call[t].db = db /\ Lock(t, db)
          BY <3>1, <4>2, <4>4, NoneAssumption DEF Brings
        <5>2. call'[t].phase = "lock" /\ call'[t].db = db
          BY <4>2, <5>1, Names DEF Lock, Phases
        <5>. QED
          BY <5>2 DEF Backed, Brings
      <4>5. ASSUME NEW u \in Threads \ {t}, Brings(u, v, db) PROVE Brings(u, v, db)'
        <5>1. CASE call[u].phase = "lock"
          BY <1>c, <4>5, <5>1 DEF Brings
        <5>2. CASE Publishes(u, v) /\ v \notin running
          <6>1. v # call[t].args.ws
            <7>1. Creating(t) /\ Creating(u)
              BY <3>1, <5>2 DEF NewIds, Publishes
            <7>. QED
              BY <5>2, <7>1 DEF NewIds, Publishes
          <6>. QED
            BY <1>c, <3>1, <4>5, <5>2, <6>1 DEF Brings, Publishes
        <5>. QED
          BY <4>5, <5>1, <5>2 DEF Brings
      <4>6. CASE store_locks[db] # 0 \/ db \in refused
        BY <2>1, <3>1, <4>6 DEF Backed
      <4>. QED
        BY <4>3, <4>4, <4>5, <4>6 DEF Backed
    <3>. QED
      BY <3>2 DEF Supplied, Lists
  <2>4. CASE InsertLock(t)
    <3>1. /\ store_locks' = [store_locks EXCEPT ![call[t].db] = NewLock(call[t].db)]
          /\ running' = running /\ call[t].phase = "lock"
          /\ refused' = refused \ {call[t].db}
      BY <2>4 DEF InsertLock
    <3>2. ASSUME NEW v, NEW db, Serves(v)', Lists(mem', v, db) PROVE Backed(v, db)'
      <4>1. Serves(v)
        BY <1>e, <2>2, <3>1, <3>2
      <4>2. Lists(mem, v, db) /\ db \in Databases
        BY <1>b, <2>1, <3>2, ListedType
      <4>3. Backed(v, db)
        BY <4>1, <4>2 DEF Supplied
      <4>4. CASE Brings(t, v, db)
        <5>1. call[t].db = db
          BY <4>4 DEF Brings
        <5>2. store_locks'[db] # 0
          BY <1>b, <3>1, <4>2, <5>1 DEF NewLock
        <5>. QED
          BY <5>2 DEF Backed
      <4>5. CASE store_locks[db] # 0
        <5>1. store_locks'[db] # 0
          BY <1>b, <3>1, <4>2, <4>5 DEF NewLock
        <5>. QED
          BY <5>1 DEF Backed
      <4>6. ASSUME NEW u \in Threads \ {t}, Brings(u, v, db) PROVE Brings(u, v, db)'
        BY <1>c, <3>1, <4>6 DEF Brings, Publishes
      <4>7. CASE db \in refused
        <5>1. CASE db = call[t].db
          <6>1. store_locks'[db] # 0
            BY <1>b, <3>1, <4>2, <5>1 DEF NewLock
          <6>. QED
            BY <6>1 DEF Backed
        <5>2. CASE db # call[t].db
          BY <3>1, <4>7, <5>2 DEF Backed
        <5>. QED
          BY <5>1, <5>2
      <4>. QED
        BY <4>3, <4>4, <4>5, <4>6, <4>7 DEF Backed
    <3>. QED
      BY <3>2 DEF Supplied, Lists
  <2>5. CASE ~PublishRuntime(t) /\ ~InsertLock(t)
    <3>1. /\ running' \subseteq running /\ store_locks' = store_locks
          /\ call[t].phase \notin {"lock", "publish"}
      BY <1>1, <2>5 DEF Elsewhere, Begin, active_runtime, PrepareWorkspace, RetireRuntime,
         CopyConfig, FindLock, Acquire, Release, At, tables
    <3>2. mem' = mem /\ refused' = refused
      BY <2>1, <2>5
    <3>. QED
      BY <1>d, <1>e, <2>2, <3>1, <3>2 DEF Supplied, Lists
  <2>. QED
    BY <2>3, <2>4, <2>5
<1>2. CASE workspace_create(t)
  <2>1. PICK next :
          /\ Alters(next, w, {}, IF call[t].db # None THEN {Owned[w]} ELSE {})
          /\ mem' = next
    BY <1>2, CreateFacts
  <2>2. /\ running' = running /\ store_locks' = store_locks /\ refused' = refused
        /\ w \notin DOMAIN mem /\ Creating(t) /\ call[t].phase = "config"
    BY <1>2, CreateFacts DEF tables, history, answers
  <2>3. call[t].db \in {None, Owned[w]}
    BY <2>2 DEF NewIds
  <2>4. ASSUME NEW v, NEW db, Serves(v)', Lists(mem', v, db), v # w PROVE Backed(v, db)'
    <3>1. Lists(mem, v, db)
      BY <2>1, <2>4 DEF Alters, Lists
    <3>2. Serves(v)
      BY <1>a, <1>c, <2>2, <2>4 DEF Serves, Publishes
    <3>3. Backed(v, db)
      BY <3>1, <3>2 DEF Supplied
    <3>. QED
      BY <1>d, <2>2, <3>3
  <2>5. ASSUME NEW v, v = w, NEW db, Serves(v)', Lists(mem', v, db) PROVE Backed(v, db)'
    <3>1. v \notin running'
      BY <1>b, <2>2, <2>5
    <3>2. PICK u \in Threads : Publishes(u, v)'
      BY <2>5, <3>1 DEF Serves
    <3>3. u = t
      <4>1. SUFFICES ASSUME u # t PROVE FALSE
        OBVIOUS
      <4>2. Creating(u) /\ call[u].args.ws = w
        BY <1>c, <2>5, <3>2, <4>1 DEF Publishes, NewIds
      <4>. QED
        BY <2>2, <4>1, <4>2 DEF NewIds
    <3>4. Publishes(t, v)' /\ call'[t].db = call[t].db
      BY <1>a, <3>2, <3>3 DEF Publishes
    <3>5. call[t].db # None /\ db = Owned[w]
      BY <2>1, <2>2, <2>5 DEF Alters, Lists
    <3>6. call'[t].db = db
      BY <2>3, <3>4, <3>5
    <3>7. Brings(t, v, db)'
      BY <3>1, <3>4, <3>6 DEF Brings
    <3>. QED
      BY <3>7 DEF Backed
  <2>. QED
    BY <2>4, <2>5 DEF Supplied, Lists
<1>3. CASE Rewrites(t)
  <2>1. call[t].phase = "config"
    BY <1>3, RewriteOutcome
  <2>2. call'[t].phase # "publish"
    <3>1. ASSUME workspace_create(t) PROVE FALSE
      BY <1>3, <3>1 DEF workspace_create, Rewrites, workspace_archive, workspace_visit,
         repository_attach, repository_detach, task_store_attach, task_store_detach, At
    <3>. QED
      BY <1>a, <3>1
  <2>3. CASE Silent
    <3>1. mem' = mem /\ running' = running /\ store_locks' = store_locks /\ refused' = refused
      BY <2>3 DEF Silent, files, tables
    <3>. QED
      BY <1>d, <1>e, <2>1, <2>2, <3>1 DEF Supplied, Lists
  <2>4. ASSUME NEW next, NEW less, NEW more, NEW new, Outcome(t, next, less, more, new)
        PROVE  Supplied'
    <3>1. /\ running' = running /\ store_locks' = store_locks /\ refused \subseteq refused'
          /\ Alters(next, w, less, more) /\ mem' \in {mem, next}
          /\ \A db \in more :
                mem' = mem \/ store_locks[db] # 0 \/ db \in refused' \/ Lock(t, db)
      BY <2>4 DEF Outcome, tables, Saves
    <3>2. ASSUME NEW v, NEW db, Serves(v)', Lists(mem', v, db) PROVE Backed(v, db)'
      <4>1. Serves(v)
        BY <1>e, <2>2, <3>1, <3>2
      <4>2. CASE Lists(mem, v, db)
        BY <1>d, <2>1, <3>1, <4>1, <4>2 DEF Supplied
      <4>3. CASE ~Lists(mem, v, db)
        <5>1. mem' # mem /\ Lists(next, v, db)
          BY <3>1, <3>2, <4>3
        <5>2. v = w /\ db \in more
          BY <3>1, <4>3, <5>1 DEF Alters, Lists
        <5>3. CASE store_locks[db] # 0 \/ db \in refused'
          BY <3>1, <5>3 DEF Backed
        <5>4. CASE Lock(t, db)
          <6>1. IsAppConfig(mem')
            BY ThreadConfigs
          <6>2. db \in Databases
            BY <3>2, <6>1, ListedType
          <6>3. call'[t].phase = "lock" /\ call'[t].db = db
            BY <5>4, <6>2, Names DEF Lock, Phases
          <6>. QED
            BY <6>3 DEF Backed, Brings
        <5>. QED
          BY <3>1, <5>1, <5>2, <5>3, <5>4
      <4>. QED
        BY <4>2, <4>3
    <3>. QED
      BY <3>2 DEF Supplied, Lists
  <2>. QED
    BY <1>3, <2>3, <2>4, RewriteOutcome
<1>. QED
  BY <1>1, <1>2, <1>3, ProceedCases

LEMMA SuppliedStep == TypeInv /\ NewIds /\ Supplied /\ [Next]_vars => Supplied'
<1>. SUFFICES ASSUME TypeInv, NewIds, Supplied, [Next]_vars PROVE Supplied'
  OBVIOUS
<1>1. CASE Start
  <2>1. \A t \in Threads : call'[t].phase = "idle"
    BY <1>1 DEF Start, TypeInv, Engaged
  <2>2. /\ mem' = disk /\ running' = Loaded(disk)
        /\ store_locks' = [db \in Databases |-> IF db \in Locked(disk) THEN 1 ELSE 0]
    BY <1>1 DEF Start
  <2>3. ASSUME NEW w, NEW db, Serves(w)', Lists(mem', w, db) PROVE Backed(w, db)'
    <3>1. w \in Loaded(disk) /\ Lists(disk, w, db)
      BY <2>1, <2>2, <2>3 DEF Serves, Publishes
    <3>2. db \in Databases
      BY <3>1, ListedType DEF TypeInv, RegistryTypeOK
    <3>3. db \in Locked(disk)
      BY <3>1 DEF Lists, Dbs, Locked
    <3>4. store_locks'[db] # 0
      BY <2>2, <3>2, <3>3
    <3>. QED
      BY <3>4 DEF Backed
  <2>. QED
    BY <2>3 DEF Supplied, Lists
<1>2. CASE Crash
  BY <1>2, NoConfig DEF Crash, Supplied, Lists
<1>3. CASE UNCHANGED vars
  BY <1>3 DEF vars, files, tables, history, answers, Supplied, Lists, Serves, Publishes, Backed, Brings
<1>. QED
  BY <1>1, <1>2, <1>3, SuppliedThread DEF Next

(* with_store finds a lock for every store that a served workspace lists,  *)
(* but for one whose attachment is about to make it and one that could not *)
(* be saved, which memory lists all the same (task_store_attach,           *)
(* repository_attach, open_with_port).                                     *)
THEOREM ListedStoresAreServed == Spec => []StoresAreServed
<1>1. Init => Supplied
  BY DEF Init, Idle, Supplied, Lists
<1>2. TypeInv /\ NewIds /\ Supplied => StoresAreServed
  <2>. SUFFICES ASSUME TypeInv, NewIds, Supplied, NEW w \in running, NEW s \in mem[w].stores
                PROVE  \/ store_locks[s.db] # 0
                       \/ s.db \in refused
                       \/ \E t \in Threads : call[t].phase = "lock" /\ call[t].db = s.db
    BY DEF StoresAreServed
  <2>1. w \in DOMAIN mem /\ Serves(w) /\ Lists(mem, w, s.db)
    BY DEF TypeInv, RegistryTypeOK, Serves, Lists, Dbs
  <2>2. Backed(w, s.db)
    BY <2>1 DEF Supplied
  <2>. QED
    BY <2>2 DEF Backed, Brings
<1>. QED
  BY <1>1, <1>2, SuppliedStep, NewIdsAlways, TypeInvariant, PTL DEF Spec

=============================================================================
