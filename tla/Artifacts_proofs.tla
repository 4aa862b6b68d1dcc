--------------------------- MODULE Artifacts_proofs ---------------------------
(***************************************************************************)
(* Proofs about Artifacts, for every set of paths, contents and requests.  *)
(* A request makes one commit, at most one request lies interrupted, what  *)
(* a receipt announces is what its commit holds, a delete takes what it    *)
(* saw, and what an interruption leaves behind can be retried.             *)
(***************************************************************************)
EXTENDS Artifacts, FiniteSetTheorems, TLAPS

Rid == call.args.rid

\* Phases of a call that has been let in and has not committed.
Entered == call.phase \notin {"idle", "look", "reply"}

\* Phases in which the receipt of the call is written.
HasReceipt ==
    \/ call.phase \in {"target", "recheck", "remove", "stage", "commit"}
    \/ call.phase = "plan" /\ call.pending

\* Phases in which the plan of the call is made.
Planned ==
    \/ call.phase \in {"truncate", "fill", "target", "recheck", "remove", "stage", "commit"}
    \/ call.phase = "plan" /\ call.pending

Types ==
    /\ log \in Seq([tree: Snapshot, by: Arguments \cup {Seed}])
    /\ index \in Snapshot
    /\ work \in Snapshot
    /\ host \in {"down", "seed", "up"}
    /\ call \in Call
    /\ answers \subseteq [args: Arguments, revision: Nat \ {0}]
    /\ raced \subseteq RequestIds
    /\ meddled \in BOOLEAN

\* Which calls run when, and which of them go through which phase.
Engaged ==
    /\ host = "down" => call.phase = "idle"
    /\ host = "seed" => call.phase # "idle" /\ call.args = Seed
    /\ host = "up" /\ call.phase # "idle" => call.args \in Arguments
    /\ call.phase = "admit" => call.args.op # "commit"
    /\ call.phase = "plan" => call.args.op = "commit"
    /\ call.phase = "target" => call.args.op = "upload"
    /\ call.phase \in {"recheck", "remove"} => call.args.op = "delete"

TypeInv == Types /\ Engaged

-----------------------------------------------------------------------------
(* Types.                                                                  *)

File == Contents \cup {None}

LEMMA SnapshotFields ==
    ASSUME NEW s
    PROVE  s \in Snapshot <=>
             /\ s = [files |-> s.files, receipts |-> s.receipts]
             /\ s.files \in [Paths -> File]
             /\ s.receipts \in [RequestIds -> Receipt \cup {Torn, None}]
  BY DEF Snapshot, File

LEMMA ReceiptPut ==
    ASSUME NEW s \in Snapshot, NEW r \in RequestIds, NEW rec \in Receipt \cup {Torn, None}
    PROVE  LET n == [s EXCEPT !.receipts[r] = rec] IN
           /\ n \in Snapshot
           /\ n.files = s.files
           /\ n.receipts[r] = rec
           /\ \A q \in RequestIds \ {r} : n.receipts[q] = s.receipts[q]
<1>. DEFINE n == [s EXCEPT !.receipts[r] = rec]
<1>1. /\ s = [files |-> s.files, receipts |-> s.receipts]
      /\ s.receipts \in [RequestIds -> Receipt \cup {Torn, None}]
  BY SnapshotFields
<1>2. n = [files |-> s.files, receipts |-> [s.receipts EXCEPT ![r] = rec]]
  BY <1>1
<1>3. [s.receipts EXCEPT ![r] = rec] \in [RequestIds -> Receipt \cup {Torn, None}]
  BY <1>1
<1>4. n \in Snapshot
  BY <1>2, <1>3, SnapshotFields
<1>. QED
  BY <1>1, <1>2, <1>4

LEMMA FilesPut ==
    ASSUME NEW s \in Snapshot, NEW P, NEW c \in File
    PROVE  LET n == SetFiles(s, P, c) IN
           /\ n \in Snapshot
           /\ n.receipts = s.receipts
           /\ \A p \in Paths : n.files[p] = IF p \in P THEN c ELSE s.files[p]
<1>. DEFINE fs == [p \in Paths |-> IF p \in P THEN c ELSE s.files[p]]
            n == SetFiles(s, P, c)
<1>1. s = [files |-> s.files, receipts |-> s.receipts] /\ s.files \in [Paths -> File]
  BY SnapshotFields
<1>2. n = [files |-> fs, receipts |-> s.receipts]
  BY <1>1 DEF SetFiles
<1>3. fs \in [Paths -> File]
  BY <1>1
<1>4. n \in Snapshot
  BY <1>2, <1>3, SnapshotFields
<1>. QED
  BY <1>2, <1>4

LEMMA CallFields ==
    ASSUME NEW c
    PROVE  c \in Call <=>
             /\ c = [phase |-> c.phase, args |-> c.args, index |-> c.index,
                     plan |-> c.plan, pending |-> c.pending, revision |-> c.revision]
             /\ c.phase \in Phases
             /\ c.args \in Arguments \cup {Seed, None}
             /\ c.index \in Snapshot
             /\ c.plan \in Plans
             /\ c.pending \in BOOLEAN
             /\ c.revision \in Nat
  BY DEF Call

LEMMA EmptyType == Empty \in Snapshot /\ <<>> \in Plans
<1>1. Empty.files \in [Paths -> File]
  BY DEF Empty, File
<1>2. Empty.receipts \in [RequestIds -> Receipt \cup {Torn, None}]
  BY DEF Empty
<1>3. <<>> \in [{} -> File] /\ {} \in SUBSET Paths
  OBVIOUS
<1>. QED
  BY <1>1, <1>2, <1>3, SnapshotFields DEF Empty, Plans, File

\* The forms in which calls are changed.
LEMMA PutPhase ==
    ASSUME NEW A, NEW B, NEW C, NEW D, NEW E, NEW F,
           NEW c \in [phase: A, args: B, index: C, plan: D, pending: E, revision: F],
           NEW d, NEW ph \in A,
           d = [c EXCEPT !.phase = ph]
    PROVE  /\ d \in [phase: A, args: B, index: C, plan: D, pending: E, revision: F]
           /\ d.phase = ph /\ d.args = c.args /\ d.index = c.index
           /\ d.plan = c.plan /\ d.pending = c.pending /\ d.revision = c.revision
  OBVIOUS

LEMMA PutArgs ==
    ASSUME NEW A, NEW B, NEW C, NEW D, NEW E, NEW F,
           NEW c \in [phase: A, args: B, index: C, plan: D, pending: E, revision: F],
           NEW d, NEW ph \in A, NEW args \in B,
           d = [c EXCEPT !.phase = ph, !.args = args]
    PROVE  /\ d \in [phase: A, args: B, index: C, plan: D, pending: E, revision: F]
           /\ d.phase = ph /\ d.args = args /\ d.index = c.index
           /\ d.plan = c.plan /\ d.pending = c.pending /\ d.revision = c.revision
  OBVIOUS

LEMMA PutPlan ==
    ASSUME NEW A, NEW B, NEW C, NEW D, NEW E, NEW F,
           NEW c \in [phase: A, args: B, index: C, plan: D, pending: E, revision: F],
           NEW d, NEW ph \in A, NEW plan \in D,
           d = [c EXCEPT !.phase = ph, !.plan = plan]
    PROVE  /\ d \in [phase: A, args: B, index: C, plan: D, pending: E, revision: F]
           /\ d.phase = ph /\ d.args = c.args /\ d.index = c.index
           /\ d.plan = plan /\ d.pending = c.pending /\ d.revision = c.revision
  OBVIOUS

LEMMA PutIndex ==
    ASSUME NEW A, NEW B, NEW C, NEW D, NEW E, NEW F,
           NEW c \in [phase: A, args: B, index: C, plan: D, pending: E, revision: F],
           NEW d, NEW ph \in A, NEW ix \in C,
           d = [c EXCEPT !.phase = ph, !.index = ix]
    PROVE  /\ d \in [phase: A, args: B, index: C, plan: D, pending: E, revision: F]
           /\ d.phase = ph /\ d.args = c.args /\ d.index = ix
           /\ d.plan = c.plan /\ d.pending = c.pending /\ d.revision = c.revision
  OBVIOUS

LEMMA PutRevision ==
    ASSUME NEW A, NEW B, NEW C, NEW D, NEW E, NEW F,
           NEW c \in [phase: A, args: B, index: C, plan: D, pending: E, revision: F],
           NEW d, NEW ph \in A, NEW rev \in F,
           d = [c EXCEPT !.phase = ph, !.revision = rev]
    PROVE  /\ d \in [phase: A, args: B, index: C, plan: D, pending: E, revision: F]
           /\ d.phase = ph /\ d.args = c.args /\ d.index = c.index
           /\ d.plan = c.plan /\ d.pending = c.pending /\ d.revision = rev
  OBVIOUS

LEMMA PutEntry ==
    ASSUME NEW A, NEW B, NEW C, NEW D, NEW E, NEW F,
           NEW c \in [phase: A, args: B, index: C, plan: D, pending: E, revision: F],
           NEW d, NEW ph \in A, NEW ix \in C, NEW plan \in D, NEW pe \in E,
           d = [c EXCEPT !.phase = ph, !.index = ix, !.pending = pe, !.plan = plan]
    PROVE  /\ d \in [phase: A, args: B, index: C, plan: D, pending: E, revision: F]
           /\ d.phase = ph /\ d.args = c.args /\ d.index = ix
           /\ d.plan = plan /\ d.pending = pe /\ d.revision = c.revision
  OBVIOUS

\* What a call is after a step.
CallIs(phase, ix, plan, pending, revision) ==
    /\ call' \in Call
    /\ call'.phase = phase /\ call'.args = call.args /\ call'.index = ix
    /\ call'.plan = plan /\ call'.pending = pending /\ call'.revision = revision

LEMMA GotoIs ==
    ASSUME call \in Call, NEW phase \in Phases, call' = [call EXCEPT !.phase = phase]
    PROVE  CallIs(phase, call.index, call.plan, call.pending, call.revision)
  BY PutPhase DEF CallIs, Call

LEMMA PlanIs ==
    ASSUME call \in Call, NEW phase \in Phases, NEW plan \in Plans,
           call' = [call EXCEPT !.phase = phase, !.plan = plan]
    PROVE  CallIs(phase, call.index, plan, call.pending, call.revision)
  BY PutPlan DEF CallIs, Call

LEMMA IndexIs ==
    ASSUME call \in Call, NEW phase \in Phases, NEW ix \in Snapshot,
           call' = [call EXCEPT !.phase = phase, !.index = ix]
    PROVE  CallIs(phase, ix, call.plan, call.pending, call.revision)
  BY PutIndex DEF CallIs, Call

LEMMA RevisionIs ==
    ASSUME call \in Call, NEW phase \in Phases, NEW revision \in Nat,
           call' = [call EXCEPT !.phase = phase, !.revision = revision]
    PROVE  CallIs(phase, call.index, call.plan, call.pending, revision)
  BY PutRevision DEF CallIs, Call

LEMMA EntryIs ==
    ASSUME call \in Call, NEW phase \in Phases, NEW ix \in Snapshot,
           NEW pending \in BOOLEAN, NEW plan \in Plans,
           call' = [call EXCEPT !.phase = phase, !.index = ix, !.pending = pending,
                                !.plan = plan]
    PROVE  CallIs(phase, ix, plan, pending, call.revision)
  BY PutEntry DEF CallIs, Call

LEMMA IdleType == Idle \in Call /\ Idle.phase = "idle"
  BY EmptyType, CallFields DEF Idle, Phases

LEMMA BeginIs ==
    ASSUME NEW a \in Arguments \cup {Seed}, call' = [Idle EXCEPT !.phase = "look", !.args = a]
    PROVE  call' \in Call /\ call'.phase = "look" /\ call'.args = a
<1>1. Idle \in Call
  BY IdleType
<1>2. "look" \in Phases /\ a \in Arguments \cup {Seed, None}
  BY DEF Phases
<1>. QED
  BY <1>1, <1>2, PutArgs DEF Call

LEMMA PlanType ==
    ASSUME NEW P \in SUBSET Paths, NEW f \in [P -> File]
    PROVE  f \in Plans
  BY DEF Plans, File

LEMMA ArgumentFacts ==
    ASSUME NEW a \in Arguments \cup {Seed}
    PROVE  /\ a.op \in Operations /\ a.rid \in RequestIds
           /\ a.paths \subseteq Paths /\ a.paths # {}
           /\ a.op = "upload" => a.content \in Contents \ Links
           /\ a.op # "upload" => a.content = None
           /\ a = [op |-> a.op, rid |-> a.rid, paths |-> a.paths, content |-> a.content]
<1>1. a.rid \in RequestIds
  BY DEF RequestIds
<1>. QED
  BY <1>1, ArgumentsAssumption

LEMMA ReceiptFacts ==
    /\ \A rec : rec \in Receipt <=> /\ rec = [op |-> rec.op, plan |-> rec.plan]
                                    /\ rec.op \in Operations /\ rec.plan \in Plans
    /\ Torn \notin Receipt /\ None \notin Receipt /\ Torn # None
<1>1. \A rec : rec \in Receipt <=> /\ rec = [op |-> rec.op, plan |-> rec.plan]
                                   /\ rec.op \in Operations /\ rec.plan \in Plans
  BY DEF Receipt
<1>2. Torn.op = "torn" /\ "torn" \notin Operations
  BY DEF Torn, Operations
<1>. QED
  BY <1>1, <1>2, NoneAssumption

LEMMA PlanDomain ==
    ASSUME NEW f \in Plans
    PROVE  DOMAIN f \subseteq Paths /\ f \in [DOMAIN f -> File]
  BY DEF Plans, File

LEMMA Closed ==
    ASSUME TypeInv, call.phase # "idle"
    PROVE  /\ call.args \in Arguments \cup {Seed} /\ host # "down"
           /\ call \in Call /\ call.phase \in Phases /\ call.index \in Snapshot
           /\ call.plan \in Plans /\ call.pending \in BOOLEAN
  BY CallFields DEF TypeInv, Types, Engaged

-----------------------------------------------------------------------------
(* Steps: what each does to a call and to the files.                       *)

Rest == UNCHANGED <<log, index, work, raced, meddled>>

\* A call ends: with an answer, with an error or with the host.
Ends == call' = Idle /\ host' \in {"down", "up"} /\ Rest

Begins ==
    /\ call.phase = "idle"
    /\ call' \in Call /\ call'.phase = "look"
    /\ \/ host' = "seed" /\ call'.args = Seed
       \/ host' = "up" /\ call'.args \in Arguments
    /\ Rest

\* An interrupted request goes on, the seed's included.
Resumable(a) ==
    /\ Pending(a) /\ OnlyOwn(a)
    /\ a.op # "commit" => ensure_safe_live_path(a.paths)
    /\ a.op # "upload" => validate_pending_receipt_index(a)
    /\ a.op = "delete" => validate_pending_delete_index(a)
    /\ a.op = "commit" => ChangedFiles = a.paths /\ validate_pending_artifact_index(a)

Uploaded(a) == [p \in a.paths |-> a.content]

Enters ==
    /\ call.phase = "look"
    /\ find_original_receipt(Rid) = {}
    /\ \/ /\ Resumable(call.args)
          /\ CallIs(Resuming(call.args.op), index, Written(call.args).plan, TRUE, call.revision)
       \/ /\ Starts(call.args)
          /\ CallIs(Starting(call.args.op), index, <<>>, FALSE, call.revision)
       \/ /\ Starts(call.args) /\ call.args.op = "upload"
          /\ CallIs("truncate", index, Uploaded(call.args), FALSE, call.revision)
    /\ host' = host /\ Rest

\* A call moves on in memory.
Moves ==
    /\ \/ /\ call.phase = "admit"
          /\ \E plan \in Plans :
                /\ CallIs("truncate", call.index, plan, call.pending, call.revision)
                /\ DOMAIN plan = call.args.paths
                /\ call.args.op = "upload" =>
                      \A p \in call.args.paths : plan[p] = call.args.content
                /\ call.args.op = "delete" =>
                      \A p \in call.args.paths :
                        plan[p] = call.index.files[p] /\ plan[p] \notin Links
       \/ /\ call.phase = "recheck"
          /\ \A p \in call.args.paths : work.files[p] \in {None, call.plan[p]}
          /\ CallIs("remove", call.index, call.plan, call.pending, call.revision)
       \/ /\ call.phase = "plan"
          /\ \E plan \in Plans :
                /\ CallIs(IF call.pending THEN "stage" ELSE "truncate", call.index, plan,
                          call.pending, call.revision)
                /\ DOMAIN plan = call.args.paths
                /\ \A p \in call.args.paths : plan[p] = work.files[p]
                /\ call.pending => plan = call.plan
    /\ host' = host /\ Rest

\* A call writes in the working tree.
Writes ==
    /\ \/ /\ call.phase = "truncate"
          /\ CallIs("fill", call.index, call.plan, call.pending, call.revision)
          /\ work' = [work EXCEPT !.receipts[Rid] = Torn]
       \/ /\ call.phase = "fill"
          /\ CallIs(CASE call.args.op = "upload" -> "target"
                      [] call.args.op = "delete" -> "remove"
                      [] call.args.op = "commit" -> "stage",
                    call.index, call.plan, call.pending, call.revision)
          /\ work' = [work EXCEPT !.receipts[Rid] = [op |-> call.args.op, plan |-> call.plan]]
       \/ /\ call.phase = "target"
          /\ CallIs("stage", call.index, call.plan, call.pending, call.revision)
          /\ work' = SetFiles(work, call.args.paths, call.args.content)
       \/ /\ call.phase = "remove"
          /\ CallIs("stage", call.index, call.plan, call.pending, call.revision)
          /\ work' = SetFiles(work, call.args.paths, None)
    /\ UNCHANGED <<log, index, host, raced, meddled>>

Stages ==
    /\ call.phase = "stage"
    /\ \A p \in call.args.paths \ Removals : work.files[p] # None
    /\ index' = Staged /\ Staged \in Snapshot
    /\ CallIs("commit", Staged, call.plan, call.pending, call.revision)
    /\ UNCHANGED <<log, work, host, raced, meddled>>

Commits ==
    /\ call.phase = "commit"
    /\ log' = Append(log, [tree |-> call.index, by |-> call.args])
    /\ CallIs("reply", call.index, call.plan, call.pending, Len(log) + 1)
    /\ meddled' = FALSE
    /\ UNCHANGED <<index, work, host, raced>>

\* Agents edit a file or stage it.
Meddles ==
    /\ \E p \in Paths :
        /\ \/ \E c \in File : work' = SetFiles(work, {p}, c) /\ UNCHANGED index
           \/ index' = SetFiles(index, {p}, work.files[p]) /\ UNCHANGED work
        /\ raced' = IF call.phase # "idle" /\ p \in call.args.paths
                    THEN raced \cup {Rid} ELSE raced
    /\ meddled' = (meddled \/ call.phase # "idle" \/ ChangedReceipts # {})
    /\ UNCHANGED <<log, host, call>>

LEMMA LookCases ==
    ASSUME TypeInv, Look
    PROVE  (Ends \/ Enters) /\ Rest
<1>. DEFINE a == call.args
<1>1. /\ a \in Arguments \cup {Seed} /\ a.op \in Operations /\ call \in Call
      /\ index \in Snapshot /\ work \in Snapshot /\ a.rid \in RequestIds
  BY Closed, ArgumentFacts DEF Look, TypeInv, Types
<1>2. CASE Fail \/ Answer(Original(a.rid))
  BY <1>2 DEF Fail, Answer, End, Ends, Rest
<1>3. CASE Resumes(a) /\ find_original_receipt(a.rid) = {} /\ Enter(Resuming(a.op), TRUE)
  <2>1. Written(a) \in Receipt /\ Written(a).plan \in Plans
    BY <1>1, <1>3, SnapshotFields, ReceiptFacts DEF Resumes, Pending, Written
  <2>2. Resuming(a.op) \in Phases
    BY <1>1 DEF Resuming, Operations, Phases
  <2>3. call' = [call EXCEPT !.phase = Resuming(a.op), !.index = index, !.pending = TRUE,
                             !.plan = Written(a).plan]
    BY <1>3 DEF Enter
  <2>4. CallIs(Resuming(a.op), index, Written(a).plan, TRUE, call.revision)
    BY <1>1, <2>1, <2>2, <2>3, EntryIs
  <2>5. Resumable(a)
    BY <1>1, <1>3 DEF Resumes, Resumable, Operations
  <2>. QED
    BY <1>3, <2>4, <2>5 DEF Enter, Enters, Rest, Look, Rid
<1>4. CASE Starts(a) /\ find_original_receipt(a.rid) = {} /\ Enter(Starting(a.op), FALSE)
  <2>2. Starting(a.op) \in Phases
    BY DEF Starting, Phases
  <2>3. call' = [call EXCEPT !.phase = Starting(a.op), !.index = index, !.pending = FALSE,
                             !.plan = <<>>]
    BY <1>4 DEF Enter
  <2>4. CallIs(Starting(a.op), index, <<>>, FALSE, call.revision)
    BY <1>1, <2>2, <2>3, EntryIs, EmptyType
  <2>. QED
    BY <1>4, <2>4 DEF Enter, Enters, Rest, Look, Rid
<1>. QED
  BY <1>2, <1>3, <1>4 DEF Look

LEMMA SeedCases ==
    ASSUME TypeInv, LookSeed
    PROVE  (Ends \/ Enters) /\ Rest
<1>1. /\ call.args = Seed /\ call \in Call /\ Seed.op = "upload" /\ Seed.paths \subseteq Paths
      /\ index \in Snapshot /\ work \in Snapshot /\ Seed.content \in Contents \ Links
      /\ Seed.rid \in RequestIds
  BY Closed, ArgumentFacts, SeedAssumption DEF LookSeed, TypeInv, Types, Engaged
<1>2. CASE Fail
  BY <1>2 DEF Fail, End, Ends, Rest
<1>3. CASE ~Fail
  <2>. DEFINE phase == IF Pending(Seed) THEN "target" ELSE "truncate"
  <2>1. /\ seed_workspace_readme /\ UNCHANGED <<log, index, work, host, answers, raced, meddled>>
        /\ call' = [call EXCEPT !.phase = phase, !.index = index, !.pending = Pending(Seed),
                               !.plan = [p \in Seed.paths |-> Seed.content]]
    BY <1>3 DEF LookSeed
  <2>2. phase \in Phases /\ Pending(Seed) \in BOOLEAN
    BY DEF Phases, Pending, Fits
  <2>3. Uploaded(Seed) \in [Seed.paths -> File] /\ Uploaded(Seed) \in Plans
    BY <1>1, PlanType DEF Uploaded, File
  <2>4. CallIs(phase, index, Uploaded(Seed), Pending(Seed), call.revision)
    BY <1>1, <2>1, <2>2, <2>3, EntryIs DEF Uploaded
  <2>5. find_original_receipt(Seed.rid) = {} /\ ensure_safe_live_path(Seed.paths)
    BY <1>1, <2>1, ContentsAssumption DEF seed_workspace_readme, ensure_safe_live_path
  <2>6. CASE Pending(Seed)
    <3>1. OnlyOwn(Seed)
      BY <2>1 DEF seed_workspace_readme, Clean, OnlyOwn
    <3>2. Resumable(Seed)
      BY <1>1, <2>5, <2>6, <3>1 DEF Resumable
    <3>3. Written(Seed).plan = Uploaded(Seed)
      <4>1. /\ Written(Seed) \in Receipt /\ DOMAIN Written(Seed).plan = Seed.paths
            /\ \A p \in Seed.paths : Written(Seed).plan[p] = Seed.content
        BY <1>1, <2>6, SnapshotFields DEF Pending, Fits, Written
      <4>2. Written(Seed).plan \in [Seed.paths -> File]
        BY <4>1, ReceiptFacts, PlanDomain
      <4>. QED
        BY <4>1, <4>2 DEF Uploaded
    <3>4. CallIs(Resuming("upload"), index, Written(Seed).plan, TRUE, call.revision)
      BY <2>4, <2>6, <3>3 DEF Resuming
    <3>. QED
      BY <1>1, <2>1, <2>5, <3>2, <3>4 DEF Enters, Rest, LookSeed, Rid
  <2>7. CASE ~Pending(Seed)
    <3>1. Starts(Seed)
      BY <1>1, <2>1, <2>5, <2>7 DEF Starts, seed_workspace_readme
    <3>2. Pending(Seed) = FALSE
      BY <2>2, <2>7
    <3>3. CallIs("truncate", index, Uploaded(Seed), FALSE, call.revision)
      BY <2>4, <2>7, <3>2
    <3>. QED
      BY <1>1, <2>1, <2>5, <3>1, <3>3 DEF Enters, Rest, LookSeed, Rid
  <2>. QED
    BY <2>6, <2>7
<1>. QED
  BY <1>2, <1>3

LEMMA MoveCases ==
    ASSUME TypeInv, Admit \/ Recheck \/ artifact_content_fingerprints
    PROVE  Ends \/ Moves
<1>. DEFINE a == call.args
<1>1. /\ a \in Arguments \cup {Seed} /\ a.paths \subseteq Paths /\ a.op \in Operations
      /\ call \in Call /\ call.index.files \in [Paths -> File]
      /\ work.files \in [Paths -> File]
      /\ a.op = "upload" => a.content \in File
  BY Closed, ArgumentFacts, SnapshotFields
     DEF Admit, Recheck, artifact_content_fingerprints, TypeInv, Types, File
<1>2. CASE Fail
  BY <1>2 DEF Fail, End, Ends, Rest
<1>3. CASE Admit /\ ~Fail
  <2>. DEFINE plan == [p \in a.paths |-> IF a.op = "upload" THEN a.content
                                         ELSE call.index.files[p]]
  <2>1. /\ call' = [call EXCEPT !.phase = "truncate", !.plan = plan]
        /\ a.op = "delete" => \A p \in a.paths : call.index.files[p] \notin Links
        /\ UNCHANGED <<log, index, work, host, answers, raced, meddled>> /\ call.phase = "admit"
    BY <1>3 DEF Admit
  <2>2. plan \in [a.paths -> File]
    BY <1>1
  <2>3. plan \in Plans
    BY <1>1, <2>2, PlanType
  <2>4. CallIs("truncate", call.index, plan, call.pending, call.revision)
    BY <1>1, <2>1, <2>3, PlanIs DEF Phases
  <2>5. /\ DOMAIN plan = a.paths
        /\ a.op = "upload" => \A p \in a.paths : plan[p] = a.content
        /\ a.op = "delete" =>
              \A p \in a.paths : plan[p] = call.index.files[p] /\ plan[p] \notin Links
    BY <2>1
  <2>. QED
    BY <2>1, <2>3, <2>4, <2>5 DEF Moves, Rest
<1>4. CASE Recheck /\ ~Fail
  <2>1. CallIs("remove", call.index, call.plan, call.pending, call.revision)
    BY <1>1, <1>4, GotoIs DEF Recheck, Step, Goto, Phases
  <2>. QED
    BY <1>4, <2>1 DEF Recheck, Step, Moves, Rest
<1>5. CASE artifact_content_fingerprints /\ ~Fail
  <2>. DEFINE plan == [p \in a.paths |-> work.files[p]]
              phase == IF call.pending THEN "stage" ELSE "truncate"
  <2>1. /\ call' = [call EXCEPT !.phase = phase, !.plan = plan]
        /\ call.pending => plan = call.plan
        /\ UNCHANGED <<log, index, work, host, answers, raced, meddled>> /\ call.phase = "plan"
    BY <1>5 DEF artifact_content_fingerprints
  <2>2. plan \in [a.paths -> File]
    BY <1>1
  <2>3. plan \in Plans
    BY <1>1, <2>2, PlanType
  <2>4. CallIs(phase, call.index, plan, call.pending, call.revision)
    BY <1>1, <2>1, <2>3, PlanIs DEF Phases
  <2>5. DOMAIN plan = a.paths /\ \A p \in a.paths : plan[p] = work.files[p]
    OBVIOUS
  <2>. QED
    BY <2>1, <2>3, <2>4, <2>5 DEF Moves, Rest
<1>. QED
  BY <1>2, <1>3, <1>4, <1>5

LEMMA WriteCases ==
    ASSUME TypeInv, write_artifact_receipt \/ WriteTarget \/ RemoveTarget
    PROVE  Ends \/ Writes
<1>1. call \in Call
  BY DEF TypeInv, Types
<1>2. CASE Fail
  BY <1>2 DEF Fail, End, Ends, Rest
<1>3. CASE write_artifact_receipt /\ call.phase = "truncate"
  <2>1. CallIs("fill", call.index, call.plan, call.pending, call.revision)
    BY <1>1, <1>3, GotoIs DEF write_artifact_receipt, Goto, Phases
  <2>. QED
    BY <1>3, <2>1 DEF write_artifact_receipt, Writes, Rid
<1>4. CASE write_artifact_receipt /\ call.phase = "fill"
  <2>. DEFINE phase == CASE call.args.op = "upload" -> "target"
                         [] call.args.op = "delete" -> "remove"
                         [] call.args.op = "commit" -> "stage"
  <2>1. phase \in Phases /\ call' = [call EXCEPT !.phase = phase]
    BY <1>4, Closed, ArgumentFacts DEF Phases, Operations, write_artifact_receipt, Goto
  <2>2. CallIs(phase, call.index, call.plan, call.pending, call.revision)
    BY <1>1, <2>1, GotoIs
  <2>. QED
    BY <1>4, <2>2 DEF write_artifact_receipt, Writes, Rid
<1>5. CASE WriteTarget /\ ~Fail
  <2>1. CallIs("stage", call.index, call.plan, call.pending, call.revision)
    BY <1>1, <1>5, GotoIs DEF WriteTarget, Goto, Phases
  <2>. QED
    BY <1>5, <2>1 DEF WriteTarget, Writes
<1>6. CASE RemoveTarget /\ ~Fail
  <2>1. CallIs("stage", call.index, call.plan, call.pending, call.revision)
    BY <1>1, <1>6, GotoIs DEF RemoveTarget, Goto, Phases
  <2>. QED
    BY <1>6, <2>1 DEF RemoveTarget, Writes
<1>. QED
  BY <1>2, <1>3, <1>4, <1>5, <1>6 DEF write_artifact_receipt

LEMMA StagedType ==
    ASSUME TypeInv, call.phase # "idle"
    PROVE  /\ Staged \in Snapshot
           /\ Staged.receipts[Rid] = work.receipts[Rid]
           /\ \A r \in RequestIds \ {Rid} : Staged.receipts[r] = call.index.receipts[r]
           /\ \A p \in Paths : Staged.files[p] =
                IF p \in Removals THEN None
                ELSE IF p \in call.args.paths THEN work.files[p] ELSE call.index.files[p]
<1>. DEFINE fs == [p \in Paths |-> IF p \in Removals THEN None
                                  ELSE IF p \in call.args.paths THEN work.files[p]
                                  ELSE call.index.files[p]]
            rs == [call.index.receipts EXCEPT ![Rid] = work.receipts[Rid]]
<1>1. /\ call.index.files \in [Paths -> File] /\ work.files \in [Paths -> File]
      /\ call.index.receipts \in [RequestIds -> Receipt \cup {Torn, None}]
      /\ work.receipts \in [RequestIds -> Receipt \cup {Torn, None}]
      /\ Rid \in RequestIds
  BY Closed, ArgumentFacts, SnapshotFields DEF TypeInv, Types, Rid
<1>2. fs \in [Paths -> File] /\ rs \in [RequestIds -> Receipt \cup {Torn, None}]
  BY <1>1 DEF File
<1>3. Staged = [files |-> fs, receipts |-> rs]
  BY DEF Staged, Written, Rid
<1>4. Staged \in Snapshot
  BY <1>2, <1>3, SnapshotFields
<1>. QED
  BY <1>1, <1>3, <1>4

LEMMA StageCases ==
    ASSUME TypeInv, Stage
    PROVE  Ends \/ Stages
<1>1. call \in Call /\ Staged \in Snapshot
  BY StagedType DEF TypeInv, Types, Stage
<1>2. CASE Fail
  BY <1>2 DEF Fail, End, Ends, Rest
<1>3. CASE ~Fail
  <2>1. CallIs("commit", Staged, call.plan, call.pending, call.revision)
    BY <1>1, <1>3, IndexIs DEF Stage, Phases
  <2>. QED
    BY <1>1, <1>3, <2>1 DEF Stage, Stages
<1>. QED
  BY <1>2, <1>3

LEMMA CommitCases ==
    ASSUME TypeInv, Commit
    PROVE  Commits
<1>1. call \in Call /\ Len(log) + 1 \in Nat
  BY DEF TypeInv, Types
<1>2. CallIs("reply", call.index, call.plan, call.pending, Len(log) + 1)
  BY <1>1, RevisionIs DEF Commit, Phases
<1>. QED
  BY <1>2 DEF Commit, Commits

LEMMA BeginCases ==
    ASSUME TypeInv, Begin \/ Start
    PROVE  Begins /\ answers' = answers
<1>1. CASE Begin
  <2>1. PICK a \in Arguments : call' = [Idle EXCEPT !.phase = "look", !.args = a]
    BY <1>1 DEF Begin
  <2>. QED
    BY <1>1, <2>1, BeginIs DEF Begin, Begins, Rest
<1>2. CASE Start
  <2>1. call.phase = "idle"
    BY <1>2 DEF Start, TypeInv, Engaged
  <2>. QED
    BY <1>2, <2>1, BeginIs DEF Start, Begins, Rest
<1>. QED
  BY <1>1, <1>2

LEMMA HandCases ==
    ASSUME TypeInv, Edit \/ StageByHand
    PROVE  Meddles /\ answers' = answers
  BY EditableAssumption DEF Edit, StageByHand, Meddle, Meddles, Rid, File

LEMMA FaultCases ==
    ASSUME WriteFails \/ ReceiptTears \/ Crash \/ Reply
    PROVE  Ends
  BY DEF WriteFails, ReceiptTears, Crash, Reply, Answer, Fail, End, Ends, Rest

\* Every step is one of these.
Steps ==
    \/ Ends \/ Begins \/ Enters \/ Moves \/ Writes \/ Stages \/ Commits \/ Meddles

LEMMA NextCases ==
    ASSUME TypeInv, Next
    PROVE  Steps
  BY BeginCases, LookCases, SeedCases, MoveCases, WriteCases, StageCases, CommitCases,
     HandCases, FaultCases DEF Next, Proceed, Steps

Entry == [tree: Snapshot, by: Arguments \cup {Seed}]

LEMMA EntryType ==
    ASSUME TypeInv
    PROVE  /\ log \in Seq(Entry)
           /\ \A i \in DOMAIN log : log[i].tree \in Snapshot /\ log[i].by \in Arguments \cup {Seed}
           /\ DOMAIN log = 1 .. Len(log) /\ Len(log) \in Nat
           /\ log # <<>> => Len(log) \in DOMAIN log
<1>1. log \in Seq(Entry)
  BY DEF TypeInv, Types, Entry
<1>2. /\ \A i \in DOMAIN log : log[i] \in Entry
      /\ DOMAIN log = 1 .. Len(log) /\ Len(log) \in Nat
      /\ log # <<>> => Len(log) \in DOMAIN log
  BY <1>1
<1>3. \A e \in Entry : e.tree \in Snapshot /\ e.by \in Arguments \cup {Seed}
  BY DEF Entry
<1>. QED
  BY <1>1, <1>2, <1>3

LEMMA Unseen ==
    ASSUME UNCHANGED log
    PROVE  /\ Head_' = Head_
           /\ \A r : find_original_receipt(r)' = find_original_receipt(r)
           /\ UNCHANGED <<index, work>> =>
                ChangedFiles' = ChangedFiles /\ ChangedReceipts' = ChangedReceipts
<1>1. Head_' = Head_
  BY DEF Head_
<1>2. \A i : Before(i)' = Before(i)
  BY DEF Before
<1>3. \A r : find_original_receipt(r)' = find_original_receipt(r)
  BY <1>2 DEF find_original_receipt
<1>. QED
  BY <1>1, <1>3 DEF ChangedFiles, ChangedReceipts

\* What writes do to the working tree.
LEMMA WriteFacts ==
    ASSUME TypeInv, Writes
    PROVE  /\ work' \in Snapshot /\ call.args.paths \subseteq Paths /\ Rid \in RequestIds
           /\ \A r \in RequestIds \ {Rid} : work'.receipts[r] = work.receipts[r]
           /\ call.phase = "truncate" => work'.receipts[Rid] = Torn
           /\ call.phase = "fill" =>
                work'.receipts[Rid] = [op |-> call.args.op, plan |-> call.plan]
           /\ call.phase \in {"truncate", "fill"} => work'.files = work.files
           /\ call.phase \in {"target", "remove"} => work'.receipts = work.receipts
           /\ call.phase = "target" => \A p \in Paths : work'.files[p] =
                IF p \in call.args.paths THEN call.args.content ELSE work.files[p]
           /\ call.phase = "remove" => \A p \in Paths : work'.files[p] =
                IF p \in call.args.paths THEN None ELSE work.files[p]
<1>1. /\ call.args \in Arguments \cup {Seed} /\ call.args.paths \subseteq Paths
      /\ Rid \in RequestIds /\ work \in Snapshot /\ call.plan \in Plans
      /\ call.args.op \in Operations
  BY Closed, ArgumentFacts DEF Writes, TypeInv, Types, Rid
<1>2. [op |-> call.args.op, plan |-> call.plan] \in Receipt
  BY <1>1 DEF Receipt
<1>3. CASE call.phase = "truncate"
  <2>1. work' = [work EXCEPT !.receipts[Rid] = Torn]
    BY <1>3 DEF Writes
  <2>. QED
    BY <1>1, <1>3, <2>1, ReceiptPut
<1>4. CASE call.phase = "fill"
  <2>1. work' = [work EXCEPT !.receipts[Rid] = [op |-> call.args.op, plan |-> call.plan]]
    BY <1>4 DEF Writes
  <2>. QED
    BY <1>1, <1>2, <1>4, <2>1, ReceiptPut
<1>5. CASE call.phase = "target"
  <2>1. work' = SetFiles(work, call.args.paths, call.args.content)
    BY <1>5 DEF Writes
  <2>2. call.args.content \in File
    BY <1>1, <1>5, ArgumentFacts DEF TypeInv, Engaged, File
  <2>. QED
    BY <1>1, <1>5, <2>1, <2>2, FilesPut
<1>6. CASE call.phase = "remove"
  <2>1. work' = SetFiles(work, call.args.paths, None)
    BY <1>6 DEF Writes
  <2>. QED
    BY <1>1, <1>6, <2>1, FilesPut DEF File
<1>. QED
  BY <1>3, <1>4, <1>5, <1>6 DEF Writes

\* What an agent's edit or staging leaves alone.
LEMMA MeddleFacts ==
    ASSUME TypeInv, Meddles
    PROVE  /\ work' \in Snapshot /\ index' \in Snapshot
           /\ work'.receipts = work.receipts /\ index'.receipts = index.receipts
           /\ raced \subseteq raced' /\ raced' \subseteq RequestIds
           /\ (call.phase # "idle" /\ Rid \notin raced') =>
                \A p \in call.args.paths :
                    work'.files[p] = work.files[p] /\ index'.files[p] = index.files[p]
<1>1. PICK p \in Paths :
        /\ \/ \E c \in File : work' = SetFiles(work, {p}, c) /\ UNCHANGED index
           \/ index' = SetFiles(index, {p}, work.files[p]) /\ UNCHANGED work
        /\ raced' = IF call.phase # "idle" /\ p \in call.args.paths
                    THEN raced \cup {Rid} ELSE raced
  BY DEF Meddles
<1>2. work \in Snapshot /\ index \in Snapshot /\ work.files[p] \in File /\ raced \subseteq RequestIds
  BY SnapshotFields DEF TypeInv, Types
<1>3. call.phase # "idle" => Rid \in RequestIds /\ call.args.paths \subseteq Paths
  BY Closed, ArgumentFacts DEF Rid
<1>4. CASE \E c \in File : work' = SetFiles(work, {p}, c) /\ UNCHANGED index
  <2>1. PICK c \in File : work' = SetFiles(work, {p}, c) /\ UNCHANGED index
    BY <1>4
  <2>2. /\ work' \in Snapshot /\ work'.receipts = work.receipts
        /\ \A q \in Paths \ {p} : work'.files[q] = work.files[q]
    BY <1>2, <2>1, FilesPut
  <2>. QED
    BY <1>1, <1>2, <1>3, <2>1, <2>2
<1>5. CASE index' = SetFiles(index, {p}, work.files[p]) /\ UNCHANGED work
  <2>1. /\ index' \in Snapshot /\ index'.receipts = index.receipts
        /\ \A q \in Paths \ {p} : index'.files[q] = index.files[q]
    BY <1>2, <1>5, FilesPut
  <2>. QED
    BY <1>1, <1>2, <1>3, <1>5, <2>1
<1>. QED
  BY <1>1, <1>4, <1>5

-----------------------------------------------------------------------------
(* The log and the receipts.                                               *)

\* A commit brings the receipt of its request, which no earlier one had.
Introduces(i) ==
    LET b == log[i].by
        rec == log[i].tree.receipts[b.rid]
    IN rec \in Receipt /\ Fits(rec, b) /\ Before(i).receipts[b.rid] = None

Lineage ==
    /\ \A i \in DOMAIN log : Introduces(i)
    /\ \A i \in DOMAIN log, r \in RequestIds :
        /\ r # log[i].by.rid => log[i].tree.receipts[r] = Before(i).receipts[r]
        /\ log[i].tree.receipts[r] # None => \E j \in 1 .. i : log[j].by.rid = r
    /\ \A i, j \in DOMAIN log : log[i].by.rid = log[j].by.rid => i = j

\* A call that has been let in makes the first commit of its request.
New == Entered => \A i \in DOMAIN log : log[i].by.rid # Rid
Replying ==
    call.phase = "reply" =>
        call.revision = Len(log) /\ log # <<>> /\ log[Len(log)].by = call.args

\* What is not committed of the receipts: one of them, in the working tree and
\* perhaps in the index.
Pended ==
    /\ \A r \in RequestIds : index.receipts[r] \in {Head_.receipts[r], work.receipts[r]}
    /\ \A r \in ChangedReceipts :
        /\ Head_.receipts[r] = None
        /\ work.receipts[r] = Torn => index.receipts[r] = None
    /\ \A r, s \in ChangedReceipts : r = s

\* The receipt of the call that runs, phase by phase.
Announced ==
    /\ Entered => ChangedReceipts \subseteq {Rid} /\ call.index.receipts = index.receipts
    /\ call.phase = "reply" => ChangedReceipts = {}
    /\ Entered /\ ~HasReceipt => index.receipts[Rid] = None
    /\ Entered /\ ~HasReceipt /\ call.phase # "fill" => work.receipts[Rid] = None
    /\ call.phase = "fill" => work.receipts[Rid] = Torn
    /\ HasReceipt => work.receipts[Rid] = [op |-> call.args.op, plan |-> call.plan]
    /\ Planned => /\ DOMAIN call.plan = call.args.paths
                  /\ call.args.op = "upload" =>
                        \A p \in call.args.paths : call.plan[p] = call.args.content
    /\ call.phase = "commit" => index.receipts[Rid] = work.receipts[Rid]

Base == TypeInv /\ Lineage /\ New /\ Replying /\ Pended /\ Announced

LEMMA EntryFacts ==
    ASSUME TypeInv
    PROVE  /\ \A i \in DOMAIN log :
                /\ log[i].tree \in Snapshot /\ log[i].by \in Arguments \cup {Seed}
                /\ log[i].by.rid \in RequestIds
                /\ Before(i) \in Snapshot
           /\ DOMAIN log = 1 .. Len(log) /\ Len(log) \in Nat
<1>1. DOMAIN log = 1 .. Len(log) /\ Len(log) \in Nat
  BY EntryType
<1>2. ASSUME NEW i \in DOMAIN log
      PROVE  log[i].tree \in Snapshot /\ log[i].by \in Arguments \cup {Seed}
  BY <1>2, EntryType
<1>3. ASSUME NEW i \in DOMAIN log PROVE Before(i) \in Snapshot
  <2>1. CASE i = 1
    BY <2>1, EmptyType DEF Before
  <2>2. CASE i # 1
    <3>1. i - 1 \in DOMAIN log
      BY <1>1, <1>3, <2>2
    <3>. QED
      BY <1>2, <2>2, <3>1 DEF Before
  <2>. QED
    BY <2>1, <2>2
<1>. QED
  BY <1>1, <1>2, <1>3, ArgumentFacts

LEMMA Originals ==
    ASSUME TypeInv, Lineage, NEW r \in RequestIds
    PROVE  find_original_receipt(r) = {i \in DOMAIN log : log[i].by.rid = r}
<1>1. ASSUME NEW i \in DOMAIN log, log[i].by.rid = r
      PROVE  log[i].tree.receipts[r] # None /\ Before(i).receipts[r] = None
  BY <1>1, ReceiptFacts DEF Lineage, Introduces
<1>2. ASSUME NEW i \in DOMAIN log, log[i].by.rid # r
      PROVE  log[i].tree.receipts[r] = Before(i).receipts[r]
  BY <1>2 DEF Lineage
<1>. QED
  BY <1>1, <1>2 DEF find_original_receipt

\* HEAD has the receipts of the requests that made commits.
LEMMA HeadReceipts ==
    ASSUME TypeInv, Lineage, NEW r \in RequestIds, \A i \in DOMAIN log : log[i].by.rid # r
    PROVE  Head_.receipts[r] = None
<1>1. CASE log = <<>>
  BY <1>1 DEF Head_, Empty
<1>2. CASE log # <<>>
  <2>1. Len(log) \in DOMAIN log /\ DOMAIN log = 1 .. Len(log)
    BY <1>2, EntryFacts DEF TypeInv, Types
  <2>2. \A j \in 1 .. Len(log) : log[j].by.rid # r
    BY <2>1
  <2>. QED
    BY <1>2, <2>1, <2>2 DEF Head_, Last, Lineage
<1>. QED
  BY <1>1, <1>2

LEMMA Appended ==
    ASSUME TypeInv, NEW e \in Entry, log' = Append(log, e), NEW n, n = Len(log) + 1
    PROVE  /\ DOMAIN log' = DOMAIN log \cup {n} /\ n \notin DOMAIN log
           /\ log'[n] = e /\ log' # <<>> /\ Len(log') = n
           /\ \A i \in DOMAIN log : log'[i] = log[i] /\ Before(i)' = Before(i)
           /\ Before(n)' = Head_
           /\ Head_' = e.tree
<1>1. log \in Seq(Entry)
  BY EntryType
<1>2. /\ DOMAIN log' = DOMAIN log \cup {n} /\ n \notin DOMAIN log
      /\ log'[n] = e /\ Len(log') = n
      /\ \A i \in DOMAIN log : log'[i] = log[i]
      /\ DOMAIN log = 1 .. Len(log) /\ Len(log) \in Nat
  BY <1>1
<1>3. ASSUME NEW i \in DOMAIN log PROVE Before(i)' = Before(i)
  BY <1>2, <1>3 DEF Before
<1>4. Before(n)' = Head_
  <2>1. CASE log = <<>>
    BY <1>2, <2>1 DEF Before, Head_
  <2>2. CASE log # <<>>
    <3>1. Len(log) \in DOMAIN log /\ n # 1 /\ n - 1 = Len(log)
      BY <1>2, <2>2, EntryType
    <3>. QED
      BY <1>2, <2>2, <3>1 DEF Before, Head_, Last
  <2>. QED
    BY <2>1, <2>2
<1>5. log' # <<>>
  BY <1>2
<1>6. Head_' = e.tree
  BY <1>2, <1>5 DEF Head_, Last
<1>. QED
  BY <1>2, <1>3, <1>4, <1>5, <1>6

LEMMA AnswersType ==
    ASSUME Base, Next
    PROVE  answers' \subseteq [args: Arguments, revision: Nat \ {0}]
<1>1. answers \subseteq [args: Arguments, revision: Nat \ {0}]
  BY DEF Base, TypeInv, Types
<1>2. ASSUME NEW i \in Nat \ {0}, Answer(i), call.phase # "idle", host \in {"up", "seed"}
      PROVE  answers' \subseteq [args: Arguments, revision: Nat \ {0}]
  BY <1>1, <1>2 DEF Answer, Base, TypeInv, Engaged
<1>3. CASE Reply
  <2>1. call.revision \in Nat \ {0}
    BY <1>3 DEF Reply, Base, Replying, TypeInv, Types
  <2>2. host \in {"up", "seed"}
    BY <1>3 DEF Reply, Base, TypeInv, Types, Engaged
  <2>. QED
    BY <1>2, <1>3, <2>1, <2>2 DEF Reply
<1>4. CASE Look
  <2>1. CASE find_original_receipt(Rid) # {} /\ Answer(Original(Rid))
    <3>1. Rid \in RequestIds
      BY <1>4, Closed, ArgumentFacts DEF Look, Rid, Base
    <3>2. PICK i \in DOMAIN log : find_original_receipt(Rid) = {i}
      BY <2>1, <3>1, Originals DEF Base, Lineage
    <3>3. Original(Rid) = i
      <4>1. Max({i}) = i
        BY <3>2, EntryFacts DEF Max, Base
      <4>. QED
        BY <3>2, <4>1 DEF Original
    <3>4. i \in Nat \ {0}
      BY EntryFacts DEF Base
    <3>. QED
      BY <1>2, <1>4, <2>1, <3>3, <3>4 DEF Look
  <2>2. CASE answers' = answers
    BY <1>1, <2>2
  <2>. QED
    BY <1>4, <2>1, <2>2 DEF Look, Fail, Enter, Rid
<1>5. CASE answers' = answers
  BY <1>1, <1>5
<1>. QED
  BY <1>3, <1>4, <1>5 DEF Next, Proceed, Begin, Start, LookSeed, Admit, Recheck, Step,
     artifact_content_fingerprints, write_artifact_receipt, WriteTarget, RemoveTarget, Stage,
     Commit, WriteFails, ReceiptTears, Crash, Edit, StageByHand, Meddle, Fail

LEMMA CommitEntry ==
    ASSUME TypeInv, Commits
    PROVE  [tree |-> call.index, by |-> call.args] \in Entry
  BY Closed DEF Commits, Entry

LEMMA TypeStep ==
    ASSUME Base, Next
    PROVE  TypeInv'
<1>0. TypeInv /\ Types /\ Engaged /\ Steps
  BY NextCases DEF Base, TypeInv
<1>a. answers' \subseteq [args: Arguments, revision: Nat \ {0}]
  BY AnswersType
<1>1. CASE Ends
  BY <1>0, <1>1, <1>a, IdleType DEF Ends, Rest, TypeInv, Types, Engaged
<1>2. CASE Begins
  BY <1>0, <1>2, <1>a DEF Begins, Rest, TypeInv, Types, Engaged
<1>3. CASE Enters
  <2>1. /\ call' \in Call /\ call'.args = call.args
        /\ call'.phase \in {Resuming(call.args.op), Starting(call.args.op), "truncate"}
    BY <1>3 DEF Enters, CallIs
  <2>2. call.args.op \in Operations
    BY <1>0, <1>3, Closed, ArgumentFacts DEF Enters
  <2>3. Engaged'
    BY <1>0, <1>3, <2>1, <2>2 DEF Engaged, Enters, Resuming, Starting, Operations
  <2>. QED
    BY <1>0, <1>3, <1>a, <2>1, <2>3 DEF Enters, Rest, TypeInv, Types
<1>4. CASE Moves
  BY <1>0, <1>4, <1>a DEF Moves, CallIs, Rest, TypeInv, Types, Engaged
<1>5. CASE Writes
  <2>1. work' \in Snapshot
    BY <1>0, <1>5, WriteFacts
  <2>2. call' \in Call /\ call'.args = call.args
    BY <1>5 DEF Writes, CallIs
  <2>3. call.args.op \in Operations
    BY <1>0, <1>5, Closed, ArgumentFacts DEF Writes
  <2>4. /\ call'.phase \in {"fill", "target", "remove", "stage"} /\ host' = host
        /\ call'.phase = "target" => call.args.op = "upload"
        /\ call'.phase = "remove" => call.args.op = "delete"
        /\ call.phase # "idle"
    BY <1>5, <2>3 DEF Writes, CallIs, Operations
  <2>5. Engaged'
    BY <1>0, <2>2, <2>4 DEF Engaged
  <2>. QED
    BY <1>0, <1>5, <1>a, <2>1, <2>2, <2>5 DEF Writes, TypeInv, Types
<1>6. CASE Stages
  BY <1>0, <1>6, <1>a DEF Stages, CallIs, TypeInv, Types, Engaged
<1>7. CASE Commits
  <2>1. log' \in Seq(Entry)
    <3>1. PICK e \in Entry : log' = Append(log, e)
      BY <1>0, <1>7, CommitEntry DEF Commits
    <3>2. log \in Seq(Entry)
      BY <1>0, EntryType
    <3>. QED
      BY <3>1, <3>2
  <2>2. Engaged'
    BY <1>0, <1>7 DEF Commits, CallIs, Engaged
  <2>. QED
    BY <1>0, <1>7, <1>a, <2>1, <2>2 DEF Commits, CallIs, TypeInv, Types, Entry
<1>8. CASE Meddles
  <2>1. meddled' \in BOOLEAN
    BY <1>0, <1>8 DEF Meddles, Types
  <2>2. UNCHANGED <<log, host, call>>
    BY <1>8 DEF Meddles
  <2>. QED
    BY <1>0, <1>8, <1>a, <2>1, <2>2, MeddleFacts DEF TypeInv, Types, Engaged
<1>. QED
  BY <1>0, <1>1, <1>2, <1>3, <1>4, <1>5, <1>6, <1>7, <1>8 DEF Steps

\* Steps that leave the files and the log alone.
LEMMA Resting ==
    ASSUME Rest
    PROVE  /\ Head_' = Head_ /\ ChangedFiles' = ChangedFiles
           /\ ChangedReceipts' = ChangedReceipts
           /\ Lineage <=> Lineage'
           /\ Pended <=> Pended'
<1>1. /\ Head_' = Head_ /\ ChangedFiles' = ChangedFiles
      /\ ChangedReceipts' = ChangedReceipts
  BY Unseen DEF Rest
<1>2. \A i : Before(i)' = Before(i)
  BY DEF Rest, Before
<1>3. Lineage <=> Lineage'
  BY <1>2, SMTT(30) DEF Rest, Lineage, Introduces, Fits
<1>4. Pended <=> Pended'
  BY <1>1 DEF Rest, Pended
<1>. QED
  BY <1>1, <1>3, <1>4

LEMMA LineageStep ==
    ASSUME Base, Next
    PROVE  Lineage'
<1>0. TypeInv /\ Lineage /\ Steps
  BY NextCases DEF Base
<1>1. CASE UNCHANGED log
  <2>1. \A i : Before(i)' = Before(i)
    BY <1>1 DEF Before
  <2>. QED
    BY <1>0, <1>1, <2>1 DEF Lineage, Introduces, Fits
<1>2. CASE Commits
  <2>. DEFINE a == call.args
  <2>a. PICK n : n = Len(log) + 1
    OBVIOUS
  <2>1. PICK e \in Entry : e = [tree |-> call.index, by |-> a] /\ log' = Append(log, e)
    BY <1>0, <1>2, CommitEntry DEF Commits
  <2>2. /\ DOMAIN log' = DOMAIN log \cup {n} /\ n \notin DOMAIN log
        /\ log'[n] = e
        /\ \A i \in DOMAIN log : log'[i] = log[i] /\ Before(i)' = Before(i)
        /\ Before(n)' = Head_
        /\ n \in Nat \ {0} /\ DOMAIN log = 1 .. n - 1
    BY <1>0, <2>a, <2>1, Appended, EntryType
  <2>3. /\ Entered /\ HasReceipt /\ Planned /\ call.phase = "commit" /\ call.phase # "idle"
    BY <1>2 DEF Commits, Entered, HasReceipt, Planned
  <2>4. /\ a \in Arguments \cup {Seed} /\ a.rid \in RequestIds /\ a.op \in Operations
        /\ call.plan \in Plans
    BY <1>0, <2>3, Closed, ArgumentFacts
  <2>5. /\ call.index.receipts = index.receipts
        /\ index.receipts[a.rid] = work.receipts[a.rid]
        /\ work.receipts[a.rid] = [op |-> a.op, plan |-> call.plan]
        /\ DOMAIN call.plan = a.paths
        /\ a.op = "upload" => \A p \in a.paths : call.plan[p] = a.content
    BY <2>3 DEF Base, Announced, Rid
  <2>6. \A i \in DOMAIN log : log[i].by.rid # a.rid
    BY <2>3 DEF Base, New, Rid
  <2>7. Head_.receipts[a.rid] = None
    BY <1>0, <2>4, <2>6, HeadReceipts
  <2>8. \A r \in RequestIds : r # a.rid => call.index.receipts[r] = Head_.receipts[r]
    BY <2>3, <2>5 DEF Base, Announced, ChangedReceipts, Rid
  <2>9. [op |-> a.op, plan |-> call.plan] \in Receipt
    BY <2>4 DEF Receipt
  <2>10. Introduces(n)'
    <3>1. e.by = a /\ e.tree.receipts[a.rid] = [op |-> a.op, plan |-> call.plan]
      BY <2>1, <2>5
    <3>2. Fits([op |-> a.op, plan |-> call.plan], a)
      BY <2>5 DEF Fits
    <3>. QED
      BY <2>2, <2>7, <2>9, <3>1, <3>2 DEF Introduces
  <2>11. \A i \in DOMAIN log : Introduces(i)'
    <3>1. \A i \in DOMAIN log : log'[i] = log[i] /\ Before(i)' = Before(i)
      BY <2>2
    <3>2. \A i \in DOMAIN log : Introduces(i)
      BY <1>0 DEF Lineage
    <3>. TAKE i \in DOMAIN log
    <3>3. log'[i] = log[i] /\ Before(i)' = Before(i) /\ Introduces(i)
      BY <3>1, <3>2
    <3>. QED
      BY <3>3 DEF Introduces, Fits
  <2>12. ASSUME NEW r \in RequestIds
         PROVE  /\ r # log'[n].by.rid => log'[n].tree.receipts[r] = Before(n)'.receipts[r]
                /\ log'[n].tree.receipts[r] # None => \E j \in 1 .. n : log'[j].by.rid = r
    <3>1. e.by = a /\ (r # a.rid => e.tree.receipts[r] = Head_.receipts[r])
      BY <2>1, <2>8
    <3>2. ASSUME r # a.rid, Head_.receipts[r] # None PROVE \E j \in DOMAIN log : log[j].by.rid = r
      BY <1>0, <3>2, HeadReceipts
    <3>. QED
      BY <2>2, <3>1, <3>2
  <2>13. ASSUME NEW i \in DOMAIN log, NEW r \in RequestIds
         PROVE  /\ r # log'[i].by.rid => log'[i].tree.receipts[r] = Before(i)'.receipts[r]
                /\ log'[i].tree.receipts[r] # None => \E j \in 1 .. i : log'[j].by.rid = r
    <3>1. /\ r # log[i].by.rid => log[i].tree.receipts[r] = Before(i).receipts[r]
          /\ log[i].tree.receipts[r] # None => \E j \in 1 .. i : log[j].by.rid = r
      BY <1>0 DEF Lineage
    <3>2. \A j \in 1 .. i : j \in DOMAIN log
      BY <2>2
    <3>. QED
      BY <2>2, <3>1, <3>2
  <2>14. \A i, j \in DOMAIN log' : log'[i].by.rid = log'[j].by.rid => i = j
    <3>1. e.by = a
      BY <2>1
    <3>. QED
      BY <1>0, <2>2, <2>6, <3>1 DEF Lineage
  <2>15. \A i \in DOMAIN log' : Introduces(i)'
    BY <2>2, <2>10, <2>11
  <2>16. \A i \in DOMAIN log', r \in RequestIds :
            /\ r # log'[i].by.rid => log'[i].tree.receipts[r] = Before(i)'.receipts[r]
            /\ log'[i].tree.receipts[r] # None => \E j \in 1 .. i : log'[j].by.rid = r
    BY <2>2, <2>12, <2>13
  <2>. QED
    BY <2>14, <2>15, <2>16 DEF Lineage
<1>. QED
  BY <1>0, <1>1, <1>2 DEF Steps, Ends, Begins, Enters, Moves, Writes, Stages, Meddles, Rest

LEMMA NewStep ==
    ASSUME Base, Next
    PROVE  New' /\ Replying'
<1>0. TypeInv /\ Lineage /\ New /\ Replying /\ Steps
  BY NextCases DEF Base
<1>1. CASE Ends
  BY <1>1, IdleType DEF Ends, New, Replying, Entered
<1>2. CASE Begins
  BY <1>2 DEF Begins, New, Replying, Entered
<1>3. CASE Enters
  <2>1. Rid \in RequestIds
    BY <1>0, <1>3, Closed, ArgumentFacts DEF Enters, Rid
  <2>2. \A i \in DOMAIN log : log[i].by.rid # Rid
    BY <1>0, <1>3, <2>1, Originals DEF Enters
  <2>3. log' = log /\ call'.args = call.args /\ call'.phase # "reply"
    BY <1>3, Closed, ArgumentFacts DEF Enters, Rest, CallIs, Resuming, Starting, TypeInv,
       Operations, Base
  <2>. QED
    BY <2>2, <2>3 DEF New, Replying, Rid
<1>4. CASE Moves \/ Writes \/ Stages
  <2>1. Entered /\ call'.args = call.args /\ log' = log
    BY <1>4 DEF Moves, Writes, Stages, CallIs, Rest, Entered
  <2>2. call'.phase # "reply"
    <3>1. call.args.op \in Operations
      BY <1>0, <2>1, Closed, ArgumentFacts DEF Entered
    <3>. QED
      BY <1>4, <3>1 DEF Moves, Writes, Stages, CallIs, Operations
  <2>. QED
    BY <1>0, <2>1, <2>2 DEF New, Replying, Rid
<1>5. CASE Commits
  <2>a. PICK n : n = Len(log) + 1
    OBVIOUS
  <2>1. PICK e \in Entry :
          e = [tree |-> call.index, by |-> call.args] /\ log' = Append(log, e)
    BY <1>0, <1>5, CommitEntry DEF Commits
  <2>2. log'[n] = e /\ log' # <<>> /\ Len(log') = n
    BY <1>0, <2>a, <2>1, Appended
  <2>3. call'.phase = "reply" /\ call'.revision = n /\ call'.args = call.args
    BY <1>5, <2>a DEF Commits, CallIs
  <2>. QED
    BY <2>1, <2>2, <2>3 DEF New, Replying, Entered
<1>6. CASE Meddles
  BY <1>0, <1>6 DEF Meddles, New, Replying, Entered, Rid
<1>. QED
  BY <1>0, <1>1, <1>2, <1>3, <1>4, <1>5, <1>6 DEF Steps

LEMMA PendedStep ==
    ASSUME Base, Next
    PROVE  Pended'
<1>0. TypeInv /\ Lineage /\ New /\ Pended /\ Announced /\ Steps
  BY NextCases DEF Base
<1>1. CASE Rest
  BY <1>0, <1>1, Resting
<1>2. CASE Writes
  <2>1. Head_' = Head_ /\ index' = index /\ Entered /\ call.phase # "idle"
    BY <1>2, Unseen DEF Writes, Entered
  <2>2. CASE call.phase \in {"target", "remove"}
    BY <1>0, <1>2, <2>1, <2>2, WriteFacts DEF Pended, ChangedReceipts
  <2>3. CASE call.phase \in {"truncate", "fill"}
    <3>1. Rid \in RequestIds
      BY <1>0, <2>1, Closed, ArgumentFacts DEF Rid
    <3>2. /\ \A r \in RequestIds \ {Rid} : work'.receipts[r] = work.receipts[r]
          /\ \A r \in RequestIds \ {Rid} : r \notin ChangedReceipts
          /\ index.receipts[Rid] = None
      BY <1>0, <1>2, <2>1, <2>3, WriteFacts DEF Announced, HasReceipt
    <3>3. Head_.receipts[Rid] = None
      BY <1>0, <2>1, <3>1, HeadReceipts DEF New
    <3>4. ChangedReceipts' \subseteq {Rid}
      BY <2>1, <3>2 DEF ChangedReceipts
    <3>5. \A r \in RequestIds : index.receipts[r] \in {Head_.receipts[r], work'.receipts[r]}
      BY <3>2, <3>3 DEF ChangedReceipts
    <3>. QED
      BY <2>1, <3>2, <3>3, <3>4, <3>5 DEF Pended
  <2>. QED
    BY <1>2, <2>2, <2>3 DEF Writes
<1>3. CASE Stages
  <2>1. /\ Head_' = Head_ /\ work' = work /\ Entered /\ call.phase # "idle" /\ HasReceipt
        /\ index' = Staged
    BY <1>3, Unseen DEF Stages, Entered, HasReceipt
  <2>2. Rid \in RequestIds
    BY <1>0, <2>1, Closed, ArgumentFacts DEF Rid
  <2>3. /\ index'.receipts[Rid] = work.receipts[Rid]
        /\ \A r \in RequestIds \ {Rid} : index'.receipts[r] = index.receipts[r]
    BY <1>0, <2>1, StagedType DEF Announced
  <2>4. ChangedReceipts \subseteq {Rid}
    BY <1>0, <2>1 DEF Announced
  <2>5. Head_.receipts[Rid] = None /\ work.receipts[Rid] # Torn
    <3>1. Head_.receipts[Rid] = None
      BY <1>0, <2>1, <2>2, HeadReceipts DEF New
    <3>2. work.receipts[Rid] \in Receipt
      BY <1>0, <2>1, Closed, ArgumentFacts, ReceiptFacts DEF Announced, Receipt
    <3>. QED
      BY <3>1, <3>2, ReceiptFacts
  <2>6. ChangedReceipts' \subseteq {Rid}
    BY <2>1, <2>3, <2>4 DEF ChangedReceipts
  <2>7. \A r \in RequestIds : index'.receipts[r] \in {Head_.receipts[r], work.receipts[r]}
    BY <1>0, <2>3 DEF Pended
  <2>. QED
    BY <2>1, <2>5, <2>6, <2>7 DEF Pended
<1>4. CASE Commits
  <2>1. Head_' = call.index /\ index' = index /\ work' = work
    <3>1. PICK e \in Entry : e = [tree |-> call.index, by |-> call.args] /\ log' = Append(log, e)
      BY <1>0, <1>4, CommitEntry DEF Commits
    <3>. QED
      BY <1>0, <1>4, <3>1, Appended DEF Commits
  <2>2. /\ call.index.receipts = index.receipts
        /\ index.receipts[Rid] = work.receipts[Rid]
        /\ ChangedReceipts \subseteq {Rid}
    BY <1>0, <1>4 DEF Announced, Commits, Entered
  <2>3. \A r \in RequestIds : index.receipts[r] = work.receipts[r]
    BY <2>2 DEF ChangedReceipts
  <2>4. ChangedReceipts' = {}
    BY <2>1, <2>2, <2>3 DEF ChangedReceipts
  <2>. QED
    BY <2>1, <2>2, <2>4 DEF Pended
<1>5. CASE Meddles
  <2>1. /\ Head_' = Head_ /\ work'.receipts = work.receipts /\ index'.receipts = index.receipts
    BY <1>0, <1>5, MeddleFacts, Unseen DEF Meddles
  <2>. QED
    BY <1>0, <2>1 DEF Pended, ChangedReceipts
<1>. QED
  BY <1>0, <1>1, <1>2, <1>3, <1>4, <1>5 DEF Steps, Ends, Begins, Enters, Moves

\* A request that starts has no receipt yet, and one that goes on has the one that
\* announces its plan.
LEMMA EnterReceipts ==
    ASSUME Base, Enters
    PROVE  /\ Head_.receipts[Rid] = None
           /\ ChangedReceipts \subseteq {Rid}
           /\ Starts(call.args) =>
                work.receipts[Rid] = None /\ index.receipts[Rid] = None
           /\ Resumable(call.args) =>
                LET rec == Written(call.args) IN
                /\ rec = [op |-> call.args.op, plan |-> rec.plan]
                /\ rec \in Receipt /\ DOMAIN rec.plan = call.args.paths
                /\ call.args.op = "upload" =>
                        \A p \in call.args.paths : rec.plan[p] = call.args.content
<1>. DEFINE a == call.args
<1>1. /\ a \in Arguments \cup {Seed} /\ Rid \in RequestIds /\ a.op \in Operations
      /\ TypeInv /\ Lineage
  BY Closed, ArgumentFacts DEF Enters, Rid, Base
<1>2. \A i \in DOMAIN log : log[i].by.rid # Rid
  BY <1>1, Originals DEF Enters
<1>3. Head_.receipts[Rid] = None
  BY <1>1, <1>2, HeadReceipts
<1>4. ASSUME Starts(a)
      PROVE  ChangedReceipts = {} /\ work.receipts[Rid] = None /\ index.receipts[Rid] = None
  <2>1. ChangedReceipts = {}
    BY <1>1, <1>4 DEF Starts, Clean, Operations
  <2>. QED
    BY <1>1, <1>3, <2>1 DEF ChangedReceipts
<1>5. ASSUME Resumable(a)
      PROVE  LET rec == Written(a) IN
             /\ ChangedReceipts \subseteq {Rid}
             /\ rec = [op |-> a.op, plan |-> rec.plan]
             /\ rec \in Receipt /\ DOMAIN rec.plan = a.paths
             /\ a.op = "upload" => \A p \in a.paths : rec.plan[p] = a.content
  <2>1. Written(a) \in Receipt \cup {Torn, None}
    BY <1>1, SnapshotFields DEF TypeInv, Types, Written, Rid
  <2>2. Written(a) \in Receipt /\ Fits(Written(a), a)
    BY <1>5, <2>1 DEF Resumable, Pending
  <2>3. ChangedReceipts \subseteq {Rid}
    BY <1>5 DEF Resumable, OnlyOwn, Rid
  <2>. QED
    BY <2>2, <2>3, ReceiptFacts DEF Fits
<1>. QED
  BY <1>3, <1>4, <1>5 DEF Enters

LEMMA CommitClears ==
    ASSUME Base, Commits
    PROVE  /\ Head_' = call.index
           /\ ChangedReceipts' = {}
<1>0. TypeInv /\ Announced
  BY DEF Base
<1>1. Head_' = call.index /\ index' = index /\ work' = work
  <2>a. PICK n : n = Len(log) + 1
    OBVIOUS
  <2>1. PICK e \in Entry : e = [tree |-> call.index, by |-> call.args] /\ log' = Append(log, e)
    BY <1>0, CommitEntry DEF Commits
  <2>. QED
    BY <1>0, <2>a, <2>1, Appended DEF Commits
<1>2. /\ call.index.receipts = index.receipts
      /\ index.receipts[Rid] = work.receipts[Rid]
      /\ ChangedReceipts \subseteq {Rid}
  BY <1>0 DEF Announced, Commits, Entered
<1>3. \A r \in RequestIds : index.receipts[r] = work.receipts[r]
  BY <1>2 DEF ChangedReceipts
<1>. QED
  BY <1>1, <1>2, <1>3 DEF ChangedReceipts

LEMMA AnnouncedStep ==
    ASSUME Base, Next
    PROVE  Announced'
<1>0. TypeInv /\ Lineage /\ Announced /\ Steps
  BY NextCases DEF Base
<1>1. CASE Ends \/ Begins
  <2>1. call'.phase \in {"idle", "look"}
    BY <1>1, IdleType DEF Ends, Begins
  <2>. QED
    BY <2>1 DEF Announced, Entered, HasReceipt, Planned
<1>2. CASE Enters
  <2>. DEFINE a == call.args
  <2>1. /\ ChangedReceipts' = ChangedReceipts /\ Rid' = Rid /\ work' = work /\ index' = index
        /\ call'.args = a /\ call'.index = index /\ ChangedReceipts \subseteq {Rid}
    BY <1>0, <1>2, Resting, EnterReceipts DEF Enters, CallIs, Rest, Rid, Base
  <2>2. a.op \in Operations
    BY <1>0, <1>2, Closed, ArgumentFacts DEF Enters
  <2>3. CASE Resumable(a) /\ CallIs(Resuming(a.op), index, Written(a).plan, TRUE, call.revision)
    <3>1. /\ call'.phase \in {"target", "recheck"} \/ (call'.phase = "plan" /\ call'.pending)
          /\ call'.plan = Written(a).plan
      BY <2>2, <2>3 DEF CallIs, Resuming, Operations
    <3>2. /\ work.receipts[Rid] = [op |-> a.op, plan |-> Written(a).plan]
          /\ DOMAIN Written(a).plan = a.paths
          /\ a.op = "upload" => \A p \in a.paths : Written(a).plan[p] = a.content
      BY <1>2, <2>3, EnterReceipts DEF Written, Rid
    <3>3. HasReceipt'
      BY <3>1 DEF HasReceipt
    <3>. QED
      BY <2>1, <3>1, <3>2, <3>3 DEF Announced, Entered
  <2>4. CASE Starts(a) /\ CallIs(Starting(a.op), index, <<>>, FALSE, call.revision)
    <3>1. call'.phase \in {"plan", "admit"} /\ ~call'.pending
      BY <2>4 DEF CallIs, Starting
    <3>2. ~HasReceipt' /\ ~Planned'
      BY <3>1 DEF HasReceipt, Planned
    <3>. QED
      BY <1>2, <2>1, <2>4, <3>1, <3>2, EnterReceipts DEF Announced, Entered
  <2>5. CASE Starts(a) /\ a.op = "upload"
             /\ CallIs("truncate", index, Uploaded(a), FALSE, call.revision)
    <3>1. call'.phase = "truncate" /\ call'.plan = Uploaded(a)
      BY <2>5 DEF CallIs
    <3>2. DOMAIN Uploaded(a) = a.paths /\ \A p \in a.paths : Uploaded(a)[p] = a.content
      BY DEF Uploaded
    <3>3. ~HasReceipt'
      BY <3>1 DEF HasReceipt
    <3>. QED
      BY <1>2, <2>1, <2>5, <3>1, <3>2, <3>3, EnterReceipts DEF Announced, Entered
  <2>. QED
    BY <1>2, <2>3, <2>4, <2>5 DEF Enters
<1>3. CASE Moves
  <2>1. /\ ChangedReceipts' = ChangedReceipts /\ Rid' = Rid /\ work' = work /\ index' = index
        /\ call'.args = call.args /\ call'.index = call.index /\ Entered
    BY <1>3, Resting DEF Moves, CallIs, Rest, Rid, Entered
  <2>2. CASE call.phase = "recheck"
    <3>1. call'.phase = "remove" /\ call'.plan = call.plan
      BY <1>3, <2>2 DEF Moves, CallIs
    <3>. QED
      BY <1>0, <2>1, <2>2, <3>1 DEF Announced, Entered, HasReceipt, Planned
  <2>3. CASE call.phase = "admit"
    <3>1. /\ call'.phase = "truncate"
          /\ DOMAIN call'.plan = call.args.paths
          /\ call.args.op = "upload" =>
                \A p \in call.args.paths : call'.plan[p] = call.args.content
      BY <1>3, <2>3 DEF Moves, CallIs
    <3>. QED
      BY <1>0, <2>1, <2>3, <3>1 DEF Announced, Entered, HasReceipt
  <2>4. CASE call.phase = "plan"
    <3>1. /\ call'.phase = IF call.pending THEN "stage" ELSE "truncate"
          /\ DOMAIN call'.plan = call.args.paths
          /\ call.pending => call'.plan = call.plan
          /\ call.args.op = "commit"
      BY <1>0, <1>3, <2>4 DEF Moves, CallIs, TypeInv, Engaged
    <3>2. CASE call.pending
      BY <1>0, <2>1, <2>4, <3>1, <3>2 DEF Announced, Entered, HasReceipt
    <3>3. CASE ~call.pending
      BY <1>0, <2>1, <2>4, <3>1, <3>3 DEF Announced, Entered, HasReceipt
    <3>. QED
      BY <3>2, <3>3
  <2>. QED
    BY <1>3, <2>2, <2>3, <2>4 DEF Moves
<1>4. CASE Writes
  <2>1. /\ Head_' = Head_ /\ index' = index /\ Rid' = Rid /\ call'.args = call.args
        /\ call'.index = call.index /\ call'.plan = call.plan /\ Entered /\ Planned
    BY <1>4, Unseen DEF Writes, CallIs, Entered, Rid, Planned
  <2>2. ChangedReceipts' \subseteq {Rid}
    BY <1>0, <1>4, <2>1, WriteFacts DEF Announced, ChangedReceipts, Writes
  <2>3. CASE call.phase = "truncate"
    <3>1. call'.phase = "fill"
      BY <1>4, <2>3 DEF Writes, CallIs
    <3>. QED
      BY <1>0, <1>4, <2>1, <2>2, <2>3, <3>1, WriteFacts DEF Announced, HasReceipt, Planned
  <2>4. CASE call.phase = "fill"
    <3>1. call.args.op \in Operations
      BY <1>0, <2>4, Closed, ArgumentFacts
    <3>2. call'.phase \in {"target", "remove", "stage"}
      BY <1>4, <2>4, <3>1 DEF Writes, CallIs, Operations
    <3>. QED
      BY <1>0, <1>4, <2>1, <2>2, <2>4, <3>2, WriteFacts DEF Announced, HasReceipt, Planned
  <2>5. CASE call.phase \in {"target", "remove"}
    <3>1. call'.phase = "stage"
      BY <1>4, <2>5 DEF Writes, CallIs
    <3>. QED
      BY <1>0, <1>4, <2>1, <2>2, <2>5, <3>1, WriteFacts DEF Announced, HasReceipt, Planned
  <2>. QED
    BY <1>4, <2>3, <2>4, <2>5 DEF Writes
<1>5. CASE Stages
  <2>1. /\ Head_' = Head_ /\ work' = work /\ Entered /\ HasReceipt /\ Planned /\ index' = Staged
        /\ call'.phase = "commit" /\ call'.args = call.args /\ call'.plan = call.plan
        /\ call'.index = Staged /\ Rid' = Rid /\ call.phase # "idle"
    BY <1>5, Unseen DEF Stages, CallIs, Entered, HasReceipt, Planned, Rid
  <2>2. /\ index'.receipts[Rid] = work.receipts[Rid]
        /\ \A r \in RequestIds \ {Rid} : index'.receipts[r] = index.receipts[r]
    BY <1>0, <2>1, StagedType DEF Announced
  <2>3. ChangedReceipts' \subseteq {Rid}
    BY <1>0, <2>1, <2>2 DEF Announced, ChangedReceipts
  <2>4. HasReceipt'
    BY <2>1 DEF HasReceipt
  <2>. QED
    BY <1>0, <2>1, <2>2, <2>3, <2>4 DEF Announced
<1>6. CASE Commits
  <2>1. call'.phase = "reply" /\ ChangedReceipts' = {}
    BY <1>6, CommitClears DEF Commits, CallIs
  <2>. QED
    BY <2>1 DEF Announced, Entered, HasReceipt, Planned
<1>7. CASE Meddles
  <2>1. /\ Head_' = Head_ /\ work'.receipts = work.receipts /\ index'.receipts = index.receipts
        /\ call' = call
    BY <1>0, <1>7, MeddleFacts, Unseen DEF Meddles
  <2>2. ChangedReceipts' = ChangedReceipts
    BY <2>1 DEF ChangedReceipts
  <2>. QED
    BY <1>0, <2>1, <2>2 DEF Announced, Entered, HasReceipt, Planned, Rid
<1>. QED
  BY <1>0, <1>1, <1>2, <1>3, <1>4, <1>5, <1>6, <1>7 DEF Steps

LEMMA BaseInit == Init => Base
<1>. SUFFICES ASSUME Init PROVE Base
  OBVIOUS
<1>1. TypeInv
  <2>1. log \in Seq([tree: Snapshot, by: Arguments \cup {Seed}])
    BY DEF Init
  <2>2. /\ index \in Snapshot /\ work \in Snapshot /\ call \in Call
        /\ call.phase = "idle" /\ host = "down"
    BY EmptyType, IdleType DEF Init
  <2>. QED
    BY <2>1, <2>2 DEF Init, TypeInv, Types, Engaged
<1>2. Head_ = Empty /\ call.phase = "idle"
  BY IdleType DEF Init, Head_
<1>3. ChangedReceipts = {} /\ Pended
  BY <1>2 DEF Init, ChangedReceipts, Pended
<1>4. Lineage /\ New /\ Replying /\ Announced
  BY <1>2 DEF Init, Lineage, New, Replying, Announced, Entered, HasReceipt, Planned
<1>. QED
  BY <1>1, <1>3, <1>4 DEF Base

LEMMA BaseStep == Base /\ [Next]_vars => Base'
<1>1. CASE Base /\ Next
  BY <1>1, TypeStep, LineageStep, NewStep, PendedStep, AnnouncedStep DEF Base
<1>2. CASE Base /\ UNCHANGED vars
  <2>1. Rest /\ UNCHANGED <<host, call, answers>>
    BY <1>2 DEF vars, Rest
  <2>2. TypeInv'
    BY <1>2, <2>1 DEF Rest, Base, TypeInv, Types, Engaged
  <2>3. New' /\ Replying'
    BY <1>2, <2>1 DEF Rest, Base, New, Replying, Entered, Rid
  <2>4. Announced'
    BY <1>2, <2>1, Resting DEF Rest, Base, Announced, Entered, HasReceipt, Planned, Rid
  <2>. QED
    BY <1>2, <2>1, <2>2, <2>3, <2>4, Resting DEF Base
<1>. QED
  BY <1>1, <1>2

LEMMA BaseAlways == Spec => []Base
  BY BaseInit, BaseStep, PTL DEF Spec

(* Every variable keeps its type, and a request makes one commit at most,  *)
(* whatever is interrupted, retried and edited by hand: HEAD has as many   *)
(* commits as requests, or fewer (find_original_receipt before each write).*)
THEOREM ArtifactTypeCorrect == Spec => []ArtifactTypeOK
<1>1. Base => ArtifactTypeOK
  <2>. SUFFICES ASSUME Base PROVE ArtifactTypeOK
    OBVIOUS
  <2>. DEFINE f == [i \in 1 .. Len(log) |-> log[i].by.rid]
  <2>1. /\ DOMAIN log = 1 .. Len(log) /\ Len(log) \in Nat
        /\ \A i \in DOMAIN log : log[i].by.rid \in RequestIds
    BY EntryFacts DEF Base
  <2>2. f \in Injection(1 .. Len(log), RequestIds)
    BY <2>1 DEF Base, Lineage, Injection, IsInjective
  <2>3. Cardinality(1 .. Len(log)) <= Cardinality(RequestIds)
    BY <2>2, FS_Injection, RequestIdsAssumption
  <2>4. Cardinality(1 .. Len(log)) = Len(log)
    BY <2>1, FS_Interval
  <2>. QED
    BY <2>3, <2>4 DEF Base, TypeInv, Types, ArtifactTypeOK
<1>. QED
  BY <1>1, BaseAlways, PTL

(* Of all interrupted requests one at most has a receipt that HEAD lacks:  *)
(* no other upload, delete or commit is let in before it is completed      *)
(* (artifact_statuses, which artifact_upload, artifact_delete and          *)
(* artifact_commit consult).                                               *)
THEOREM OneRequestPends == Spec => []OnePending
<1>1. Base => OnePending
  <2>. SUFFICES ASSUME Base PROVE OnePending
    OBVIOUS
  <2>. DEFINE T == {r \in RequestIds : work.receipts[r] # Head_.receipts[r]}
  <2>1. \A r, s \in T : r = s
    BY DEF Base, Pended, ChangedReceipts
  <2>2. CASE T = {}
    BY <2>2, FS_EmptySet DEF OnePending
  <2>3. CASE T # {}
    <3>1. PICK r \in T : T = {r}
      BY <2>1, <2>3
    <3>2. Cardinality({r}) = 1
      BY FS_Singleton
    <3>3. Cardinality(T) = 1
      BY <3>1, <3>2
    <3>. QED
      BY <3>3 DEF OnePending
  <2>. QED
    BY <2>2, <2>3
<1>. QED
  BY <1>1, BaseAlways, PTL

-----------------------------------------------------------------------------
(* What a receipt announces and what its commit holds.                     *)

\* The index a call works with differs from HEAD in the files of its request only.
Own ==
    Entered => \A p \in Paths \ call.args.paths : call.index.files[p] = Head_.files[p]

\* A delete that is not committed is to remove what HEAD has.
Taken ==
    /\ \A r \in RequestIds :
        LET rec == work.receipts[r] IN
        (rec # Head_.receipts[r] /\ rec \in Receipt /\ rec.op = "delete") =>
            \A p \in DOMAIN rec.plan : rec.plan[p] = Head_.files[p]
    /\ (Entered /\ call.args.op = "delete") =>
        \A p \in call.args.paths :
            Head_.files[p] = IF call.phase = "admit" THEN call.index.files[p] ELSE call.plan[p]

\* The files of a call that no other hand changed since it began.
Steady ==
    (call.phase # "idle" /\ Rid \notin raced) =>
        \A p \in call.args.paths :
            /\ call.args.op = "delete" =>
                /\ call.phase = "admit" => work.files[p] = call.index.files[p]
                /\ call.phase \in {"truncate", "fill", "remove"} =>
                        work.files[p] \in {None, call.plan[p]}
                /\ call.phase = "commit" => call.index.files[p] = None
            /\ (call.args.op = "commit" /\ call.phase \in {"truncate", "fill", "stage"}) =>
                    work.files[p] = call.plan[p]
            /\ (call.args.op = "upload" /\ call.phase = "stage") =>
                    work.files[p] = call.plan[p]
            /\ (call.args.op # "delete" /\ call.phase = "commit") =>
                    call.index.files[p] = call.plan[p]

FilesInv == Own /\ Taken /\ Steady

LEMMA RemovalFacts ==
    ASSUME TypeInv, call.phase # "idle"
    PROVE  /\ Removals \subseteq call.args.paths
           /\ call.args.op = "upload" => Removals = {}
           /\ call.args.op = "delete" => Removals = call.args.paths
           /\ call.args.op = "commit" => \A p \in call.args.paths :
                p \in Removals <=> call.plan[p] = None
  BY Closed, ArgumentFacts DEF Removals, Operations

\* The files of a request that is let in are the only ones that have changed, and those
\* of an upload or a delete have not.
LEMMA EnterFiles ==
    ASSUME Base, Enters
    PROVE  /\ \A p \in Paths \ call.args.paths :
                index.files[p] = Head_.files[p] /\ work.files[p] = Head_.files[p]
           /\ (Starts(call.args) /\ call.args.op # "commit") => \A p \in Paths :
                index.files[p] = Head_.files[p] /\ work.files[p] = Head_.files[p]
           /\ call.args \in Arguments \cup {Seed} /\ call.args.op \in Operations
           /\ call.args.paths \subseteq Paths /\ Rid \in RequestIds /\ call.phase # "idle"
<1>1. /\ call.args \in Arguments \cup {Seed} /\ call.args.op \in Operations
      /\ call.args.paths \subseteq Paths /\ Rid \in RequestIds /\ call.phase # "idle"
  BY Closed, ArgumentFacts DEF Enters, Rid, Base
<1>2. CASE Resumable(call.args)
  <2>1. ChangedFiles \subseteq call.args.paths
    BY <1>2 DEF Resumable, OnlyOwn
  <2>2. (Starts(call.args) /\ call.args.op # "commit") => ChangedFiles = {}
    BY <1>1 DEF Starts, Clean, Operations
  <2>. QED
    BY <1>1, <2>1, <2>2 DEF ChangedFiles
<1>3. CASE Starts(call.args)
  <2>1. ChangedFiles = IF call.args.op = "commit" THEN call.args.paths ELSE {}
    BY <1>1, <1>3 DEF Starts, Clean, Operations
  <2>. QED
    BY <1>1, <2>1 DEF ChangedFiles
<1>. QED
  BY <1>2, <1>3 DEF Enters

LEMMA OwnStep ==
    ASSUME Base, Own, Next
    PROVE  Own'
<1>0. TypeInv /\ Steps
  BY NextCases DEF Base
<1>1. CASE Ends \/ Begins \/ Commits
  <2>1. call'.phase \in {"idle", "look", "reply"}
    BY <1>1, IdleType DEF Ends, Begins, Commits, CallIs
  <2>. QED
    BY <2>1 DEF Own, Entered
<1>2. CASE Enters
  <2>1. Head_' = Head_ /\ call'.index = index /\ call'.args = call.args
    BY <1>2, Resting DEF Enters, CallIs
  <2>. QED
    BY <1>2, <2>1, EnterFiles DEF Own
<1>3. CASE Moves \/ Writes
  <2>1. Head_' = Head_ /\ call'.index = call.index /\ call'.args = call.args /\ Entered
    BY <1>3, Unseen DEF Moves, Writes, CallIs, Entered, Rest
  <2>. QED
    BY <2>1 DEF Own
<1>4. CASE Stages
  <2>1. /\ Head_' = Head_ /\ call'.index = Staged /\ call'.args = call.args /\ Entered
        /\ call.phase # "idle"
    BY <1>4, Unseen DEF Stages, CallIs, Entered
  <2>. QED
    BY <1>0, <2>1, StagedType, RemovalFacts DEF Own
<1>5. CASE Meddles
  BY <1>5, Unseen DEF Meddles, Own, Entered
<1>. QED
  BY <1>0, <1>1, <1>2, <1>3, <1>4, <1>5 DEF Steps

LEMMA TakenStep ==
    ASSUME Base, Taken, Next
    PROVE  Taken'
<1>0. TypeInv /\ Announced /\ Engaged /\ Steps
  BY NextCases DEF Base, TypeInv
<1>1. CASE Ends \/ Begins
  <2>1. call'.phase \in {"idle", "look"} /\ Head_' = Head_ /\ work' = work
    BY <1>1, IdleType, Resting DEF Ends, Begins, Rest
  <2>. QED
    BY <2>1 DEF Taken, Entered
<1>2. CASE Enters
  <2>. DEFINE a == call.args
  <2>1. Head_' = Head_ /\ work' = work /\ call'.args = a /\ call'.index = index
    BY <1>2, Resting DEF Enters, CallIs, Rest
  <2>2. ASSUME a.op = "delete", NEW p \in a.paths
        PROVE  Head_.files[p] = IF call'.phase = "admit" THEN call'.index.files[p]
                                ELSE call'.plan[p]
    <3>1. CASE Starts(a) /\ CallIs(Starting(a.op), index, <<>>, FALSE, call.revision)
      <4>1. call'.phase = "admit"
        BY <2>2, <3>1 DEF CallIs, Starting
      <4>. QED
        BY <1>2, <2>1, <2>2, <3>1, <4>1, EnterFiles
    <3>2. CASE Resumable(a) /\ CallIs(Resuming(a.op), index, Written(a).plan, TRUE, call.revision)
      <4>1. call'.phase = "recheck" /\ call'.plan = work.receipts[Rid].plan
        BY <2>2, <3>2 DEF CallIs, Resuming, Written, Rid
      <4>2. /\ work.receipts[Rid] \in Receipt /\ Head_.receipts[Rid] = None
            /\ work.receipts[Rid].op = "delete" /\ DOMAIN work.receipts[Rid].plan = a.paths
        <5>1. Written(a) = [op |-> a.op, plan |-> Written(a).plan]
          BY <1>2, <3>2, EnterReceipts
        <5>2. Written(a).op = "delete"
          BY <2>2, <5>1
        <5>. QED
          BY <1>2, <3>2, <5>2, EnterReceipts DEF Written, Rid
      <4>3. work.receipts[Rid].plan[p] = Head_.files[p]
        BY <1>2, <2>2, <4>2, EnterFiles, ReceiptFacts DEF Taken
      <4>. QED
        BY <4>1, <4>3
    <3>. QED
      BY <1>2, <2>2, <3>1, <3>2 DEF Enters
  <2>. QED
    BY <2>1, <2>2 DEF Taken
<1>3. CASE Moves
  <2>1. Head_' = Head_ /\ work' = work /\ call'.args = call.args /\ Entered
    BY <1>3, Resting DEF Moves, CallIs, Rest, Entered
  <2>2. ASSUME call.args.op = "delete", NEW p \in call.args.paths
        PROVE  Head_.files[p] = call'.plan[p] /\ call'.phase # "admit"
    BY <1>0, <1>3, <2>1, <2>2 DEF Moves, CallIs, Taken, Engaged
  <2>. QED
    BY <2>1, <2>2 DEF Taken
<1>4. CASE Writes
  <2>1. /\ Head_' = Head_ /\ call'.args = call.args /\ call'.plan = call.plan /\ Entered
        /\ call.phase # "admit" /\ Planned
    BY <1>4, Unseen DEF Writes, CallIs, Entered, Planned
  <2>2. call'.phase # "admit"
    <3>1. call.args.op \in Operations
      BY <1>0, <2>1, Closed, ArgumentFacts DEF Entered
    <3>. QED
      BY <1>4, <3>1 DEF Writes, CallIs, Operations
  <2>3. ASSUME NEW r \in RequestIds, work'.receipts[r] # Head_.receipts[r],
               work'.receipts[r] \in Receipt, work'.receipts[r].op = "delete",
               NEW p \in DOMAIN work'.receipts[r].plan
        PROVE  work'.receipts[r].plan[p] = Head_.files[p]
    <3>1. CASE work'.receipts[r] = work.receipts[r]
      BY <2>3, <3>1 DEF Taken
    <3>2. CASE work'.receipts[r] # work.receipts[r]
      <4>1. r = Rid /\ call.phase = "fill"
        BY <1>0, <1>4, <2>3, <3>2, WriteFacts, ReceiptFacts DEF Writes
      <4>2. work'.receipts[r] = [op |-> call.args.op, plan |-> call.plan]
        BY <1>0, <1>4, <4>1, WriteFacts
      <4>3. call.args.op = "delete" /\ p \in call.args.paths
        BY <1>0, <2>1, <2>3, <4>2 DEF Announced
      <4>. QED
        BY <2>1, <4>2, <4>3 DEF Taken
    <3>. QED
      BY <3>1, <3>2
  <2>. QED
    BY <2>1, <2>2, <2>3 DEF Taken
<1>5. CASE Stages
  BY <1>5, Unseen DEF Stages, CallIs, Taken, Entered
<1>6. CASE Commits
  <2>1. call'.phase = "reply" /\ \A r \in RequestIds : work'.receipts[r] = Head_'.receipts[r]
    BY <1>6, CommitClears DEF Commits, CallIs, ChangedReceipts
  <2>. QED
    BY <2>1 DEF Taken, Entered
<1>7. CASE Meddles
  <2>1. Head_' = Head_ /\ work'.receipts = work.receipts /\ call' = call
    BY <1>0, <1>7, MeddleFacts, Unseen DEF Meddles
  <2>. QED
    BY <2>1 DEF Taken, Entered
<1>. QED
  BY <1>0, <1>1, <1>2, <1>3, <1>4, <1>5, <1>6, <1>7 DEF Steps

LEMMA SteadyStep ==
    ASSUME Base, Steady, Next
    PROVE  Steady'
<1>0. TypeInv /\ Announced /\ Engaged /\ Steps
  BY NextCases DEF Base, TypeInv
<1>1. CASE Ends \/ Begins \/ Commits
  <2>1. call'.phase \in {"idle", "look", "reply"}
    BY <1>1, IdleType DEF Ends, Begins, Commits, CallIs
  <2>. QED
    BY <2>1 DEF Steady
<1>2. CASE Enters
  <2>. DEFINE a == call.args
  <2>1. work' = work /\ call'.args = a /\ call'.index = index
    BY <1>2 DEF Enters, CallIs, Rest
  <2>2. a.op \in Operations /\ a.paths \subseteq Paths
    BY <1>2, EnterFiles
  <2>3. CASE CallIs(Resuming(a.op), index, Written(a).plan, TRUE, call.revision)
    <3>1. \/ a.op = "upload" /\ call'.phase = "target"
          \/ a.op = "delete" /\ call'.phase = "recheck"
          \/ a.op = "commit" /\ call'.phase = "plan"
      BY <2>2, <2>3 DEF CallIs, Resuming, Operations
    <3>. QED
      BY <2>1, <3>1 DEF Steady
  <2>4. CASE Starts(a) /\ CallIs(Starting(a.op), index, <<>>, FALSE, call.revision)
    <3>1. \/ a.op = "commit" /\ call'.phase = "plan"
          \/ a.op # "commit" /\ call'.phase = "admit"
      BY <2>4 DEF CallIs, Starting
    <3>2. a.op # "commit" => \A p \in a.paths : work.files[p] = index.files[p]
      BY <1>2, <2>2, <2>4, EnterFiles
    <3>. QED
      BY <2>1, <3>1, <3>2 DEF Steady
  <2>5. CASE a.op = "upload" /\ CallIs("truncate", index, Uploaded(a), FALSE, call.revision)
    BY <2>1, <2>5 DEF Steady, CallIs
  <2>. QED
    BY <1>2, <2>3, <2>4, <2>5 DEF Enters
<1>3. CASE Moves
  <2>1. /\ work' = work /\ raced' = raced /\ call'.args = call.args /\ Rid' = Rid
        /\ call.phase # "idle"
    BY <1>3 DEF Moves, CallIs, Rest, Rid
  <2>2. CASE call.phase = "admit"
    <3>1. /\ call'.phase = "truncate" /\ call.args.op # "commit"
          /\ call.args.op = "delete" =>
                \A p \in call.args.paths : call'.plan[p] = call.index.files[p]
      BY <1>0, <1>3, <2>2 DEF Moves, CallIs, Engaged
    <3>. QED
      BY <2>1, <2>2, <3>1 DEF Steady
  <2>3. CASE call.phase = "recheck"
    <3>1. /\ call'.phase = "remove" /\ call.args.op = "delete"
          /\ \A p \in call.args.paths : work.files[p] \in {None, call'.plan[p]}
      BY <1>0, <1>3, <2>3 DEF Moves, CallIs, Engaged
    <3>. QED
      BY <2>1, <3>1 DEF Steady
  <2>4. CASE call.phase = "plan"
    <3>1. /\ call'.phase \in {"truncate", "stage"} /\ call.args.op = "commit"
          /\ \A p \in call.args.paths : call'.plan[p] = work.files[p]
      BY <1>0, <1>3, <2>4 DEF Moves, CallIs, Engaged
    <3>. QED
      BY <2>1, <3>1 DEF Steady
  <2>. QED
    BY <1>3, <2>2, <2>3, <2>4 DEF Moves
<1>4. CASE Writes
  <2>1. /\ raced' = raced /\ call'.args = call.args /\ call'.plan = call.plan /\ Rid' = Rid
        /\ call.phase # "idle" /\ call.args.paths \subseteq Paths /\ Planned
    BY <1>0, <1>4, WriteFacts DEF Writes, CallIs, Rid, Planned
  <2>2. CASE call.phase = "truncate"
    <3>1. call'.phase = "fill" /\ work'.files = work.files
      BY <1>0, <1>4, <2>2, WriteFacts DEF Writes, CallIs
    <3>. QED
      BY <2>1, <2>2, <3>1 DEF Steady
  <2>3. CASE call.phase = "fill"
    <3>1. call.args.op \in Operations
      BY <1>0, <2>1, Closed, ArgumentFacts
    <3>2. /\ work'.files = work.files
          /\ \/ call.args.op = "upload" /\ call'.phase = "target"
             \/ call.args.op = "delete" /\ call'.phase = "remove"
             \/ call.args.op = "commit" /\ call'.phase = "stage"
      BY <1>0, <1>4, <2>3, <3>1, WriteFacts DEF Writes, CallIs, Operations
    <3>. QED
      BY <2>1, <2>3, <3>2 DEF Steady
  <2>4. CASE call.phase = "target"
    <3>1. /\ call'.phase = "stage" /\ call.args.op = "upload"
          /\ \A p \in call.args.paths : work'.files[p] = call.args.content
      BY <1>0, <1>4, <2>1, <2>4, WriteFacts DEF Writes, CallIs, Engaged
    <3>. QED
      BY <1>0, <2>1, <3>1 DEF Steady, Announced
  <2>5. CASE call.phase = "remove"
    <3>1. call'.phase = "stage" /\ call.args.op = "delete"
      BY <1>0, <1>4, <2>5 DEF Writes, CallIs, Engaged
    <3>. QED
      BY <2>1, <3>1 DEF Steady
  <2>. QED
    BY <1>4, <2>2, <2>3, <2>4, <2>5 DEF Writes
<1>5. CASE Stages
  <2>1. /\ work' = work /\ raced' = raced /\ call'.args = call.args /\ call'.plan = call.plan
        /\ Rid' = Rid /\ call'.phase = "commit" /\ call'.index = Staged /\ call.phase = "stage"
    BY <1>5 DEF Stages, CallIs, Rid
  <2>2. call.args.op \in Operations /\ call.args.paths \subseteq Paths
    BY <1>0, <2>1, Closed, ArgumentFacts
  <2>3. ASSUME NEW p \in call.args.paths, Rid \notin raced
        PROVE  Staged.files[p] = IF call.args.op = "delete" THEN None ELSE call.plan[p]
    <3>1. Staged.files[p] = IF p \in Removals THEN None ELSE work.files[p]
      BY <1>0, <2>1, <2>2, <2>3, StagedType
    <3>2. call.args.op # "delete" => work.files[p] = call.plan[p]
      BY <2>1, <2>2, <2>3 DEF Steady, Operations
    <3>. QED
      BY <1>0, <2>1, <2>2, <2>3, <3>1, <3>2, RemovalFacts DEF Operations
  <2>. QED
    BY <2>1, <2>3 DEF Steady
<1>6. CASE Meddles
  <2>1. call' = call /\ raced \subseteq raced'
    BY <1>0, <1>6, MeddleFacts DEF Meddles
  <2>2. (call.phase # "idle" /\ Rid \notin raced') =>
            \A p \in call.args.paths : work'.files[p] = work.files[p]
    BY <1>0, <1>6, MeddleFacts
  <2>. QED
    BY <2>1, <2>2 DEF Steady, Rid
<1>. QED
  BY <1>0, <1>1, <1>2, <1>3, <1>4, <1>5, <1>6 DEF Steps

LEMMA FilesAlways == Spec => []FilesInv
<1>1. Init => FilesInv
  <2>. SUFFICES ASSUME Init PROVE FilesInv
    OBVIOUS
  <2>1. call.phase = "idle" /\ work = Empty /\ Head_ = Empty
    BY IdleType DEF Init, Head_
  <2>. QED
    BY <2>1 DEF FilesInv, Own, Taken, Steady, Entered
<1>2. Base /\ FilesInv /\ Next => FilesInv'
  BY OwnStep, TakenStep, SteadyStep DEF FilesInv
<1>3. FilesInv /\ UNCHANGED vars => FilesInv'
  <2>. SUFFICES ASSUME FilesInv, UNCHANGED vars PROVE FilesInv'
    OBVIOUS
  <2>1. Head_' = Head_ /\ UNCHANGED <<log, index, work, call, raced>>
    BY Unseen DEF vars
  <2>. QED
    BY <2>1 DEF FilesInv, Own, Taken, Steady, Entered, Rid
<1>. QED
  BY <1>1, <1>2, <1>3, BaseAlways, PTL DEF Spec

LEMMA PlanStep ==
    ASSUME Base, FilesInv, PlanIsCommitted, [Next]_vars
    PROVE  PlanIsCommitted'
<1>0. TypeInv /\ Announced /\ Lineage
  BY DEF Base
<1>1. CASE UNCHANGED log /\ raced \subseteq raced'
  <2>1. \A i : Before(i)' = Before(i) /\ NewReceipts(i)' = NewReceipts(i)
    BY <1>1 DEF Before, NewReceipts
  <2>. QED
    BY <1>1, <2>1 DEF PlanIsCommitted
<1>2. CASE Commits
  <2>. DEFINE a == call.args
  <2>a. PICK n : n = Len(log) + 1
    OBVIOUS
  <2>1. PICK e \in Entry : e = [tree |-> call.index, by |-> a] /\ log' = Append(log, e)
    BY <1>0, <1>2, CommitEntry DEF Commits
  <2>2. /\ DOMAIN log' = DOMAIN log \cup {n} /\ n \notin DOMAIN log
        /\ log'[n] = e
        /\ \A i \in DOMAIN log : log'[i] = log[i] /\ Before(i)' = Before(i)
        /\ Before(n)' = Head_
    BY <1>0, <2>a, <2>1, Appended
  <2>3. raced' = raced /\ Entered /\ HasReceipt /\ Planned /\ call.phase = "commit"
    BY <1>2 DEF Commits, Entered, HasReceipt, Planned
  <2>4. ASSUME NEW i \in DOMAIN log, NEW r \in NewReceipts(i)' \ raced'
        PROVE  LET receipt == log'[i].tree.receipts[r] IN
               \A p \in DOMAIN receipt.plan :
                    IF receipt.op = "delete"
                    THEN Before(i)'.files[p] = receipt.plan[p] /\ log'[i].tree.files[p] = None
                    ELSE log'[i].tree.files[p] = receipt.plan[p]
    <3>1. r \in NewReceipts(i) \ raced
      BY <2>2, <2>3, <2>4 DEF NewReceipts
    <3>. QED
      BY <2>2, <3>1 DEF PlanIsCommitted
  <2>5. ASSUME NEW r \in NewReceipts(n)' \ raced'
        PROVE  LET receipt == log'[n].tree.receipts[r] IN
               \A p \in DOMAIN receipt.plan :
                    IF receipt.op = "delete"
                    THEN Before(n)'.files[p] = receipt.plan[p] /\ log'[n].tree.files[p] = None
                    ELSE log'[n].tree.files[p] = receipt.plan[p]
    <3>1. e.tree = call.index /\ r \in RequestIds /\ call.index.receipts[r] # Head_.receipts[r]
      BY <2>1, <2>2, <2>5 DEF NewReceipts
    <3>2. call.index.receipts = index.receipts /\ ChangedReceipts \subseteq {Rid}
      BY <1>0, <2>3 DEF Announced
    <3>3. r = Rid
      BY <3>1, <3>2 DEF ChangedReceipts
    <3>4. call.index.receipts[r] = [op |-> a.op, plan |-> call.plan] /\ DOMAIN call.plan = a.paths
      BY <1>0, <2>3, <3>2, <3>3 DEF Announced
    <3>5. \A p \in a.paths : IF a.op = "delete"
                THEN Head_.files[p] = call.plan[p] /\ call.index.files[p] = None
                ELSE call.index.files[p] = call.plan[p]
      BY <2>3, <2>5, <3>3 DEF FilesInv, Taken, Steady
    <3>. QED
      BY <2>2, <3>1, <3>4, <3>5
  <2>. QED
    BY <2>2, <2>4, <2>5 DEF PlanIsCommitted
<1>3. CASE Next
  <2>1. Steps
    BY <1>0, <1>3, NextCases
  <2>. QED
    BY <1>0, <1>1, <1>2, <2>1, MeddleFacts DEF Steps, Ends, Begins, Enters, Moves, Writes,
       Stages, Meddles, Rest
<1>. QED
  BY <1>1, <1>3 DEF vars

(* A commit holds what the receipt of its request announces, if no other   *)
(* hand changed its files while its call ran: also when an interrupted     *)
(* request was completed by a retry, and its files, its staged files or    *)
(* its receipt were changed in between (Resumes, artifact_upload,          *)
(* artifact_delete and artifact_commit).                                   *)
THEOREM CommitsHoldTheirPlan == Spec => []PlanIsCommitted
<1>1. Init => PlanIsCommitted
  BY DEF Init, PlanIsCommitted
<1>. QED
  BY <1>1, PlanStep, BaseAlways, FilesAlways, PTL DEF Spec

(* A delete removes the content it was asked to remove and no other file:  *)
(* an edit made while the delete lay interrupted is not lost when it is    *)
(* retried, unless it is made between the last comparison of the file and  *)
(* its removal (artifact_delete).                                          *)
THEOREM DeletesTakeWhatTheySaw == Spec => DeleteTakesWhatItSaw
<1>1. ASSUME Base, FilesInv, [Next]_vars, NEW p \in Paths, call.phase = "remove",
             call' # call, work'.files[p] # work.files[p], Rid \notin raced
      PROVE  p \in call.args.paths /\ work.files[p] = call.plan[p]
  <2>0. TypeInv /\ Announced /\ Engaged
    BY <1>1 DEF Base, TypeInv
  <2>1. Writes
    <3>1. Steps
      BY <1>1, <2>0, NextCases DEF vars
    <3>. QED
      BY <1>1, <3>1 DEF Steps, Ends, Begins, Enters, Moves, Stages, Commits, Meddles, Rest
  <2>2. p \in call.args.paths /\ work'.files[p] = None
    BY <1>1, <2>0, <2>1, WriteFacts
  <2>3. work.files[p] \in {None, call.plan[p]}
    BY <1>1, <2>0, <2>2 DEF FilesInv, Steady, Engaged
  <2>. QED
    BY <1>1, <2>2, <2>3
<1>2. Base /\ FilesInv /\ [Next]_vars =>
        [\A p \in Paths :
            (call.phase = "remove" /\ call' # call /\ work'.files[p] # work.files[p]
                /\ call.args.rid \notin raced)
            => p \in call.args.paths /\ work.files[p] = call.plan[p]]_vars
  BY <1>1 DEF Rid
<1>. QED
  BY <1>2, BaseAlways, FilesAlways, PTL DEF Spec, DeleteTakesWhatItSaw

-----------------------------------------------------------------------------
(* What an interruption leaves behind, when no other hand touches it.      *)

\* A file of an interrupted request: what its receipt says of it and what HEAD, the
\* index and the working tree hold.
LeftFile(op, says, head, staged, found) ==
    /\ op = "upload" => found \notin Links
    /\ op = "delete" => found \in {None, says} \ Links /\ staged \in {head, None, says}
    /\ op = "commit" => found = says /\ found # head /\ staged \in {head, says}

Left(r) ==
    LET rec == work.receipts[r] IN
    rec \notin {None, Torn} =>
        /\ ChangedFiles \subseteq DOMAIN rec.plan
        /\ index.receipts[r] \in {None, rec}
        /\ \A p \in DOMAIN rec.plan :
            LeftFile(rec.op, rec.plan[p], Head_.files[p], index.files[p], work.files[p])

\* The files of a call that has not written its receipt are as it found them.
Untouched ==
    (Entered /\ ~HasReceipt) =>
        IF call.args.op = "commit"
        THEN /\ ChangedFiles = call.args.paths
             /\ \A p \in call.args.paths :
                    /\ index.files[p] = Head_.files[p]
                    /\ Planned => work.files[p] = call.plan[p]
        ELSE /\ ChangedFiles = {}
             /\ \A p \in call.args.paths : work.files[p] \notin Links

LeftInv ==
    ~meddled =>
        /\ \A r \in ChangedReceipts : Left(r)
        /\ (Entered /\ call.phase # "commit") => call.index.files = index.files
        /\ Untouched

LEMMA LeftEnters ==
    ASSUME Base, LeftInv, Enters
    PROVE  LeftInv'
<1>. DEFINE a == call.args
<1>1. /\ Head_' = Head_ /\ ChangedFiles' = ChangedFiles /\ ChangedReceipts' = ChangedReceipts
      /\ UNCHANGED <<index, work, meddled>> /\ call'.args = a /\ call'.index = index
      /\ a.op \in Operations
  BY Resting, EnterFiles DEF Enters, Rest, CallIs
<1>2. \A r : Left(r)' = Left(r)
  BY <1>1 DEF Left
<1>3. CASE CallIs(Resuming(a.op), index, Written(a).plan, TRUE, call.revision)
  <2>1. HasReceipt'
    BY <1>1, <1>3 DEF CallIs, Resuming, HasReceipt, Operations
  <2>. QED
    BY <1>1, <1>2, <2>1 DEF LeftInv, Untouched
<1>4. CASE Starts(a) /\ CallIs(Starting(a.op), index, <<>>, FALSE, call.revision)
  <2>1. call'.phase = (IF a.op = "commit" THEN "plan" ELSE "admit") /\ call'.pending = FALSE
    BY <1>4 DEF CallIs, Starting
  <2>2. CASE a.op = "commit"
    <3>1. ~Planned' /\ ChangedFiles = a.paths /\ \A p \in a.paths : index.files[p] = Head_.files[p]
      BY <1>4, <2>1, <2>2 DEF Planned, Starts
    <3>. QED
      BY <1>1, <1>2, <2>2, <3>1 DEF LeftInv, Untouched
  <2>3. CASE a.op # "commit"
    <3>1. ChangedFiles = {} /\ \A p \in a.paths : work.files[p] \notin Links
      BY <1>1, <1>4, <2>3 DEF Starts, Clean, Operations, ensure_safe_live_path
    <3>. QED
      BY <1>1, <1>2, <2>3, <3>1 DEF LeftInv, Untouched
  <2>. QED
    BY <2>2, <2>3
<1>5. CASE Starts(a) /\ a.op = "upload"
  <2>1. ChangedFiles = {} /\ \A p \in a.paths : work.files[p] \notin Links
    BY <1>5 DEF Starts, Clean, ensure_safe_live_path
  <2>. QED
    BY <1>1, <1>2, <1>5, <2>1 DEF LeftInv, Untouched
<1>. QED
  BY <1>3, <1>4, <1>5 DEF Enters

LEMMA LeftMoves ==
    ASSUME Base, LeftInv, Moves
    PROVE  LeftInv'
<1>0. Engaged
  BY DEF Base, TypeInv
<1>1. /\ Head_' = Head_ /\ ChangedFiles' = ChangedFiles /\ ChangedReceipts' = ChangedReceipts
      /\ UNCHANGED <<index, work, meddled>> /\ call'.args = call.args
      /\ call'.index = call.index /\ call'.pending = call.pending
      /\ Entered /\ call.phase # "commit"
  BY Resting DEF Moves, Rest, CallIs, Entered
<1>2. \A r : Left(r)' = Left(r)
  BY <1>1 DEF Left
<1>3. CASE call.phase = "admit"
  <2>1. ~HasReceipt /\ call.args.op # "commit"
    BY <1>0, <1>3 DEF HasReceipt, Engaged
  <2>. QED
    BY <1>1, <1>2, <2>1 DEF LeftInv, Untouched
<1>4. CASE call.phase = "recheck"
  <2>1. HasReceipt'
    BY <1>4 DEF Moves, CallIs, HasReceipt
  <2>. QED
    BY <1>1, <1>2, <2>1 DEF LeftInv, Untouched
<1>5. CASE call.phase = "plan" /\ call.pending
  <2>1. HasReceipt'
    BY <1>5 DEF Moves, CallIs, HasReceipt
  <2>. QED
    BY <1>1, <1>2, <2>1 DEF LeftInv, Untouched
<1>6. CASE call.phase = "plan" /\ ~call.pending
  <2>1. ~HasReceipt /\ call.args.op = "commit"
    BY <1>0, <1>6 DEF HasReceipt, Engaged
  <2>2. \A p \in call.args.paths : work.files[p] = call'.plan[p]
    BY <1>6 DEF Moves, CallIs
  <2>. QED
    BY <1>1, <1>2, <2>1, <2>2 DEF LeftInv, Untouched
<1>. QED
  BY <1>3, <1>4, <1>5, <1>6 DEF Moves

\* What a call has announced when it writes its receipt is what it found.
LEMMA LeftWritten ==
    ASSUME Base, FilesInv, LeftInv, ~meddled, Entered, ~HasReceipt, Planned, call.phase = "fill"
    PROVE  /\ ChangedFiles \subseteq DOMAIN call.plan
           /\ \A p \in DOMAIN call.plan :
                LeftFile(call.args.op, call.plan[p], Head_.files[p], index.files[p], work.files[p])
<1>1. /\ call.args \in Arguments \cup {Seed} /\ call.args.op \in Operations
      /\ call.args.paths \subseteq Paths /\ DOMAIN call.plan = call.args.paths
  BY Closed, ArgumentFacts DEF Base, Announced, Entered
<1>2. Untouched
  BY DEF LeftInv
<1>3. CASE call.args.op = "commit"
  <2>1. ChangedFiles = call.args.paths
    BY <1>2, <1>3 DEF Untouched
  <2>2. ASSUME NEW p \in call.args.paths
        PROVE  LeftFile("commit", call.plan[p], Head_.files[p], index.files[p], work.files[p])
    <3>1. index.files[p] = Head_.files[p] /\ work.files[p] = call.plan[p] /\ p \in ChangedFiles
      BY <1>2, <1>3, <2>1, <2>2 DEF Untouched
    <3>2. ~(Head_.files[p] = index.files[p] /\ index.files[p] = work.files[p])
      BY <3>1 DEF ChangedFiles
    <3>. QED
      BY <3>1, <3>2 DEF LeftFile
  <2>. QED
    BY <1>1, <1>3, <2>1, <2>2
<1>4. CASE call.args.op # "commit"
  <2>1. ChangedFiles = {} /\ \A p \in call.args.paths : work.files[p] \notin Links
    BY <1>2, <1>4 DEF Untouched
  <2>2. \A p \in Paths : Head_.files[p] = index.files[p] /\ index.files[p] = work.files[p]
    BY <2>1 DEF ChangedFiles
  <2>3. call.args.op = "delete" => \A p \in call.args.paths : Head_.files[p] = call.plan[p]
    BY DEF FilesInv, Taken
  <2>. QED
    BY <1>1, <1>4, <2>1, <2>2, <2>3 DEF LeftFile
<1>. QED
  BY <1>3, <1>4

LEMMA LeftWrites ==
    ASSUME Base, FilesInv, LeftInv, Writes, Announced'
    PROVE  LeftInv'
<1>0. /\ TypeInv /\ Announced /\ Engaged
      /\ Rid \in RequestIds /\ call.args.op \in Operations /\ call.args.paths \subseteq Paths
      /\ DOMAIN call.plan = call.args.paths
  BY Closed, ArgumentFacts DEF Base, TypeInv, Writes, Rid, Announced, Planned
<1>a. [op |-> call.args.op, plan |-> call.plan] \notin {None, Torn}
  <2>1. call.plan \in Plans
    BY <1>0, Closed DEF Writes, Stages
  <2>2. [op |-> call.args.op, plan |-> call.plan] \in Receipt
    BY <1>0, <2>1 DEF Receipt
  <2>. QED
    BY <2>2, ReceiptFacts
<1>1. /\ Head_' = Head_ /\ UNCHANGED <<index, meddled>> /\ call'.args = call.args
      /\ call'.index = call.index /\ call'.plan = call.plan /\ call'.pending = call.pending
      /\ Entered /\ Entered' /\ call.phase # "commit" /\ Rid' = Rid
  BY <1>0, Unseen DEF Writes, CallIs, Entered, Rid, Operations
<1>2. ChangedReceipts' \subseteq {Rid}
  BY <1>1 DEF Announced
<1>. SUFFICES ASSUME ~meddled
              PROVE  /\ \A r \in ChangedReceipts' : Left(r)'
                     /\ Untouched'
  BY <1>1 DEF LeftInv
<1>3. ASSUME call.phase \in {"truncate", "fill"}
      PROVE  work'.files = work.files /\ ChangedFiles' = ChangedFiles /\ ~HasReceipt /\ Planned
  <2>1. work'.files = work.files
    BY <1>0, <1>3, WriteFacts
  <2>. QED
    BY <1>1, <1>3, <2>1 DEF ChangedFiles, HasReceipt, Planned
<1>4. CASE call.phase = "truncate"
  <2>1. work'.receipts[Rid] = Torn
    BY <1>0, <1>4, WriteFacts
  <2>2. Untouched'
    BY <1>1, <1>3, <1>4 DEF LeftInv, Untouched
  <2>. QED
    BY <1>2, <2>1, <2>2 DEF Left
<1>5. CASE call.phase = "fill"
  <2>1. work'.receipts[Rid] = [op |-> call.args.op, plan |-> call.plan]
    BY <1>0, <1>5, WriteFacts
  <2>2. index.receipts[Rid] = None
    BY <1>0, <1>1, <1>3, <1>5 DEF Announced
  <2>3. /\ ChangedFiles \subseteq DOMAIN call.plan
        /\ \A p \in DOMAIN call.plan :
             LeftFile(call.args.op, call.plan[p], Head_.files[p], index.files[p], work.files[p])
    BY <1>1, <1>3, <1>5, LeftWritten
  <2>4. Left(Rid)'
    BY <1>1, <1>3, <1>5, <2>1, <2>2, <2>3 DEF Left
  <2>5. HasReceipt'
    BY <1>0, <1>5 DEF Writes, CallIs, HasReceipt, Operations
  <2>. QED
    BY <1>1, <1>2, <2>4, <2>5 DEF Untouched, Rid
<1>6. CASE call.phase \in {"target", "remove"}
  <2>1. /\ work'.receipts = work.receipts /\ HasReceipt /\ HasReceipt'
        /\ work.receipts[Rid] = [op |-> call.args.op, plan |-> call.plan]
    BY <1>0, <1>6, WriteFacts DEF Writes, CallIs, HasReceipt, Announced
  <2>2. \A p \in Paths \ call.args.paths : work'.files[p] = work.files[p]
    BY <1>0, <1>6, WriteFacts
  <2>3. call.args.op = (IF call.phase = "target" THEN "upload" ELSE "delete")
    BY <1>0, <1>6 DEF Engaged
  <2>4. ASSUME NEW p \in call.args.paths
        PROVE  work'.files[p] \in IF call.phase = "target" THEN Contents \ Links ELSE {None}
    BY <1>0, <1>6, <2>3, <2>4, WriteFacts, Closed, ArgumentFacts DEF Writes
  <2>5. ASSUME Rid \in ChangedReceipts'
        PROVE  Left(Rid)'
    <3>1. Rid \in ChangedReceipts
      BY <1>1, <2>1, <2>5 DEF ChangedReceipts
    <3>2. Left(Rid)
      BY <3>1 DEF LeftInv
    <3>3. /\ ChangedFiles \subseteq call.args.paths /\ index.receipts[Rid] \in {None, work.receipts[Rid]}
          /\ \A p \in call.args.paths :
               LeftFile(call.args.op, call.plan[p], Head_.files[p], index.files[p], work.files[p])
      BY <1>0, <1>a, <2>1, <3>2 DEF Left
    <3>4. ChangedFiles' \subseteq call.args.paths
      BY <1>1, <2>2, <3>3 DEF ChangedFiles
    <3>5. \A p \in call.args.paths :
            LeftFile(call.args.op, call.plan[p], Head_.files[p], index.files[p], work'.files[p])
      BY <2>3, <2>4, <3>3, ContentsAssumption DEF LeftFile
    <3>. QED
      BY <1>0, <1>1, <2>1, <3>3, <3>4, <3>5 DEF Left
  <2>. QED
    BY <1>1, <1>2, <2>1, <2>5 DEF Untouched, Rid
<1>. QED
  BY <1>4, <1>5, <1>6 DEF Writes

LEMMA LeftStages ==
    ASSUME Base, LeftInv, Stages, Announced'
    PROVE  LeftInv'
<1>0. /\ TypeInv /\ Announced
      /\ Rid \in RequestIds /\ call.args.op \in Operations /\ call.args.paths \subseteq Paths
      /\ DOMAIN call.plan = call.args.paths
  BY Closed, ArgumentFacts DEF Base, Stages, Rid, Announced, Planned
<1>a. [op |-> call.args.op, plan |-> call.plan] \notin {None, Torn}
  <2>1. call.plan \in Plans
    BY <1>0, Closed DEF Writes, Stages
  <2>2. [op |-> call.args.op, plan |-> call.plan] \in Receipt
    BY <1>0, <2>1 DEF Receipt
  <2>. QED
    BY <2>2, ReceiptFacts
<1>1. /\ Head_' = Head_ /\ UNCHANGED <<work, meddled>> /\ call'.args = call.args
      /\ call'.phase = "commit" /\ call.phase = "stage" /\ index' = Staged
      /\ Entered /\ Entered' /\ Rid' = Rid /\ HasReceipt /\ HasReceipt'
  BY Unseen DEF Stages, CallIs, Entered, Rid, HasReceipt
<1>2. /\ ChangedReceipts' \subseteq {Rid}
      /\ work.receipts[Rid] = [op |-> call.args.op, plan |-> call.plan]
  BY <1>0, <1>1 DEF Announced
<1>3. /\ index'.receipts[Rid] = work.receipts[Rid]
      /\ \A p \in Paths : index'.files[p] =
            IF p \in Removals THEN None
            ELSE IF p \in call.args.paths THEN work.files[p] ELSE call.index.files[p]
      /\ Removals \subseteq call.args.paths
      /\ call.args.op = "delete" => Removals = call.args.paths
      /\ call.args.op = "commit" =>
            \A p \in call.args.paths : p \in Removals <=> call.plan[p] = None
  BY <1>0, <1>1, StagedType, RemovalFacts
<1>4. ASSUME ~meddled, Rid \in ChangedReceipts'
      PROVE  Left(Rid)'
  <2>1. Rid \in ChangedReceipts
    <3>1. Head_.receipts[Rid] # work.receipts[Rid]
      BY <1>0, <1>1, <1>3, <1>4 DEF ChangedReceipts
    <3>. QED
      BY <1>0, <3>1 DEF ChangedReceipts
  <2>2. Left(Rid) /\ call.index.files = index.files
    BY <1>1, <1>4, <2>1 DEF LeftInv
  <2>3. /\ ChangedFiles \subseteq call.args.paths
        /\ \A p \in call.args.paths :
             LeftFile(call.args.op, call.plan[p], Head_.files[p], index.files[p], work.files[p])
    BY <1>0, <1>2, <1>a, <2>2 DEF Left
  <2>4. ChangedFiles' \subseteq call.args.paths
    BY <1>1, <1>3, <2>2, <2>3 DEF ChangedFiles
  <2>5. \A p \in call.args.paths :
            LeftFile(call.args.op, call.plan[p], Head_.files[p], index'.files[p], work.files[p])
    BY <1>0, <1>3, <2>3 DEF LeftFile
  <2>. QED
    BY <1>0, <1>1, <1>2, <1>3, <2>4, <2>5 DEF Left
<1>. QED
  BY <1>1, <1>2, <1>4 DEF LeftInv, Untouched, Rid

LEMMA LeftStep ==
    ASSUME Base, FilesInv, LeftInv, Next
    PROVE  LeftInv'
<1>0. TypeInv /\ Steps /\ Announced'
  BY NextCases, AnnouncedStep DEF Base
<1>1. CASE Ends \/ Begins
  <2>1. /\ Head_' = Head_ /\ ChangedFiles' = ChangedFiles /\ ChangedReceipts' = ChangedReceipts
        /\ UNCHANGED <<index, work, meddled>>
    BY <1>1, Resting DEF Ends, Begins, Rest
  <2>2. ~Entered'
    BY <1>1, IdleType DEF Ends, Begins, Entered
  <2>. QED
    BY <2>1, <2>2 DEF LeftInv, Untouched, Left
<1>2. CASE Commits
  BY <1>2, CommitClears DEF Commits, CallIs, LeftInv, Untouched, Entered
<1>3. CASE Meddles
  <2>1. CASE call.phase # "idle" \/ ChangedReceipts # {}
    <3>1. meddled' = TRUE
      BY <1>3, <2>1 DEF Meddles
    <3>. QED
      BY <3>1 DEF LeftInv
  <2>2. CASE call.phase = "idle" /\ ChangedReceipts = {}
    <3>1. call' = call /\ Head_' = Head_ /\ index'.receipts = index.receipts
          /\ work'.receipts = work.receipts
      BY <1>0, <1>3, MeddleFacts, Unseen DEF Meddles
    <3>2. ChangedReceipts' = {} /\ ~Entered'
      BY <2>2, <3>1 DEF ChangedReceipts, Entered
    <3>. QED
      BY <3>2 DEF LeftInv, Untouched
  <2>. QED
    BY <2>1, <2>2
<1>. QED
  BY <1>0, <1>1, <1>2, <1>3, LeftEnters, LeftMoves, LeftWrites, LeftStages DEF Steps

(* Whatever step an interruption hits, in whatever call: when no other     *)
(* hand touches the files, a retry of the request is let in, finds staged  *)
(* only what it announced, and finds in the working tree the content it    *)
(* was to delete or to commit (artifact_upload, artifact_delete,           *)
(* artifact_commit and the index validations they make of a receipt).      *)
THEOREM InterruptionsCanBeRetried == Spec => []LeftoversCanBeRetried
<1>1. Init => LeftInv
  <2>. SUFFICES ASSUME Init PROVE LeftInv
    OBVIOUS
  <2>1. call.phase = "idle" /\ Head_ = Empty /\ index = Empty /\ work = Empty
    BY IdleType DEF Init, Head_
  <2>2. ChangedReceipts = {}
    BY <2>1 DEF ChangedReceipts
  <2>. QED
    BY <2>1, <2>2 DEF LeftInv, Untouched, Entered
<1>2. LeftInv /\ UNCHANGED vars => LeftInv'
  <2>. SUFFICES ASSUME LeftInv, UNCHANGED vars PROVE LeftInv'
    OBVIOUS
  <2>1. Rest /\ UNCHANGED <<call, index, work, meddled>>
    BY DEF vars, Rest
  <2>2. /\ Head_' = Head_ /\ ChangedFiles' = ChangedFiles /\ ChangedReceipts' = ChangedReceipts
    BY <2>1, Resting
  <2>. QED
    BY <2>1, <2>2 DEF LeftInv, Untouched, Left, Entered, HasReceipt, Planned
<1>3. Base /\ LeftInv => LeftoversCanBeRetried
  <2>. SUFFICES ASSUME Base, LeftInv, ~meddled, NEW a \in Arguments, Pending(a),
                       find_original_receipt(a.rid) = {}
                PROVE  /\ Resumes(a)
                       /\ a.op = "delete" =>
                            \A p \in a.paths : work.files[p] \in {None, Written(a).plan[p]}
                       /\ a.op = "commit" =>
                            \A p \in a.paths : work.files[p] = Written(a).plan[p]
    BY DEF LeftoversCanBeRetried
  <2>1. /\ a.op \in Operations /\ a.rid \in RequestIds /\ a.paths \subseteq Paths
        /\ TypeInv /\ Lineage
    BY ArgumentFacts DEF Base
  <2>2. Head_.receipts[a.rid] = None
    BY <2>1, Originals, HeadReceipts
  <2>3. /\ Written(a) \notin {None, Torn} /\ Written(a) = work.receipts[a.rid]
        /\ Written(a).op = a.op /\ DOMAIN Written(a).plan = a.paths
    BY DEF Pending, Fits, Written
  <2>4. a.rid \in ChangedReceipts
    BY <2>1, <2>2, <2>3 DEF ChangedReceipts
  <2>5. ChangedReceipts = {a.rid}
    BY <2>4 DEF Base, Pended
  <2>6. /\ ChangedFiles \subseteq a.paths /\ index.receipts[a.rid] \in {None, Written(a)}
        /\ \A p \in a.paths :
             LeftFile(a.op, Written(a).plan[p], Head_.files[p], index.files[p], work.files[p])
    BY <2>3, <2>4 DEF LeftInv, Left
  <2>7. OnlyOwn(a) /\ ~Clean
    BY <2>5, <2>6 DEF OnlyOwn, Clean
  <2>8. CASE a.op = "upload"
    BY <2>6, <2>7, <2>8 DEF LeftFile, Resumes, ensure_safe_live_path
  <2>9. CASE a.op = "delete"
    <3>1. /\ ensure_safe_live_path(a.paths) /\ validate_pending_receipt_index(a)
          /\ validate_pending_delete_index(a)
      BY <2>2, <2>6, <2>9 DEF LeftFile, ensure_safe_live_path, validate_pending_receipt_index,
         validate_pending_delete_index
    <3>. QED
      BY <2>6, <2>7, <2>9, <3>1 DEF LeftFile, Resumes
  <2>10. CASE a.op = "commit"
    <3>1. validate_pending_receipt_index(a) /\ validate_pending_artifact_index(a)
      BY <2>2, <2>6, <2>10 DEF LeftFile, validate_pending_receipt_index,
         validate_pending_artifact_index
    <3>2. ChangedFiles = a.paths
      BY <2>1, <2>6, <2>10 DEF LeftFile, ChangedFiles
    <3>. QED
      BY <2>6, <2>7, <2>10, <3>1, <3>2 DEF LeftFile, Resumes
  <2>. QED
    BY <2>1, <2>8, <2>9, <2>10 DEF Operations
<1>. QED
  BY <1>1, <1>2, <1>3, LeftStep, BaseAlways, FilesAlways, PTL DEF Spec

-----------------------------------------------------------------------------
(* The artifact repository implements Revisions.                           *)

Mapped == [i \in DOMAIN log |-> [by |-> log[i].by, tree |-> log[i].tree.files]]

LEMMA MappedFacts ==
    ASSUME TypeInv
    PROVE  /\ DOMAIN Mapped = DOMAIN log /\ DOMAIN Mapped = 1 .. Len(log)
           /\ Len(Mapped) = Len(log) /\ Len(log) \in Nat
           /\ \A i \in DOMAIN log :
                Mapped[i] = [by |-> log[i].by, tree |-> log[i].tree.files]
           /\ Log!Tree = Head_.files
<1>1. DOMAIN log = 1 .. Len(log) /\ Len(log) \in Nat
  BY EntryFacts
<1>2. /\ DOMAIN Mapped = DOMAIN log /\ DOMAIN Mapped = 1 .. Len(log)
      /\ \A i \in DOMAIN log : Mapped[i] = [by |-> log[i].by, tree |-> log[i].tree.files]
  BY <1>1 DEF Mapped
<1>3. Mapped \in Seq({Mapped[i] : i \in DOMAIN log}) /\ Len(Mapped) = Len(log)
  BY <1>1, <1>2 DEF Mapped
<1>4. CASE log = <<>>
  <2>1. Len(Mapped) = 0
    BY <1>3, <1>4
  <2>2. Mapped = <<>>
    BY <1>3, <2>1
  <2>. QED
    BY <1>1, <1>2, <1>3, <1>4, <2>2 DEF Log!Tree, Mapped, Head_, Empty
<1>5. CASE log # <<>>
  <2>1. Len(log) # 0
    BY <1>1, <1>5, EntryType
  <2>2. Len(log) \in DOMAIN log /\ Mapped # <<>>
    BY <1>1, <1>3, <2>1
  <2>. QED
    BY <1>1, <1>2, <1>3, <1>5, <2>2 DEF Log!Tree, Mapped, Head_, Last
<1>. QED
  BY <1>1, <1>2, <1>3, <1>4, <1>5

\* The only answers are the commits of the requests that are answered.
LEMMA AnswersGiven ==
    ASSUME Base, Next, answers' # answers
    PROVE  /\ log' = log
           /\ \E i \in DOMAIN log :
                answers' = answers \cup {[args |-> log[i].by, revision |-> i]}
<1>0. TypeInv /\ Lineage
  BY DEF Base
<1>1. CASE Reply
  <2>1. /\ log' = log /\ answers' = answers \cup {[args |-> call.args, revision |-> call.revision]}
    BY <1>1 DEF Reply, Answer
  <2>2. call.revision = Len(log) /\ log # <<>> /\ log[Len(log)].by = call.args
    BY <1>1 DEF Reply, Base, Replying
  <2>3. Len(log) \in DOMAIN log
    BY <1>0, <2>2, EntryType, EntryFacts
  <2>. QED
    BY <2>1, <2>2, <2>3
<1>2. CASE Look
  <2>. DEFINE a == call.args
  <2>1. /\ find_original_receipt(a.rid) # {} /\ Replays(a) /\ Answer(Original(a.rid))
    BY <1>2 DEF Look, Fail, Enter
  <2>2. /\ a \in Arguments \cup {Seed} /\ a.rid \in RequestIds /\ a.op \in Operations
        /\ a.paths # {}
    BY <1>0, <1>2, Closed, ArgumentFacts DEF Look
  <2>3. PICK i \in DOMAIN log : find_original_receipt(a.rid) = {i} /\ log[i].by.rid = a.rid
    BY <1>0, <2>1, <2>2, Originals DEF Lineage
  <2>4. Original(a.rid) = i
    <3>1. Max({i}) = i
      BY <1>0, <2>3, EntryFacts DEF Max
    <3>. QED
      BY <2>3, <3>1 DEF Original
  <2>. DEFINE b == log[i].by
              rec == log[i].tree.receipts[a.rid]
  <2>5. Fits(rec, a) /\ Fits(rec, b) /\ b \in Arguments \cup {Seed} /\ b.rid = a.rid
    BY <1>0, <2>1, <2>3, <2>4, EntryFacts DEF Replays, Lineage, Introduces
  <2>6. b.op = a.op /\ b.paths = a.paths
    BY <2>5 DEF Fits
  <2>7. b.content = a.content
    <3>1. CASE a.op = "upload"
      BY <2>2, <2>5, <2>6, <3>1 DEF Fits
    <3>2. CASE a.op # "upload"
      BY <2>2, <2>5, <2>6, <3>2, ArgumentFacts
    <3>. QED
      BY <3>1, <3>2
  <2>8. b = a
    BY <2>2, <2>5, <2>6, <2>7, ArgumentFacts
  <2>9. log' = log /\ answers' = answers \cup {[args |-> a, revision |-> i]}
    BY <2>1, <2>4 DEF Answer
  <2>. QED
    BY <2>8, <2>9
<1>. QED
  BY <1>1, <1>2 DEF Next, Proceed, Begin, Start, LookSeed, Admit, Recheck, Step,
     artifact_content_fingerprints, write_artifact_receipt, WriteTarget, RemoveTarget, Stage,
     Commit, WriteFails, ReceiptTears, Crash, Edit, StageByHand, Meddle, Fail

LEMMA CommitRevises ==
    ASSUME Base, FilesInv, Commits, answers' = answers, NEW a, a = call.args
    PROVE  /\ Len(Mapped') = Len(Mapped) + 1
           /\ a \in Arguments \cup {Seed} /\ Log!Revise(a)
<1>0. TypeInv
  BY DEF Base
<1>a. PICK n : n = Len(log) + 1
  OBVIOUS
<1>1. PICK e \in Entry : e = [tree |-> call.index, by |-> a] /\ log' = Append(log, e)
  BY <1>0, CommitEntry DEF Commits
<1>2. /\ DOMAIN log' = DOMAIN log \cup {n} /\ log'[n] = e
      /\ \A i \in DOMAIN log : log'[i] = log[i]
      /\ n \in Nat \ {0} /\ DOMAIN log = 1 .. n - 1
  BY <1>0, <1>a, <1>1, Appended, EntryType
<1>. DEFINE r == [by |-> a, tree |-> call.index.files]
            T == {Mapped[i] : i \in DOMAIN log} \cup {r}
<1>3. /\ DOMAIN Mapped' = 1 .. n /\ Mapped'[n] = r
      /\ \A i \in 1 .. n - 1 : Mapped'[i] = Mapped[i]
  BY <1>1, <1>2 DEF Mapped
<1>4. Mapped \in Seq(T) /\ Len(Mapped) = n - 1
  BY <1>0, <1>2, <1>a, MappedFacts DEF Mapped
<1>5. Mapped' = [i \in 1 .. n |-> Mapped'[i]]
  BY <1>2 DEF Mapped
<1>6. Append(Mapped, r) = [i \in 1 .. n |-> IF i = n THEN r ELSE Mapped[i]]
  BY <1>2, <1>4
<1>7. Mapped' = Append(Mapped, r)
  BY <1>2, <1>3, <1>5, <1>6
<1>8. Len(Mapped') = Len(Mapped) + 1
  BY <1>2, <1>4, <1>7
<1>9. a \in Arguments \cup {Seed} /\ Entered
  BY <1>0, Closed DEF Commits, Entered
<1>10. \A i \in DOMAIN Mapped : Mapped[i].by.rid # a.rid
  BY <1>0, <1>9, MappedFacts DEF Base, New, Rid
<1>11. \A p \in Paths \ a.paths : call.index.files[p] = Log!Tree[p]
  BY <1>0, <1>9, MappedFacts DEF FilesInv, Own
<1>12. Mapped'[Len(Mapped) + 1].tree = call.index.files
  BY <1>2, <1>3, <1>4
<1>13. Log!Revise(a)
  <2>1. Mapped' = Append(Mapped, [by |-> a, tree |-> Mapped'[Len(Mapped) + 1].tree])
    BY <1>7, <1>12
  <2>2. \A p \in Paths \ a.paths : Mapped'[Len(Mapped) + 1].tree[p] = Log!Tree[p]
    BY <1>11, <1>12
  <2>. QED
    BY <1>10, <2>1, <2>2, Zenon DEF Log!Revise, Mapped
<1>. QED
  BY <1>8, <1>9, <1>13

(* The artifact repository implements Revisions: each commit of HEAD is    *)
(* made by one request, changes the files of that request only and is the  *)
(* first of its request, and every answer names the commit the request     *)
(* made, also when the client asks again (find_original_receipt).          *)
THEOREM ArtifactsAreRevisions == Spec => ImplementsRevisions
<1>1. Init => Log!Init
  <2>. SUFFICES ASSUME Init PROVE Log!Init
    OBVIOUS
  <2>1. log = <<>> /\ answers = {}
    BY DEF Init
  <2>2. Mapped = <<>>
    BY <2>1 DEF Mapped
  <2>. QED
    BY <2>1, <2>2 DEF Log!Init, Mapped
<1>2. Base /\ FilesInv /\ [Next]_vars => [Log!Next]_(Log!vars)
  <2>. SUFFICES ASSUME Base, FilesInv, [Next]_vars PROVE [Log!Next]_(Log!vars)
    OBVIOUS
  <2>1. CASE log' = log /\ answers' = answers
    BY <2>1 DEF Log!vars
  <2>2. CASE Next /\ answers' # answers
    <3>1. PICK i \in DOMAIN log :
            log' = log /\ answers' = answers \cup {[args |-> log[i].by, revision |-> i]}
      BY <2>2, AnswersGiven
    <3>2. i \in DOMAIN Mapped /\ Mapped[i].by = log[i].by /\ Mapped' = Mapped
      BY <3>1 DEF Mapped
    <3>3. Log!Answer(i)
      BY <3>1, <3>2 DEF Log!Answer, Mapped
    <3>. QED
      BY <3>2, <3>3 DEF Log!Next, Mapped
  <2>3. CASE Next /\ answers' = answers /\ log' # log
    <3>1. Commits
      BY <2>3, NextCases DEF Base, Steps, Ends, Begins, Enters, Moves, Writes, Stages, Meddles, Rest
    <3>2. PICK a : a = call.args
      OBVIOUS
    <3>3. Len(Mapped') = Len(Mapped) + 1 /\ a \in Arguments \cup {Seed} /\ Log!Revise(a)
      BY <2>3, <3>1, <3>2, CommitRevises
    <3>. QED
      BY <3>3 DEF Log!Next, Mapped
  <2>. QED
    BY <2>1, <2>2, <2>3 DEF vars
<1>. QED
  BY <1>1, <1>2, BaseAlways, FilesAlways, PTL DEF Spec, ImplementsRevisions, Log!Spec

=============================================================================
