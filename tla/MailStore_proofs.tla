--------------------------- MODULE MailStore_proofs ---------------------------
(***************************************************************************)
(* Proofs about MailStore: memory is HEAD whenever the mailbox serves      *)
(* calls, what an interrupted transaction leaves is owned by its marker,   *)
(* the mailbox's own history passes its checks, and its commits are the    *)
(* log that RequestLog promises, for every set of calls and every          *)
(* combination of faults.                                                  *)
(***************************************************************************)
EXTENDS MailStore, SequenceTheorems, TLAPS

\* A commit built from a call the clients make is an entry.
LEMMA EntryType ==
    ASSUME NEW h \in Seq(Entry), NEW c \in Calls
    PROVE  EntryFor(h, c) \in Entry
<1>1. NextSequence(h) \in Nat
  <2>1. CASE h = <<>>
    BY <2>1 DEF NextSequence
  <2>2. CASE h # <<>>
    <3>1. Len(h) \in 1 .. Len(h)
      BY <2>2
    <3>2. h[Len(h)] \in Entry
      BY <3>1
    <3>. QED
      BY <2>2, <3>2 DEF NextSequence, Entry
  <2>. QED
    BY <2>1, <2>2
<1>2. Recipients(h, c) \subseteq Participants
  BY DEF Recipients, Active
<1>. QED
  BY <1>1, <1>2 DEF EntryFor, Entry

LEMMA InitEntryType == InitEntry \in Entry
  BY DEF InitEntry, Entry

\* What a marker that is written by a transaction looks like.
LEMMA MarkerType ==
    ASSUME MailTypeOK, txn \in Entry, NEW b \in BOOLEAN
    PROVE  WholeMarker(b) \in Marker
  BY DEF WholeMarker, MailTypeOK, Marker

LEMMA ShapeTypes == NoMarker \in Marker /\ Torn \in Marker
  BY DEF NoMarker, Torn, Marker

LEMMA PathTypes == \A e : Paths(e) \subseteq {Record, State, Request}
  BY DEF Paths

(* Every step of the mailbox keeps the types.                              *)
LEMMA TypeStep ==
    ASSUME MailTypeOK, Memory, Next
    PROVE  MailTypeOK'
<1>. USE DEF MailTypeOK
<1>a. /\ <<>> \in Seq(Entry)
      /\ \A s \in Seq(Entry), e \in Entry : Append(s, e) \in Seq(Entry)
  OBVIOUS
<1>1. ASSUME NEW c \in Calls, Begin(c) PROVE MailTypeOK'
  BY <1>1, EntryType DEF Begin, disk, files, Phases, Jobs
<1>2. ASSUME NEW c \in Calls, AnswerRetry(c) PROVE MailTypeOK'
  BY <1>2 DEF AnswerRetry, disk, files
<1>3. CASE TruncateMarker
  BY <1>3, ShapeTypes DEF TruncateMarker, Step, files, Phases
<1>4. CASE FillMarker
  BY <1>4, MarkerType DEF FillMarker, Step, files, Phases, Memory, Attempt, Written
<1>5. CASE MarkerFails
  BY <1>5, <1>a, MarkerType DEF MarkerFails, GoIdle, GoClosed, files, Phases, Jobs,
     Memory, Attempt, Written
<1>6. CASE WriteFile
  BY <1>6, PathTypes DEF WriteFile, files, Phases
<1>7. CASE StageFiles
  BY <1>7, PathTypes DEF StageFiles, Step, files, Phases
<1>8. CASE PrepareMarker
  BY <1>8, MarkerType DEF PrepareMarker, Step, files, Phases, Memory, Attempt, Written
<1>9. CASE CommitFiles
  BY <1>9, <1>a DEF CommitFiles, Step, files, Phases, Memory, Attempt, Written
<1>10. CASE AttemptFails
  <2>1. marker' \in Marker
    BY <1>10, MarkerType DEF AttemptFails, Memory, Attempt, Written
  <2>2. work' \subseteq {Record, State, Request} /\ staged' \subseteq {Record, State, Request}
    BY <1>10, PathTypes DEF AttemptFails
  <2>. QED
    BY <1>10, <2>1, <2>2 DEF AttemptFails, Phases
<1>11. CASE RemoveMarker
  BY <1>11, ShapeTypes DEF RemoveMarker, Step, files, Phases
<1>12. CASE Finish
  BY <1>12, <1>a DEF Finish, GoIdle, disk, files, Phases, Jobs, Memory, Finishing
<1>13. CASE FinishFails
  BY <1>13 DEF FinishFails, disk, files, Phases, Jobs
<1>14. CASE RecoverNothing
  BY <1>14 DEF RecoverNothing, Step, disk, files, Phases
<1>15. CASE AcceptCommit
  BY <1>15, ShapeTypes DEF AcceptCommit, Step, files, Phases
<1>16. CASE StartRollback
  BY <1>16 DEF StartRollback, Step, disk, files, Phases
<1>17. CASE RestoreFile
  BY <1>17 DEF RestoreFile, files, Phases
<1>18. CASE ResetIndex
  BY <1>18 DEF ResetIndex, Step, files, Phases
<1>19. CASE EndRollback
  BY <1>19, ShapeTypes DEF EndRollback, Step, files, Phases
<1>20. CASE RolledBack
  BY <1>20 DEF RolledBack, Step, disk, files, Phases
<1>21. CASE RecoveryFails
  BY <1>21, <1>a DEF RecoveryFails, GiveUp, GoClosed, disk, files, Phases, Jobs
<1>22. CASE Settle
  BY <1>22, <1>a DEF Settle, GoIdle, GoClosed, disk, files, Phases, Jobs
<1>23. CASE SettleFails
  BY <1>23, <1>a DEF SettleFails, GiveUp, GoClosed, disk, files, Phases, Jobs
<1>24. CASE OpenNew
  BY <1>24, InitEntryType DEF OpenNew, Step, files, Phases, Jobs
<1>25. CASE OpenExisting
  BY <1>25 DEF OpenExisting, Step, disk, files, Phases, Jobs
<1>26. CASE Close
  BY <1>26, <1>a DEF Close, GoClosed, disk, files, Phases, Jobs
<1>27. CASE Crash
  BY <1>27, <1>a DEF Crash, GoClosed, disk, files, Phases, Jobs
<1>28. CASE Foreign
  BY <1>28 DEF Foreign, files
<1>. QED
  BY <1>1, <1>2, <1>3, <1>4, <1>5, <1>6, <1>7, <1>8, <1>9, <1>10, <1>11, <1>12, <1>13,
     <1>14, <1>15, <1>16, <1>17, <1>18, <1>19, <1>20, <1>21, <1>22, <1>23, <1>24, <1>25,
     <1>26, <1>27, <1>28 DEF Next, Transact, Recover

(* Memory agrees with HEAD outside a commit and its repair: every step that *)
(* returns to waiting has just read HEAD or has added its own commit.       *)
LEMMA MemoryStep ==
    ASSUME MailTypeOK, Memory, Next
    PROVE  Memory'
<1>. USE DEF Memory, Attempt, Written, Finishing, Recovery, Jobs
<1>1. ASSUME NEW c \in Calls, Begin(c) PROVE Memory'
  <2>1. EntryFor(known, c) \in Entry
    BY EntryType DEF MailTypeOK
  <2>. QED
    BY <1>1, <2>1 DEF Begin, disk
<1>2. ASSUME NEW c \in Calls, AnswerRetry(c) PROVE Memory'
  BY <1>2 DEF AnswerRetry, disk
<1>3. CASE TruncateMarker
  BY <1>3 DEF TruncateMarker, Step
<1>4. CASE FillMarker
  BY <1>4 DEF FillMarker, Step
<1>5. CASE MarkerFails
  BY <1>5 DEF MarkerFails, GoIdle, GoClosed
<1>6. CASE WriteFile
  BY <1>6 DEF WriteFile
<1>7. CASE StageFiles
  BY <1>7 DEF StageFiles, Step
<1>8. CASE PrepareMarker
  BY <1>8 DEF PrepareMarker, Step
<1>9. CASE CommitFiles
  BY <1>9 DEF CommitFiles, Step
<1>10. CASE AttemptFails
  BY <1>10 DEF AttemptFails
<1>11. CASE RemoveMarker
  BY <1>11 DEF RemoveMarker, Step
<1>12. CASE Finish
  BY <1>12 DEF Finish, GoIdle, disk
<1>13. CASE FinishFails
  BY <1>13 DEF FinishFails, disk
<1>14. CASE RecoverNothing
  BY <1>14 DEF RecoverNothing, Step, disk
<1>15. CASE AcceptCommit
  BY <1>15 DEF AcceptCommit, Step
<1>16. CASE StartRollback
  BY <1>16 DEF StartRollback, Step, disk
<1>17. CASE RestoreFile
  BY <1>17 DEF RestoreFile
<1>18. CASE ResetIndex
  BY <1>18 DEF ResetIndex, Step
<1>19. CASE EndRollback
  BY <1>19 DEF EndRollback, Step
<1>20. CASE RolledBack
  BY <1>20 DEF RolledBack, Step, disk
<1>21. CASE RecoveryFails
  BY <1>21 DEF RecoveryFails, GiveUp, GoClosed, disk
<1>22. CASE Settle
  BY <1>22 DEF Settle, GoIdle, GoClosed, disk
<1>23. CASE SettleFails
  BY <1>23 DEF SettleFails, GiveUp, GoClosed, disk
<1>24. CASE OpenNew
  BY <1>24, InitEntryType DEF OpenNew, Step, MailTypeOK
<1>25. CASE OpenExisting
  BY <1>25 DEF OpenExisting, Step, disk
<1>26. CASE Close
  BY <1>26 DEF Close, GoClosed, disk
<1>27. CASE Crash
  BY <1>27 DEF Crash, GoClosed, disk
<1>28. CASE Foreign
  BY <1>28 DEF Foreign
<1>. QED
  BY <1>1, <1>2, <1>3, <1>4, <1>5, <1>6, <1>7, <1>8, <1>9, <1>10, <1>11, <1>12, <1>13,
     <1>14, <1>15, <1>16, <1>17, <1>18, <1>19, <1>20, <1>21, <1>22, <1>23, <1>24, <1>25,
     <1>26, <1>27, <1>28 DEF Next, Transact, Recover

(* The marker, the working tree, the Git index and HEAD fit together after *)
(* every step that writes to the disk, and after every step that is lost.  *)
LEMMA LeftoverStep ==
    ASSUME MailTypeOK, Memory, Leftovers, Next
    PROVE  Leftovers'
<1>. USE DEF Leftovers, Clean, Announced, Awaited, Written, Finishing
<1>1. ASSUME NEW c \in Calls, Begin(c) PROVE Leftovers'
  BY <1>1 DEF Begin, disk, files
<1>2. ASSUME NEW c \in Calls, AnswerRetry(c) PROVE Leftovers'
  BY <1>2 DEF AnswerRetry, disk, files
<1>3. CASE TruncateMarker
  BY <1>3 DEF TruncateMarker, Step, files, Torn, NoMarker
<1>4. CASE FillMarker
  BY <1>4 DEF FillMarker, Step, files, WholeMarker
<1>5. CASE MarkerFails
  BY <1>5 DEF MarkerFails, GoIdle, GoClosed, files, WholeMarker
<1>6. CASE WriteFile
  BY <1>6 DEF WriteFile, files, Memory
<1>7. CASE StageFiles
  BY <1>7 DEF StageFiles, Step, files
<1>8. CASE PrepareMarker
  BY <1>8 DEF PrepareMarker, Step, files, WholeMarker
<1>9. CASE CommitFiles
  <2>1. txn \in Entry /\ log \in Seq(Entry)
    BY <1>9 DEF CommitFiles, Step, Memory, Attempt, MailTypeOK
  <2>2. Len(log') = Len(log) + 1 /\ log'[Len(log')] = txn
    BY <1>9, <2>1 DEF CommitFiles
  <2>3. marker.shape = "whole" /\ marker.tree /\ marker.txn = txn /\ marker.base = Len(log)
    BY <1>9 DEF CommitFiles, Step
  <2>4. Announced'
    BY <1>9, <2>1, <2>2, <2>3 DEF CommitFiles
  <2>5. Clean' /\ pc' = "unmark" /\ marker' = marker /\ work' = {} /\ staged' = {}
    BY <1>9 DEF CommitFiles, Step
  <2>6. marker'.shape = "whole"
    BY <2>3, <2>5
  <2>. HIDE DEF Clean, Announced, Awaited
  <2>. QED
    BY <2>4, <2>5, <2>6
<1>10. CASE AttemptFails
  <2>1. pc' = "recover" /\ repo' /\ log' = log
    BY <1>10 DEF AttemptFails, Memory
  <2>2. marker'.shape = "whole" => Awaited'
    BY <1>10 DEF AttemptFails, WholeMarker
  <2>3. marker'.shape # "none"
    BY <1>10 DEF AttemptFails, WholeMarker
  <2>. HIDE DEF Clean, Announced, Awaited
  <2>. QED
    BY <2>1, <2>2, <2>3
<1>11. CASE RemoveMarker
  BY <1>11 DEF RemoveMarker, Step, files, NoMarker
<1>12. CASE Finish
  BY <1>12 DEF Finish, GoIdle, disk, files
<1>13. CASE FinishFails
  BY <1>13 DEF FinishFails, disk, files
<1>14. CASE RecoverNothing
  BY <1>14 DEF RecoverNothing, Step, disk, files
<1>15. CASE AcceptCommit
  BY <1>15 DEF AcceptCommit, Completed, Dirty, Step, files, NoMarker
<1>16. CASE StartRollback
  BY <1>16 DEF StartRollback, RollsBack, Step, disk, files
<1>17. CASE RestoreFile
  BY <1>17 DEF RestoreFile
<1>18. CASE ResetIndex
  BY <1>18 DEF ResetIndex, Step
<1>19. CASE EndRollback
  BY <1>19 DEF EndRollback, Step, files, NoMarker
<1>20. CASE RolledBack
  BY <1>20 DEF RolledBack, Step, disk, files
<1>21. CASE RecoveryFails
  BY <1>21 DEF RecoveryFails, GiveUp, GoClosed, disk, files
<1>22. CASE Settle
  BY <1>22 DEF Settle, GoIdle, GoClosed, disk, files
<1>23. CASE SettleFails
  BY <1>23 DEF SettleFails, GiveUp, GoClosed, disk, files
<1>24. CASE OpenNew
  BY <1>24 DEF OpenNew, Step, files
<1>25. CASE OpenExisting
  BY <1>25 DEF OpenExisting, Step, disk, files
<1>26. CASE Close
  BY <1>26 DEF Close, GoClosed, disk, files
<1>27. CASE Crash
  BY <1>27 DEF Crash, GoClosed, disk, files
<1>28. CASE Foreign
  BY <1>28 DEF Foreign, files
<1>. QED
  BY <1>1, <1>2, <1>3, <1>4, <1>5, <1>6, <1>7, <1>8, <1>9, <1>10, <1>11, <1>12, <1>13,
     <1>14, <1>15, <1>16, <1>17, <1>18, <1>19, <1>20, <1>21, <1>22, <1>23, <1>24, <1>25,
     <1>26, <1>27, <1>28 DEF Next, Transact, Recover

LEMMA InitMail == Init => MailInv
<1>. SUFFICES ASSUME Init PROVE MailInv
  OBVIOUS
<1>1. MailTypeOK
  <2>1. log \in Seq(Entry) /\ known \in Seq(Entry)
    BY DEF Init
  <2>. QED
    BY <2>1, ShapeTypes DEF Init, MailTypeOK, Phases, Jobs
<1>2. Memory
  BY DEF Init, Memory, Attempt, Written, Finishing, Recovery
<1>3. Leftovers
  BY DEF Init, Leftovers, Clean, Written, Finishing, NoMarker
<1>. QED
  BY <1>1, <1>2, <1>3 DEF MailInv

LEMMA NextMail == MailInv /\ [Next]_vars => MailInv'
<1>1. ASSUME MailInv, Next PROVE MailInv'
  BY <1>1, TypeStep, MemoryStep, LeftoverStep DEF MailInv
<1>2. ASSUME MailInv, UNCHANGED vars PROVE MailInv'
  BY <1>2 DEF MailInv, MailTypeOK, Memory, Leftovers, Clean, Announced, Awaited, vars, disk, files
<1>. QED
  BY <1>1, <1>2

(* In every state of the mailbox, memory, marker, working tree and HEAD are *)
(* related as apply_transaction and recover_known_transaction rely on.      *)
THEOREM MailConsistent == Spec => []MailInv
BY InitMail, NextMail, PTL DEF Spec

(* The variables of the mailbox keep their types.                           *)
THEOREM MailTypeCorrect == Spec => []MailTypeOK
<1>1. MailInv => MailTypeOK
  BY DEF MailInv
<1>. QED
  BY <1>1, MailConsistent, PTL

(* A mailbox that serves calls has exactly the commits of HEAD in memory.   *)
THEOREM MemoryAgrees == Spec => []MemoryIsHead
<1>1. MailInv => MemoryIsHead
  BY DEF MailInv, Memory, MemoryIsHead
<1>. QED
  BY <1>1, MailConsistent, PTL

(* Without a torn marker or a foreign file, what any interruption leaves is *)
(* undone or accepted by the next recovery.                                 *)
THEOREM LeftoversOwned == Spec => []LeftoversAreOwned
<1>1. MailInv => LeftoversAreOwned
  <2>. SUFFICES ASSUME MailInv, log # <<>>, marker.shape # "torn", ~foreign
                PROVE  Recoverable /\ (marker.shape = "none" => ~Dirty)
    BY DEF LeftoversAreOwned
  <2>1. marker.shape \in {"none", "whole"}
    BY DEF MailInv, MailTypeOK, Marker
  <2>2. CASE marker.shape = "none"
    BY <2>2 DEF MailInv, Leftovers, Recoverable, Clean, Dirty
  <2>3. CASE marker.shape = "whole"
    BY <2>3 DEF MailInv, Leftovers, Recoverable, Clean, Dirty, Announced, Awaited, Completed,
       RollsBack
  <2>. QED
    BY <2>1, <2>2, <2>3
<1>. QED
  BY <1>1, MailConsistent, PTL

-----------------------------------------------------------------------------
(* Histories: what one more commit changes.                                *)

LEMMA Appended ==
    ASSUME NEW h \in Seq(Entry), NEW e \in Entry, NEW n, n = Len(h) + 1, NEW g, g = Append(h, e)
    PROVE  /\ g \in Seq(Entry) /\ g # <<>> /\ Len(g) = n
           /\ n \in Nat \ {0} /\ DOMAIN h = 1 .. n - 1 /\ DOMAIN g = 1 .. n
           /\ g[n] = e
           /\ \A i \in DOMAIN h : g[i] = h[i] /\ h[i] \in Entry /\ i < n
  OBVIOUS

\* The entry that a new call is committed with.
LEMMA EntryFacts ==
    ASSUME NEW h \in Seq(Entry), NEW c \in Calls, NEW e, e = EntryFor(h, c)
    PROVE  /\ e \in Entry /\ e.call = c
           /\ e.seq = IF c.op = "send" THEN NextSequence(h) ELSE 0
           /\ e.to = Recipients(h, c)
           /\ e.next = IF c.op = "send" THEN NextSequence(h) + 1 ELSE NextSequence(h)
           /\ NextSequence(h) \in Nat
<1>1. e \in Entry
  BY EntryType
<1>2. NextSequence(h) \in Nat
  <2>1. CASE h = <<>>
    BY <2>1 DEF NextSequence
  <2>2. CASE h # <<>>
    <3>1. Len(h) \in DOMAIN h
      BY <2>2
    <3>2. h[Len(h)] \in Entry
      BY <3>1
    <3> QED
      BY <2>2, <3>2 DEF NextSequence, Entry
  <2> QED
    BY <2>1, <2>2
<1> QED
  BY <1>1, <1>2 DEF EntryFor

\* What calls name.
LEMMA CallTypes ==
    ASSUME NEW c \in Calls
    PROVE  /\ c.rid # None /\ c.op \in Operations
           /\ c.op # "channel_create" => c.who \in Participants
           /\ c.op = "channel_create" => c.dest \in Channels
           /\ c.op = "send" => c.dest \in Participants \cup Channels \cup {Broadcast}
<1>1. /\ c.rid # None /\ c.op \in Operations
      /\ c.who \in IF c.op = "channel_create" THEN {None} ELSE Participants
      /\ c.dest \in CASE c.op = "channel_create" -> Channels
                      [] c.op = "send" -> Participants \cup Channels \cup {Broadcast}
                      [] OTHER         -> {None}
  BY CallsAssumption
<1> QED
  BY <1>1

\* More commits, more records, channels, messages and requests.
LEMMA Monotone ==
    ASSUME NEW h \in Seq(Entry), NEW e \in Entry, NEW g, g = Append(h, e)
    PROVE  /\ Recorded(h) \subseteq Recorded(g)
           /\ ChannelsOf(h) \subseteq ChannelsOf(g)
           /\ Numbers(h) \subseteq Numbers(g)
<1>1. PICK n : n = Len(h) + 1
  OBVIOUS
<1>2. \A i \in DOMAIN h : g[i] = h[i]
  BY <1>1, Appended
<1>3. DOMAIN h \subseteq DOMAIN g
  BY <1>1, Appended
<1>4. \A op : Of(h, op) \subseteq Of(g, op) /\ Of(h, op) \subseteq DOMAIN h
  BY <1>2, <1>3 DEF Of
<1> QED
  BY <1>2, <1>4 DEF Recorded, ChannelsOf, Numbers

LEMMA ActiveRecorded == \A h : Active(h) \subseteq Recorded(h)
  BY DEF Active, Recorded

LEMMA ChannelTypes ==
    ASSUME NEW h \in Seq(Entry)
    PROVE  ChannelsOf(h) \subseteq Channels
<1>1. ASSUME NEW i \in Of(h, "channel_create") PROVE h[i].call.dest \in Channels
  <2>1. h[i] \in Entry /\ h[i].call.op = "channel_create"
    BY DEF Of
  <2>2. h[i].call \in Calls
    BY <2>1 DEF Entry, InitCall
  <2> QED
    BY <2>1, <2>2, CallTypes
<1> QED
  BY <1>1, ChannelsAssumption DEF ChannelsOf

\* The commits before a commit are the same when one more is made.
LEMMA PrefixKept ==
    ASSUME NEW h \in Seq(Entry), NEW e \in Entry, NEW g, g = Append(h, e), NEW n, n = Len(h) + 1
    PROVE  /\ \A i \in 1 .. n - 1 : SubSeq(g, 1, i - 1) = SubSeq(h, 1, i - 1)
           /\ SubSeq(g, 1, n - 1) = h
<1>1. /\ n \in Nat \ {0} /\ DOMAIN h = 1 .. n - 1 /\ DOMAIN g = 1 .. n /\ g \in Seq(Entry)
      /\ \A i \in DOMAIN h : g[i] = h[i]
  BY Appended
<1>2. ASSUME NEW i \in 1 .. n - 1 PROVE SubSeq(g, 1, i - 1) = SubSeq(h, 1, i - 1)
  <2>1. \A j \in 1 .. i - 1 : g[j] = h[j]
    BY <1>1
  <2> QED
    BY <1>1, <2>1
<1>3. SubSeq(g, 1, n - 1) = h
  BY <1>1
<1> QED
  BY <1>2, <1>3

\* What CommitsHaveShape says of one commit.
ShapeAt(h, i) ==
    LET c == h[i].call
        before == SubSeq(h, 1, i - 1) IN
    /\ c.op = "init" <=> i = 1
    /\ i > 1 => c.rid \notin Requests(before)
    /\ c.op = "leave" => c.who \in Recorded(before)
    /\ c.op = "channel_create" => c.dest \notin ChannelsOf(before)
    /\ c.op = "send" =>
        h[i].seq \notin Numbers(before) /\ h[i].next # NextSequence(before)

LEMMA Shapes == \A h : CommitsHaveShape(h) <=> \A i \in DOMAIN h : ShapeAt(h, i)
  BY DEF CommitsHaveShape, ShapeAt

\* A history that passes the checks passes them with one more accepted call.
LEMMA VerifiesMore ==
    ASSUME NEW h \in Seq(Entry), Verifies(h), NEW c \in Calls, c.rid \notin Requests(h),
           Accepts(h, c), NEW e, e = EntryFor(h, c), NEW g, g = Append(h, e)
    PROVE  Verifies(g)
<1>0. PICK n : n = Len(h) + 1
  OBVIOUS
<1>1. /\ e \in Entry /\ e.call = c
      /\ e.seq = IF c.op = "send" THEN NextSequence(h) ELSE 0
      /\ e.to = Recipients(h, c)
      /\ e.next = IF c.op = "send" THEN NextSequence(h) + 1 ELSE NextSequence(h)
      /\ NextSequence(h) \in Nat
  BY EntryFacts
<1>2. /\ g \in Seq(Entry) /\ g # <<>> /\ Len(g) = n
      /\ n \in Nat \ {0} /\ DOMAIN h = 1 .. n - 1 /\ DOMAIN g = 1 .. n
      /\ g[n] = e
      /\ \A i \in DOMAIN h : g[i] = h[i] /\ h[i] \in Entry
  BY <1>0, <1>1, Appended
<1>3. /\ h # <<>> /\ CommitsHaveShape(h) /\ RecordsAgree(h)
  BY DEF Verifies
<1>4. n # 1
  BY <1>0, <1>3
<1>5. NextSequence(g) = e.next
  BY <1>2 DEF NextSequence
<1>6. CommitsHaveShape(g)
  <2>1. ASSUME NEW i \in DOMAIN g, i # n PROVE ShapeAt(g, i)
    <3>1. i \in DOMAIN h /\ g[i] = h[i]
      BY <1>2, <2>1
    <3>2. SubSeq(g, 1, i - 1) = SubSeq(h, 1, i - 1)
      BY <1>0, <1>1, <1>2, <3>1, PrefixKept
    <3> QED
      BY <1>3, <3>1, <3>2, Shapes DEF ShapeAt
  <2>2. c.op = "leave" => c.who \in Recorded(h)
    BY ActiveRecorded DEF Accepts
  <2>3. c.op = "channel_create" => c.dest \notin ChannelsOf(h)
    BY DEF Accepts
  <2>4. c.op = "send" => e.seq \notin Numbers(h) /\ e.next # NextSequence(h)
    <3>1. ASSUME NEW i \in Of(h, "send") PROVE h[i].seq < NextSequence(h) /\ h[i].seq \in Nat
      <4>1. h[i] \in Entry
        BY <1>2 DEF Of
      <4> QED
        BY <1>3, <4>1 DEF RecordsAgree, Entry
    <3> QED
      BY <1>1, <3>1 DEF Numbers
  <2>5. c.op # "init"
    BY CallTypes DEF Operations
  <2>6. SubSeq(g, 1, n - 1) = h
    BY <1>0, <1>1, PrefixKept
  <2>7. g[n].call = c /\ g[n].seq = e.seq /\ g[n].next = e.next
    BY <1>1, <1>2
  <2>8. ShapeAt(g, n)
    BY <1>2, <1>4, <2>2, <2>3, <2>4, <2>5, <2>6, <2>7 DEF ShapeAt
  <2> QED
    BY <2>1, <2>8, Shapes
<1>7. RecordsAgree(g)
  <2>0. /\ Recorded(h) \subseteq Recorded(g) /\ ChannelsOf(h) \subseteq ChannelsOf(g)
        /\ Numbers(h) \subseteq Numbers(g)
    BY <1>1, Monotone
  <2>1. \A i : i \in Of(g, "send") <=> (i \in Of(h, "send") \/ (i = n /\ c.op = "send"))
    BY <1>1, <1>2 DEF Of
  <2>2. ASSUME NEW i \in Of(h, "send")
        PROVE  /\ g[i].seq < NextSequence(g)
               /\ \A j \in DOMAIN g : g[j].call.rid = g[i].call.rid => g[j].call.op = "send"
               /\ {g[i].call.who} \cup g[i].to \subseteq Recorded(g)
               /\ g[i].call.dest \in Recorded(g) \cup ChannelsOf(g) \cup {Broadcast}
               /\ g[i].call.about \subseteq Numbers(g)
    <3>1. i \in DOMAIN h /\ g[i] = h[i] /\ h[i].seq \in Nat
      <4>1. i \in DOMAIN h
        BY DEF Of
      <4> QED
        BY <1>2, <4>1 DEF Entry
    <3>2. /\ h[i].seq < NextSequence(h)
          /\ \A j \in DOMAIN h : h[j].call.rid = h[i].call.rid => h[j].call.op = "send"
          /\ {h[i].call.who} \cup h[i].to \subseteq Recorded(h)
          /\ h[i].call.dest \in Recorded(h) \cup ChannelsOf(h) \cup {Broadcast}
          /\ h[i].call.about \subseteq Numbers(h)
      BY <1>3 DEF RecordsAgree
    <3>3. g[i].seq < NextSequence(g)
      BY <1>1, <1>5, <3>1, <3>2
    <3>4. ASSUME NEW j \in DOMAIN g, g[j].call.rid = g[i].call.rid
          PROVE  g[j].call.op = "send"
      <4>1. CASE j = n
        <5>1. g[j].call.rid = c.rid
          BY <1>1, <1>2, <4>1
        <5>2. h[i].call.rid \in Requests(h)
          BY <3>1 DEF Requests
        <5> QED
          BY <3>1, <3>4, <5>1, <5>2
      <4>2. CASE j # n
        <5>1. j \in DOMAIN h /\ g[j] = h[j]
          BY <1>2, <4>2
        <5> QED
          BY <3>1, <3>2, <3>4, <5>1
      <4> QED
        BY <4>1, <4>2
    <3> QED
      BY <2>0, <3>1, <3>2, <3>3, <3>4
  <2>3. ASSUME c.op = "send"
        PROVE  /\ e.seq < NextSequence(g)
               /\ \A j \in DOMAIN g : g[j].call.rid = c.rid => g[j].call.op = "send"
               /\ {c.who} \cup e.to \subseteq Recorded(g)
               /\ c.dest \in Recorded(g) \cup ChannelsOf(g) \cup {Broadcast}
               /\ c.about \subseteq Numbers(g)
    <3>1. /\ c.who \in Active(h) /\ c.about \subseteq Numbers(h)
          /\ c.dest \in Active(h) \cup ChannelsOf(h) \cup {Broadcast}
      BY <2>3 DEF Accepts
    <3>2. e.to \subseteq Active(h)
      <4>1. c.dest \in Participants => c.dest \in Active(h)
        BY <3>1, ChannelTypes, ChannelsAssumption
      <4> QED
        BY <1>1, <2>3, <4>1 DEF Recipients
    <3>3. Active(h) \subseteq Recorded(g)
      BY <2>0, ActiveRecorded
    <3>4. e.seq < NextSequence(g)
      BY <1>1, <1>5, <2>3
    <3>5. ASSUME NEW j \in DOMAIN g, g[j].call.rid = c.rid
          PROVE  g[j].call.op = "send"
      <4>1. CASE j = n
        BY <1>1, <1>2, <2>3, <4>1
      <4>2. CASE j # n
        <5>1. j \in DOMAIN h /\ g[j] = h[j]
          BY <1>2, <4>2
        <5>2. g[j].call.rid \in Requests(h)
          BY <5>1 DEF Requests
        <5> QED
          BY <3>5, <5>2
      <4> QED
        BY <4>1, <4>2
    <3> QED
      BY <2>0, <3>1, <3>2, <3>3, <3>4, <3>5
  <2>4. ASSUME NEW i \in Of(g, "send"), i \notin Of(h, "send")
        PROVE  i = n /\ c.op = "send" /\ g[i] = e /\ e.call = c
    BY <1>1, <1>2, <2>1, <2>4
  <2>5. ASSUME NEW i \in Of(g, "send")
        PROVE  /\ g[i].seq < NextSequence(g)
               /\ \A j \in DOMAIN g : g[j].call.rid = g[i].call.rid => g[j].call.op = "send"
               /\ {g[i].call.who} \cup g[i].to \subseteq Recorded(g)
               /\ g[i].call.dest \in Recorded(g) \cup ChannelsOf(g) \cup {Broadcast}
               /\ g[i].call.about \subseteq Numbers(g)
    <3>1. CASE i \in Of(h, "send")
      BY <2>2, <3>1
    <3>2. CASE i \notin Of(h, "send")
      <4>1. i = n /\ c.op = "send" /\ g[i] = e /\ e.call = c
        BY <2>4, <3>2
      <4> QED
        BY <2>3, <4>1
    <3> QED
      BY <3>1, <3>2
  <2> QED
    BY <2>5 DEF RecordsAgree
<1> QED
  BY <1>2, <1>6, <1>7 DEF Verifies

LEMMA VerifiesFirst == Verifies(<<InitEntry>>)
<1> DEFINE h == <<InitEntry>>
<1>1. /\ h # <<>> /\ DOMAIN h = {1} /\ h[1] = InitEntry /\ h[1].call.op = "init"
  BY DEF InitEntry, InitCall
<1>2. Of(h, "send") = {}
  BY <1>1 DEF Of
<1>3. CommitsHaveShape(h)
  BY <1>1 DEF CommitsHaveShape
<1> QED
  BY <1>1, <1>2, <1>3 DEF Verifies, RecordsAgree

\* The entry under way was accepted by the service on top of HEAD.
Admitted(h, e, j) ==
    IF j = "init" THEN h = <<>> /\ e = InitEntry
    ELSE /\ h # <<>>
         /\ \E c \in Calls :
              c.rid \notin Requests(h) /\ Accepts(h, c) /\ e = EntryFor(h, c)

\* Messages are numbered without a gap, and state.md has the next number.
Numbered(h) ==
    h # <<>> => /\ NextSequence(h) \in 1 .. Len(h) + 1
                /\ Numbers(h) = 1 .. NextSequence(h) - 1

Histories ==
    /\ OwnHistoryVerifies
    /\ Numbered(log)
    /\ pc = "idle" => log # <<>>
    /\ pc \in Attempt => Admitted(log, txn, job)
    /\ (pc \in Recovery /\ job = "call") => log # <<>>

\* An admitted commit keeps a history in order.
LEMMA OrderKept ==
    ASSUME NEW h \in Seq(Entry), NEW e \in Entry, NEW j, Admitted(h, e, j),
           h # <<>> => Verifies(h), Numbered(h), NEW g, g = Append(h, e)
    PROVE  Verifies(g) /\ Numbered(g)
<1>0. PICK n : n = Len(h) + 1
  OBVIOUS
<1>1. CASE j = "init"
  <2>1. h = <<>> /\ e = InitEntry /\ g = <<InitEntry>>
    BY <1>1 DEF Admitted
  <2>2. DOMAIN g = {1} /\ g[1] = InitEntry /\ Len(g) = 1 /\ g # <<>>
    BY <2>1
  <2>3. Numbers(g) = {} /\ NextSequence(g) = 1
    BY <2>2 DEF Of, Numbers, NextSequence, InitEntry, InitCall
  <2> QED
    BY <2>1, <2>2, <2>3, VerifiesFirst DEF Numbered
<1>2. CASE j # "init"
  <2>1. PICK c \in Calls : c.rid \notin Requests(h) /\ Accepts(h, c) /\ e = EntryFor(h, c)
    BY <1>2 DEF Admitted
  <2>2. h # <<>> /\ Verifies(h)
    BY <1>2 DEF Admitted
  <2>3. Verifies(g)
    BY <2>1, <2>2, VerifiesMore
  <2>4. /\ e.call = c
        /\ e.seq = IF c.op = "send" THEN NextSequence(h) ELSE 0
        /\ e.next = IF c.op = "send" THEN NextSequence(h) + 1 ELSE NextSequence(h)
    BY <2>1, EntryFacts
  <2>5. g # <<>> /\ NextSequence(g) = e.next /\ Len(g) = n
    BY <1>0, Appended DEF NextSequence
  <2>6. /\ \A i : i \in Of(g, "send") <=> (i \in Of(h, "send") \/ (i = n /\ c.op = "send"))
        /\ \A i \in Of(h, "send") : i \in DOMAIN h
    BY <1>0, <2>4, Appended DEF Of
  <2>7. /\ g[n] = e /\ Len(h) \in Nat
        /\ \A i \in DOMAIN h : g[i] = h[i]
    BY <1>0, Appended
  <2>8. PICK m : m = NextSequence(h)
    OBVIOUS
  <2>9. m \in 1 .. Len(h) + 1 /\ Numbers(h) = 1 .. m - 1
    BY <2>2, <2>8 DEF Numbered
  <2>10. CASE c.op = "send"
    <3>1. Numbers(g) = Numbers(h) \cup {m}
      BY <2>4, <2>6, <2>7, <2>8, <2>10, ZenonT(40) DEF Numbers
    <3>2. 1 .. m = (1 .. m - 1) \cup {m}
      BY <2>7, <2>9
    <3>3. NextSequence(g) = m + 1 /\ m + 1 \in 1 .. n + 1 /\ m + 1 - 1 = m
      BY <1>0, <2>4, <2>5, <2>7, <2>8, <2>9, <2>10
    <3>4. Numbers(g) = 1 .. NextSequence(g) - 1
      BY <2>9, <3>1, <3>2, <3>3
    <3> QED
      BY <2>3, <2>5, <3>3, <3>4 DEF Numbered
  <2>11. CASE c.op # "send"
    <3>1. Numbers(g) = Numbers(h)
      BY <2>6, <2>7, <2>11 DEF Numbers
    <3>2. NextSequence(g) = m /\ m \in 1 .. n + 1
      BY <1>0, <2>4, <2>5, <2>7, <2>8, <2>9, <2>11
    <3> QED
      BY <2>3, <2>5, <2>9, <3>1, <3>2 DEF Numbered
  <2> QED
    BY <2>10, <2>11
<1> QED
  BY <1>1, <1>2

LEMMA OnlyCommitsAdd ==
    ASSUME Next
    PROVE  log' = log \/ CommitFiles
  BY DEF Next, Transact, Recover, Begin, AnswerRetry, TruncateMarker, FillMarker, MarkerFails,
     WriteFile, StageFiles, PrepareMarker, AttemptFails, RemoveMarker, Finish, FinishFails,
     RecoverNothing, AcceptCommit, StartRollback, RestoreFile, ResetIndex, EndRollback,
     RolledBack, RecoveryFails, Settle, SettleFails, OpenNew, OpenExisting, Close, Crash,
     Foreign, disk

LEMMA HistoryStep ==
    ASSUME MailInv, Histories, [Next]_vars
    PROVE  Histories'
<1>0. MailTypeOK /\ Memory
  BY DEF MailInv
<1>1. CASE CommitFiles
  <2>1. /\ pc = "commit" /\ pc' = "unmark" /\ log' = Append(log, txn)
        /\ log \in Seq(Entry) /\ txn \in Entry
    BY <1>0, <1>1 DEF CommitFiles, Step, MailTypeOK, Memory, Attempt, Written
  <2>2. Admitted(log, txn, job)
    BY <2>1 DEF Histories, Attempt, Written
  <2>3. Verifies(log') /\ Numbered(log')
    BY <2>1, <2>2, OrderKept DEF Histories, OwnHistoryVerifies
  <2> QED
    BY <2>1, <2>3 DEF Histories, OwnHistoryVerifies, Attempt, Written, Recovery
<1>2. CASE Next /\ log' = log
  <2>1. (pc' = "idle") => log # <<>>
    <3>1. CASE Finish
      <4>1. log = Append(known, txn) /\ known \in Seq(Entry) /\ txn \in Entry
        BY <1>0, <3>1 DEF Finish, Memory, MailTypeOK, Finishing
      <4> QED
        BY <4>1, Appended
    <3>2. CASE Settle
      BY <3>2 DEF Settle, GoClosed, Histories, Recovery, Verifies
    <3>3. CASE MarkerFails
      BY <1>0, <3>3 DEF MarkerFails, GoClosed, Histories, Memory, Attempt, Admitted
    <3>4. CASE pc = "idle"
      BY <3>4 DEF Histories
    <3> QED
      BY <1>2, <3>1, <3>2, <3>3, <3>4 DEF Next, Transact, Recover, Begin, AnswerRetry,
         TruncateMarker, FillMarker, WriteFile, StageFiles, PrepareMarker, CommitFiles,
         AttemptFails, RemoveMarker, FinishFails, RecoverNothing, AcceptCommit, StartRollback,
         RestoreFile, ResetIndex, EndRollback, RolledBack, RecoveryFails, SettleFails, GiveUp,
         OpenNew, OpenExisting, Close, Crash, Foreign, Step, GoClosed
  <2>2. pc' \in Attempt => Admitted(log, txn', job')
    <3>1. ASSUME NEW c \in Calls, Begin(c) PROVE Admitted(log, txn', job')
      BY <1>0, <3>1 DEF Begin, Fresh, Histories, Memory, Admitted
    <3>2. CASE OpenNew
      BY <1>0, <3>2 DEF OpenNew, Memory, Admitted
    <3>3. CASE pc \in Attempt /\ txn' = txn /\ job' = job
      BY <3>3 DEF Histories
    <3> QED
      BY <1>2, <3>1, <3>2, <3>3 DEF Next, Transact, Recover, AnswerRetry, TruncateMarker,
         FillMarker, MarkerFails, WriteFile, StageFiles, PrepareMarker, CommitFiles,
         AttemptFails, RemoveMarker, Finish, FinishFails, RecoverNothing, AcceptCommit,
         StartRollback, RestoreFile, ResetIndex, EndRollback, RolledBack, RecoveryFails, Settle,
         SettleFails, GiveUp, OpenExisting, Close, Crash, Foreign, Step, GoClosed, GoIdle,
         Attempt, Written
  <2>3. (pc' \in Recovery /\ job' = "call") => log # <<>>
    <3>1. CASE AttemptFails
      BY <3>1 DEF AttemptFails, Histories, Attempt, Written, Admitted
    <3>2. CASE pc \in Recovery /\ job' = job
      BY <3>2 DEF Histories
    <3> QED
      BY <1>2, <3>1, <3>2 DEF Next, Transact, Recover, Begin, AnswerRetry, TruncateMarker,
         FillMarker, MarkerFails, WriteFile, StageFiles, PrepareMarker, CommitFiles,
         RemoveMarker, Finish, FinishFails, RecoverNothing, AcceptCommit, StartRollback,
         RestoreFile, ResetIndex, EndRollback, RolledBack, RecoveryFails, Settle, SettleFails,
         GiveUp, OpenNew, OpenExisting, Close, Crash, Foreign, Step, GoClosed, GoIdle, Recovery
  <2> QED
    BY <1>2, <2>1, <2>2, <2>3 DEF Histories, OwnHistoryVerifies
<1>3. CASE UNCHANGED vars
  BY <1>3 DEF vars, disk, Histories, OwnHistoryVerifies
<1> QED
  BY <1>1, <1>2, <1>3, OnlyCommitsAdd

LEMMA HistoryAlways == Spec => []Histories
<1>1. Init => Histories
  BY DEF Init, Histories, OwnHistoryVerifies, Numbered, Attempt, Written, Recovery
<1>2. MailInv /\ Histories /\ [Next]_vars => Histories'
  BY HistoryStep
<1> QED
  BY <1>1, <1>2, MailConsistent, PTL DEF Spec

(* The mailbox's own commits pass the checks it makes when it opens: what  *)
(* the service accepts (Accepts) is never refused when it is read back.    *)
THEOREM HistoriesVerify == Spec => []OwnHistoryVerifies
<1>1. Histories => OwnHistoryVerifies
  BY DEF Histories
<1> QED
  BY <1>1, HistoryAlways, PTL

-----------------------------------------------------------------------------
(* The refinement of RequestLog.                                           *)

Entries(h) == [i \in DOMAIN h |-> Public(h[i])]

\* Who is a member after one more commit.
LEMMA ActiveMore ==
    ASSUME NEW h \in Seq(Entry), NEW e \in Entry, NEW g, g = Append(h, e),
           e.call.op = "register" => e.call.who \in Participants
    PROVE  Active(g) = CASE e.call.op = "register" -> Active(h) \cup {e.call.who}
                         [] e.call.op = "leave"    -> Active(h) \ {e.call.who}
                         [] OTHER                  -> Active(h)
<1>0. PICK n : n = Len(h) + 1
  OBVIOUS
<1>1. /\ n \in Nat \ {0} /\ DOMAIN h = 1 .. n - 1 /\ DOMAIN g = 1 .. n
      /\ g[n] = e
      /\ \A i \in DOMAIN h : g[i] = h[i] /\ i < n
  BY <1>0, Appended
<1>2. \A op : \A i : i \in Of(g, op) <=> (i \in Of(h, op) \/ (i = n /\ e.call.op = op))
  BY <1>1 DEF Of
<1>3. \A op : \A i \in Of(h, op) : i \in DOMAIN h /\ g[i] = h[i] /\ i < n /\ i \in Nat
  BY <1>1 DEF Of
<1>4. ASSUME NEW p \in Participants
      PROVE  p \in Active(g) <=>
               CASE e.call.op = "register" -> p \in Active(h) \/ p = e.call.who
                 [] e.call.op = "leave"    -> p \in Active(h) /\ p # e.call.who
                 [] OTHER                  -> p \in Active(h)
  <2>1. CASE e.call.op = "register"
    <3>1. /\ \A i : i \in Of(g, "register") <=> (i \in Of(h, "register") \/ i = n)
          /\ \A i : i \in Of(g, "leave") <=> i \in Of(h, "leave")
          /\ \A i \in Of(h, "register") \cup Of(h, "leave") : g[i] = h[i] /\ i < n
          /\ g[n].call.who = e.call.who
      BY <1>1, <1>2, <1>3, <2>1
    <3>2. ASSUME p \in Active(g) PROVE p \in Active(h) \/ p = e.call.who
      <4>1. PICK i \in Of(g, "register") :
              g[i].call.who = p /\ \A j \in Of(g, "leave") : g[j].call.who = p => j < i
        BY <3>2 DEF Active
      <4> QED
        BY <3>1, <4>1, ZenonT(40) DEF Active
    <3>3. ASSUME p \in Active(h) PROVE p \in Active(g)
      <4>1. PICK i \in Of(h, "register") :
              h[i].call.who = p /\ \A j \in Of(h, "leave") : h[j].call.who = p => j < i
        BY <3>3 DEF Active
      <4> QED
        BY <3>1, <4>1, ZenonT(40) DEF Active
    <3>4. ASSUME p = e.call.who PROVE p \in Active(g)
      <4>1. n \in Of(g, "register") /\ \A j \in Of(g, "leave") : j < n
        BY <3>1
      <4> QED
        BY <3>1, <3>4, <4>1 DEF Active
    <3> QED
      BY <2>1, <3>2, <3>3, <3>4
  <2>2. CASE e.call.op = "leave"
    <3>1. /\ \A i : i \in Of(g, "register") <=> i \in Of(h, "register")
          /\ \A i : i \in Of(g, "leave") <=> (i \in Of(h, "leave") \/ i = n)
          /\ \A i \in Of(h, "register") \cup Of(h, "leave") : g[i] = h[i] /\ i < n /\ i \in Nat
          /\ g[n].call.who = e.call.who
      BY <1>1, <1>2, <1>3, <2>2
    <3>2. ASSUME p \in Active(g) PROVE p \in Active(h) /\ p # e.call.who
      <4>1. PICK i \in Of(g, "register") :
              g[i].call.who = p /\ \A j \in Of(g, "leave") : g[j].call.who = p => j < i
        BY <3>2 DEF Active
      <4>2. i \in Of(h, "register") /\ i < n /\ i \in Nat /\ n \in Of(g, "leave")
        BY <3>1, <4>1
      <4>3. p # e.call.who
        BY <1>1, <3>1, <4>1, <4>2
      <4> QED
        BY <3>1, <4>1, <4>2, <4>3, ZenonT(40) DEF Active
    <3>3. ASSUME p \in Active(h), p # e.call.who PROVE p \in Active(g)
      <4>1. PICK i \in Of(h, "register") :
              h[i].call.who = p /\ \A j \in Of(h, "leave") : h[j].call.who = p => j < i
        BY <3>3 DEF Active
      <4>2. i \in Of(g, "register") /\ g[i].call.who = p
        BY <3>1, <4>1
      <4>3. ASSUME NEW j \in Of(g, "leave"), g[j].call.who = p PROVE j < i
        <5>1. j \in Of(h, "leave") /\ g[j] = h[j]
          BY <3>1, <3>3, <4>3
        <5> QED
          BY <4>1, <4>3, <5>1
      <4> QED
        BY <4>2, <4>3 DEF Active
    <3> QED
      BY <2>2, <3>2, <3>3
  <2>3. CASE e.call.op \notin {"register", "leave"}
    <3>1. /\ \A i : i \in Of(g, "register") <=> i \in Of(h, "register")
          /\ \A i : i \in Of(g, "leave") <=> i \in Of(h, "leave")
          /\ \A i \in Of(h, "register") \cup Of(h, "leave") : g[i] = h[i]
      BY <1>2, <1>3, <2>3
    <3> QED
      BY <2>3, <3>1 DEF Active
  <2> QED
    BY <2>1, <2>2, <2>3
<1>5. Active(g) \subseteq Participants /\ Active(h) \subseteq Participants
  BY DEF Active
<1>6. CASE e.call.op = "register"
  BY <1>4, <1>5, <1>6
<1>7. CASE e.call.op = "leave"
  BY <1>4, <1>5, <1>7
<1>8. CASE e.call.op \notin {"register", "leave"}
  BY <1>4, <1>5, <1>8
<1> QED
  BY <1>6, <1>7, <1>8

\* A commit shows its call, its number and its recipients, and nothing else changes.
LEMMA EntriesMore ==
    ASSUME NEW h \in Seq(Entry), NEW e \in Entry, NEW g, g = Append(h, e)
    PROVE  Entries(g) = Append(Entries(h), Public(e))
<1>0. PICK n : n = Len(h) + 1
  OBVIOUS
<1>1. /\ n \in Nat \ {0} /\ DOMAIN h = 1 .. n - 1 /\ DOMAIN g = 1 .. n
      /\ g[n] = e
      /\ \A i \in DOMAIN h : g[i] = h[i]
  BY <1>0, Appended
<1> DEFINE T == {Public(h[i]) : i \in DOMAIN h} \cup {Public(e)}
<1>2. /\ Entries(h) \in Seq(T) /\ Len(Entries(h)) = n - 1
      /\ Entries(g) \in Seq(T) /\ Len(Entries(g)) = n
  BY <1>1 DEF Entries
<1>3. Public(e) \in T
  OBVIOUS
<1> HIDE DEF T
<1>4. /\ Append(Entries(h), Public(e)) \in Seq(T)
      /\ Len(Append(Entries(h), Public(e))) = n
      /\ \A i \in 1 .. n - 1 : Append(Entries(h), Public(e))[i] = Entries(h)[i]
      /\ Append(Entries(h), Public(e))[n] = Public(e)
  BY <1>1, <1>2, <1>3, AppendProperties
<1>5. \A i \in 1 .. n : Entries(g)[i] = Append(Entries(h), Public(e))[i]
  BY <1>1, <1>4 DEF Entries
<1> QED
  BY <1>2, <1>4, <1>5, SeqEqual

LEMMA EntryShown ==
    ASSUME NEW h \in Seq(Entry)
    PROVE  /\ DOMAIN Entries(h) = DOMAIN h
           /\ \A i \in DOMAIN h : /\ Entries(h)[i].call = h[i].call
                                  /\ Entries(h)[i].seq = h[i].seq
                                  /\ Entries(h)[i].to = h[i].to
           /\ {i \in DOMAIN Entries(h) : Entries(h)[i].call.op = "send"} = Of(h, "send")
  BY DEF Entries, Public, Of

\* Answers name commits of HEAD.
LEMMA AnswersGiven ==
    ASSUME MailInv, Next, told' # told
    PROVE  log' = log /\ \E i \in DOMAIN log : told' = told \cup {log[i]}
<1>0. MailTypeOK /\ Memory
  BY DEF MailInv
<1>1. CASE Finish
  <2>1. known \in Seq(Entry) /\ txn \in Entry /\ log = Append(known, txn)
        /\ log' = log /\ told' = told \cup {txn}
    BY <1>0, <1>1 DEF Finish, MailTypeOK, Memory, Finishing, disk
  <2>2. PICK n : n = Len(known) + 1
    OBVIOUS
  <2>3. n \in DOMAIN log /\ log[n] = txn
    BY <2>1, <2>2, Appended
  <2> QED
    BY <2>1, <2>3
<1>2. ASSUME NEW c \in Calls, AnswerRetry(c)
      PROVE  log' = log /\ \E i \in DOMAIN log : told' = told \cup {log[i]}
  BY <1>0, <1>2 DEF AnswerRetry, Memory, disk
<1> QED
  BY <1>1, <1>2 DEF Next, Transact, Recover, Begin, TruncateMarker, FillMarker, MarkerFails,
     WriteFile, StageFiles, PrepareMarker, CommitFiles, AttemptFails, RemoveMarker, FinishFails,
     RecoverNothing, AcceptCommit, StartRollback, RestoreFile, ResetIndex, EndRollback,
     RolledBack, RecoveryFails, Settle, SettleFails, OpenNew, OpenExisting, Close, Crash, Foreign

\* The public entry of a call that is committed on top of a history.
Shown(h, M, c) ==
    IF c.op = "send"
    THEN [call |-> c, seq |-> NextSequence(h),
          to |-> IF c.dest \in Participants THEN {c.dest} ELSE M]
    ELSE [call |-> c, seq |-> 0, to |-> {}]

\* What RequestLog asks of the next entry e of a history h with members M.
Welcome(h, M, e) ==
    LET c == e.call IN
    /\ c \in Calls \cup {InitCall}
    /\ \A i \in DOMAIN h : h[i].call.rid # c.rid
    /\ c.op = "init" => h = <<>>
    /\ c.op = "register" => (c.who \notin M /\ c.who \in Participants)
    /\ c.op = "leave" => c.who \in M
    /\ c.op = "send" => (c.who \in M /\ (c.dest \in Participants => c.dest \in M))
    /\ c.op = "acknowledge" =>
        \A m \in c.about : \E i \in Of(h, "send") : h[i].seq = m /\ c.who \in h[i].to
    /\ c.op \notin {"init", "register", "leave", "send", "acknowledge"} => h # <<>>
    /\ Public(e) = Shown(h, M, c)

LEMMA AdmittedIsWelcome ==
    ASSUME NEW h \in Seq(Entry), NEW e \in Entry, NEW j, Admitted(h, e, j), Numbered(h)
    PROVE  Welcome(h, Active(h), e)
<1>0. PICK c : c = e.call
  OBVIOUS
<1>1. CASE j = "init"
  <2>1. h = <<>> /\ e = InitEntry
    BY <1>1 DEF Admitted
  <2>2. c = InitCall /\ c.op = "init" /\ Public(e) = Shown(h, Active(h), c)
    BY <1>0, <2>1 DEF InitEntry, InitCall, Public, Shown
  <2>3. DOMAIN h = {}
    BY <2>1
  <2> QED
    BY <1>0, <2>1, <2>2, <2>3 DEF Welcome
<1>2. CASE j # "init"
  <2>1. /\ h # <<>> /\ c \in Calls /\ c.rid \notin Requests(h) /\ Accepts(h, c)
        /\ e = EntryFor(h, c)
    BY <1>0, <1>2, EntryFacts DEF Admitted
  <2>2. /\ e.call = c
        /\ e.seq = IF c.op = "send" THEN NextSequence(h) ELSE 0
        /\ e.to = Recipients(h, c)
    BY <1>0, <2>1, EntryFacts
  <2>3. c.op \in Operations
    BY <2>1, CallTypes
  <2>4. \A i \in DOMAIN h : h[i].call.rid # c.rid
    BY <2>1 DEF Requests
  <2>5. c.op = "send" =>
          c.who \in Active(h) /\ (c.dest \in Participants => c.dest \in Active(h))
    BY <2>1, ChannelTypes, ChannelsAssumption DEF Accepts
  <2>6. c.op = "acknowledge" => \A m \in c.about : \E i \in Of(h, "send") :
          h[i].seq = m /\ c.who \in h[i].to
    BY <2>1 DEF Accepts, Delivered
  <2>7. Public(e) = Shown(h, Active(h), c)
    BY <2>1, <2>2 DEF Public, Recipients, Shown
  <2>8. /\ c.op = "register" => c.who \notin Active(h)
        /\ c.op = "leave" => c.who \in Active(h)
        /\ c.op # "init"
    BY <2>1, <2>3 DEF Accepts, Operations
  <2>9. c.op = "register" => c.who \in Participants
    BY <2>1, CallTypes
  <2> QED
    BY <1>0, <2>1, <2>4, <2>5, <2>6, <2>7, <2>8, <2>9 DEF Welcome
<1> QED
  BY <1>1, <1>2

(* The mailbox implements RequestLog: its commits are a log that only      *)
(* grows, in which a request id appears once, messages are numbered        *)
(* without a gap and go to members, and only entries of the log are        *)
(* answers, through crashes, failed writes, rollbacks and recoveries.      *)
THEOREM MailboxIsRequestLog == Spec => ImplementsRequestLog
<1>1. Init => Abstract!Init
  <2> SUFFICES ASSUME Init PROVE Abstract!Init
    OBVIOUS
  <2>1. log = <<>> /\ told = {}
    BY DEF Init
  <2>2. Active(log) = {} /\ {Public(e) : e \in told} = {}
    BY <2>1 DEF Active, Of
  <2>3. [i \in DOMAIN log |-> Public(log[i])] = <<>>
    BY <2>1
  <2> QED
    BY <2>2, <2>3 DEF Abstract!Init
<1>2. MailInv /\ Histories /\ [Next]_vars => [Abstract!Next]_(Abstract!vars)
  <2> SUFFICES ASSUME MailInv, Histories, [Next]_vars PROVE [Abstract!Next]_(Abstract!vars)
    OBVIOUS
  <2>1. CASE log' = log /\ told' = told
    BY <2>1 DEF Abstract!vars
  <2>2. CASE Next /\ told' # told
    <3>1. PICK i \in DOMAIN log : log' = log /\ told' = told \cup {log[i]}
      BY <2>2, AnswersGiven
    <3>2. {Public(e) : e \in told'} = {Public(e) : e \in told} \cup {Public(log[i])}
      BY <3>1
    <3>3. Abstract!Answer
      BY <3>1, <3>2 DEF Abstract!Answer
    <3> QED
      BY <3>3 DEF Abstract!Next
  <2>3. CASE CommitFiles
    <3>1. /\ log' = Append(log, txn) /\ told' = told /\ log \in Seq(Entry) /\ txn \in Entry
          /\ Admitted(log, txn, job) /\ Numbered(log)
      BY <2>3 DEF CommitFiles, Step, MailInv, MailTypeOK, Memory, Histories, Attempt, Written
    <3>2. PICK e \in Entry : e = txn
      BY <3>1
    <3>3. PICK h \in Seq(Entry) : h = log
      BY <3>1
    <3>4. PICK c, E, M : c = e.call /\ E = Entries(h) /\ M = Active(h)
      OBVIOUS
    <3>5. PICK g : g = Append(h, e)
      OBVIOUS
    <3>6. log = h /\ log' = g /\ Admitted(h, e, job) /\ Numbered(h)
      BY <3>1, <3>2, <3>3, <3>5
    <3>7. /\ [i \in DOMAIN log |-> Public(log[i])] = E
          /\ [i \in DOMAIN log |-> Public(log[i])]' = Append(E, Public(e))
      <4>1. Entries(g) = Append(E, Public(e))
        BY <3>4, <3>5, EntriesMore
      <4> QED
        BY <3>4, <3>6, <4>1 DEF Entries
    <3>8. Welcome(h, M, e)
      BY <3>4, <3>6, AdmittedIsWelcome
    <3>9. /\ DOMAIN E = DOMAIN h
          /\ \A i \in DOMAIN h : /\ E[i].call = h[i].call
                                 /\ E[i].seq = h[i].seq
                                 /\ E[i].to = h[i].to
          /\ {i \in DOMAIN E : E[i].call.op = "send"} = Of(h, "send")
          /\ (h = <<>>) <=> (E = <<>>)
      <4>1. DOMAIN E = DOMAIN h /\ ((h = <<>>) <=> (E = <<>>))
        BY <3>4 DEF Entries
      <4> QED
        BY <3>4, <4>1, EntryShown
    <3>10. /\ Active(log) = M
           /\ Active(log)' = CASE c.op = "register" -> M \cup {c.who}
                                [] c.op = "leave"    -> M \ {c.who}
                                [] OTHER             -> M
      <4>1. Active(g) = CASE c.op = "register" -> M \cup {c.who}
                          [] c.op = "leave"    -> M \ {c.who}
                          [] OTHER             -> M
        BY <3>4, <3>5, <3>8, ActiveMore DEF Welcome
      <4> QED
        BY <3>4, <3>6, <4>1
    <3>11. Abstract!Sent = Of(h, "send")
      BY <3>7, <3>9 DEF Abstract!Sent
    <3>12. Abstract!Fits(c)
      <4>1. CASE c.op = "acknowledge"
        <5>1. \A m \in c.about : \E i \in Of(h, "send") : h[i].seq = m /\ c.who \in h[i].to
          BY <3>4, <3>8, <4>1 DEF Welcome
        <5>2. \A i \in Of(h, "send") : i \in DOMAIN E /\ E[i].seq = h[i].seq /\ E[i].to = h[i].to
          BY <3>9 DEF Of
        <5> QED
          BY <3>7, <3>11, <4>1, <5>1, <5>2 DEF Abstract!Fits
      <4>2. CASE c.op # "acknowledge"
        BY <3>4, <3>7, <3>8, <3>9, <3>10, <4>2 DEF Abstract!Fits, Welcome
      <4> QED
        BY <4>1, <4>2
    <3>13. PICK n : n = NextSequence(h)
      OBVIOUS
    <3>14. Abstract!EntryOf(c, n) = Public(e)
      <4>1. Abstract!EntryOf(c, n) = Shown(h, M, c)
        BY <3>10, <3>13 DEF Abstract!EntryOf, Shown
      <4> QED
        BY <3>4, <3>8, <4>1 DEF Welcome
    <3>15. n \in 1 .. Len(E) + 1 /\ {E[i].seq : i \in Of(h, "send")} = 1 .. n - 1
      <4>1. {E[i].seq : i \in Of(h, "send")} = Numbers(h)
        BY <3>9 DEF Numbers, Of
      <4>2. Len(E) = Len(h)
        BY <3>3, <3>4 DEF Entries
      <4>3. CASE h = <<>>
        <5>1. n = 1 /\ Numbers(h) = {} /\ Len(h) = 0
          BY <3>13, <4>3 DEF NextSequence, Numbers, Of
        <5>2. n \in 1 .. Len(E) + 1 /\ 1 .. n - 1 = {}
          BY <4>2, <5>1
        <5> QED
          BY <4>1, <5>1, <5>2
      <4>4. CASE h # <<>>
        BY <3>6, <3>13, <4>1, <4>2, <4>4 DEF Numbered
      <4> QED
        BY <4>3, <4>4
    <3>16. Abstract!MembersAfter(c) = Active(log)'
      BY <3>10 DEF Abstract!MembersAfter
    <3>17. \A i \in DOMAIN E : E[i].call.rid # c.rid
      BY <3>4, <3>8, <3>9 DEF Welcome
    <3>18. Abstract!Commit(c)
      BY <3>1, <3>7, <3>11, <3>12, <3>14, <3>15, <3>16, <3>17, ZenonT(40) DEF Abstract!Commit
    <3>19. c \in Calls \cup {InitCall}
      BY <3>4, <3>8 DEF Welcome
    <3> QED
      BY <3>18, <3>19 DEF Abstract!Next
  <2> QED
    BY <2>1, <2>2, <2>3, OnlyCommitsAdd DEF vars, disk
<1> QED
  BY <1>1, <1>2, MailConsistent, HistoryAlways, PTL DEF Spec, ImplementsRequestLog, Abstract!Spec

=============================================================================
