----------------------------- MODULE RequestLog -----------------------------
(***************************************************************************)
(* What a mailbox promises to the clients that send it requests.  It is a  *)
(* log that only grows: a request id enters it once, messages are numbered *)
(* without a gap, a message goes to participants who are members when it   *)
(* is sent, only what was delivered can be acknowledged, and a request is  *)
(* answered with success only by the entry it has in the log.              *)
(***************************************************************************)
EXTENDS Naturals, Sequences

CONSTANTS
    Participants,
    Calls           \* the calls a log may hold, the one that creates it included

VARIABLES entries, members, answers

vars == <<entries, members, answers>>

Init ==
    /\ entries = <<>>
    /\ members = {}
    /\ answers = {}

Sent == {i \in DOMAIN entries : entries[i].call.op = "send"}

Fits(c) ==
    CASE c.op = "init"        -> entries = <<>>
      [] c.op = "register"    -> c.who \notin members
      [] c.op = "leave"       -> c.who \in members
      [] c.op = "send"        ->
            c.who \in members /\ (c.dest \in Participants => c.dest \in members)
      [] c.op = "acknowledge" ->
            \A n \in c.about : \E i \in Sent : entries[i].seq = n /\ c.who \in entries[i].to
      [] OTHER                -> entries # <<>>

\* A message to nobody in particular goes to everybody who is a member.
EntryOf(c, n) ==
    IF c.op = "send"
    THEN [call |-> c, seq |-> n,
          to |-> IF c.dest \in Participants THEN {c.dest} ELSE members]
    ELSE [call |-> c, seq |-> 0, to |-> {}]

MembersAfter(c) ==
    CASE c.op = "register" -> members \cup {c.who}
      [] c.op = "leave"    -> members \ {c.who}
      [] OTHER             -> members

Commit(c) ==
    /\ \A i \in DOMAIN entries : entries[i].call.rid # c.rid
    /\ Fits(c)
    /\ \E n \in 1 .. Len(entries) + 1 :    \* every number below n is taken
          /\ {entries[i].seq : i \in Sent} = 1 .. n - 1
          /\ entries' = Append(entries, EntryOf(c, n))
    /\ members' = MembersAfter(c)
    /\ UNCHANGED answers

Answer ==
    /\ \E i \in DOMAIN entries : answers' = answers \cup {entries[i]}
    /\ UNCHANGED <<entries, members>>

Next == Answer \/ \E c \in Calls : Commit(c)

Spec == Init /\ [][Next]_vars
=============================================================================
