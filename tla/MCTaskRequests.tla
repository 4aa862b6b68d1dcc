--------------------------- MODULE MCTaskRequests ---------------------------
(* Small instances of TaskRequests: the calls clients make in each run.    *)
EXTENDS TaskRequests, TLC

CONSTANTS r1, r2, r3, r4, k1, p, q

Create        == [op |-> "create", task |-> None, who |-> None, status |-> None]
Update(s)     == [op |-> "update", task |-> k1, who |-> None, status |-> s]
Claim(who)    == [op |-> "claim", task |-> k1, who |-> who, status |-> None]
Release(who)  == [op |-> "release", task |-> k1, who |-> who, status |-> None]
Close         == [op |-> "close", task |-> k1, who |-> None, status |-> None]

Call(r, s) == [rid |-> r, sem |-> s]

\* Claims of one task under two ids, both reused with other arguments.
ClaimCalls ==
    {Call(r1, Claim(p)), Call(r1, Release(p)), Call(r2, Claim(p)), Call(r2, Claim(q))}

\* A create, an update without a field, a close that reuses its id, an update.
EditCalls ==
    {Call(r1, Create), Call(r2, Update(None)), Call(r2, Close),
     Call(r1, Update("in_progress"))}

\* Competing claims, a release and a close of one task, under two ids.
HandoffCalls ==
    {Call(r1, Claim(p)), Call(r1, Claim(q)), Call(r2, Release(p)), Call(r2, Close)}

\* p claims, and asks for its release under two ids; then q claims.
OrphanCalls ==
    {Call(r1, Claim(p)), Call(r2, Release(p)), Call(r3, Release(p)),
     Call(r4, Claim(q))}

ThreadSymmetry == Permutations(Threads)
=============================================================================
