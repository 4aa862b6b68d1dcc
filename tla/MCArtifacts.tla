----------------------------- MODULE MCArtifacts -----------------------------
(* Small instances of Artifacts: the calls clients make in each run.         *)
EXTENDS Artifacts

CONSTANTS r1, r2, seed, f1, f2, x, y, l

Upload(r, p, c) == [op |-> "upload", rid |-> r, paths |-> {p}, content |-> c]
Delete(r, p) == [op |-> "delete", rid |-> r, paths |-> {p}, content |-> None]
CommitOf(r, paths) == [op |-> "commit", rid |-> r, paths |-> paths, content |-> None]

\* Uploads, a delete and a commit, with ids used twice.
Calls ==
    {Upload(r1, f2, x), Upload(r1, f1, x), Delete(r2, f1), CommitOf(r2, {f1})}

SeedUpload == Upload(seed, f1, y)
=============================================================================
