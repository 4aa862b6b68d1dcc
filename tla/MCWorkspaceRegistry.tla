------------------------- MODULE MCWorkspaceRegistry -------------------------
(* Small instance of WorkspaceRegistry: the requests of the run.             *)
EXTENDS WorkspaceRegistry, TLC

CONSTANTS w1, w2, own, common, r1

On(op, w) == [op |-> op, ws |-> w, db |-> common, repo |-> r1]

\* Both are asked for under one root: a store is made there once.
OwnStores == [w \in Workspaces |-> own]

\* The repository shows the common database, or none.
Discoveries == [r \in Repositories |-> {common, None}]

\* The common database moves between the workspaces, in either direction.
Requests ==
    {On("workspace_create", w1), On("workspace_create", w2), On("workspace_archive", w1),
     On("workspace_visit", w2), On("task_store_attach", w2), On("task_store_detach", w2),
     On("task_store_detach", w1), On("with_store", w1), On("with_store", w2),
     On("repository_attach", w1), On("repository_detach", w1)}

ThreadSymmetry == Permutations(Threads)
=============================================================================
