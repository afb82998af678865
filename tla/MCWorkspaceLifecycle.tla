------------------------ MODULE MCWorkspaceLifecycle ------------------------
(* Small instances of WorkspaceLifecycle: w1 gets a working branch.        *)
EXTENDS WorkspaceLifecycle, TLC

CONSTANTS w1, q1, q2

MCNewBranch == {w1}

RequestSymmetry == Permutations({q1, q2})
=============================================================================
