----------------------------- MODULE MCWebPages -----------------------------
(* WebPages for TLC: two repositories with a branch of the same name, and the   *)
(* default branch of the second is not among the ones it is answered with.   *)
EXTENDS WebPages, TLC

CONSTANTS s1, s2, k1, k2, w1, w2, v1, r1, r2

BranchesOfMC == r1 :> {"main", "dev"} @@ r2 :> {"dev"}
DefaultOfMC  == r1 :> "main" @@ r2 :> "trunk"

PageSymmetry == Permutations(Sessions) \cup Permutations(CallIds) \cup Permutations(Workspaces)
=============================================================================
