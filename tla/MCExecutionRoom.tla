--------------------------- MODULE MCExecutionRoom ---------------------------
(* Small instances of ExecutionRoom. *)
EXTENDS ExecutionRoom, TLC

CONSTANTS r1, r2, r3, wsA, wsB, alice

(* r1 and r2 share a workspace, as two messages of one chat do. *)
MCWorkspaceOf == (r1 :> wsA) @@ (r2 :> wsA) @@ (r3 :> wsB)

MCOneWorkspace == [r \in Runs |-> wsA]
MCOneUser      == [r \in Runs |-> alice]

(* Rooms of one user and one workspace differ in nothing but their name.   *)
RoomSymmetry == Permutations(Runs) \cup Permutations(Workers)
=============================================================================
