---------------------------- MODULE RoomAdmission ----------------------------
(***************************************************************************)
(* What admission to execution rooms promises, with nothing said of how    *)
(* rooms are stored or executed: a room is outside the scheduler, waiting  *)
(* for a worker, or active; it becomes active only from the waiting phase, *)
(* one at a time, and only while its workspace and the whole system have a *)
(* free slot.  A room leaves the active phase whenever it likes.           *)
(*                                                                         *)
(* Abstracts the quota block of ClaimNextRunWithLimits in                  *)
(* internal/workspace/run_worker.go.                                       *)
(***************************************************************************)
EXTENDS Integers, FiniteSets

CONSTANTS Runs,             \* the execution rooms
          WorkspaceOf,      \* the workspace each room works in
          MaxPerWorkspace,  \* ClaimLimits.MaxPerWorkspace, 0 for no limit
          MaxGlobal         \* ClaimLimits.MaxGlobal, 0 for no limit

(* What a promise about numbers of rooms needs; a hypothesis of the theorem. *)
AdmissionAssumption ==
    /\ IsFiniteSet(Runs)
    /\ MaxPerWorkspace \in Nat
    /\ MaxGlobal \in Nat

VARIABLE phase              \* phase[r]: where room r stands

Phases == {"out", "waiting", "active"}

Active == {r \in Runs : phase[r] = "active"}
ActiveIn(ws) == {r \in Active : WorkspaceOf[r] = ws}

TypeOK == phase \in [Runs -> Phases]

Init == phase = [r \in Runs |-> "out"]

Enter(r) ==
    /\ phase[r] = "out"
    /\ phase' = [phase EXCEPT ![r] = "waiting"]

Admit(r) ==
    /\ phase[r] = "waiting"
    /\ MaxPerWorkspace > 0 =>
         Cardinality(ActiveIn(WorkspaceOf[r])) < MaxPerWorkspace
    /\ MaxGlobal > 0 => Cardinality(Active) < MaxGlobal
    /\ phase' = [phase EXCEPT ![r] = "active"]

Leave(r) ==
    /\ phase[r] \in {"waiting", "active"}
    /\ phase' = [phase EXCEPT ![r] = "out"]

(* Only an external sweep takes several rooms out of the active phase at once. *)
Expire(R) ==
    /\ R \subseteq Active
    /\ phase' = [r \in Runs |-> IF r \in R THEN "out" ELSE phase[r]]

(* A start of the controller forgets all rooms. *)
Forget == phase' = [r \in Runs |-> "out"]

Next == \/ \E r \in Runs : Enter(r) \/ Admit(r) \/ Leave(r)
        \/ \E R \in SUBSET Runs : Expire(R)
        \/ Forget

Spec == Init /\ [][Next]_phase

-----------------------------------------------------------------------------
(* At no time are more rooms active in one workspace, or in the whole       *)
(* system, than the limits allow: the execution slot of a workspace is      *)
(* what keeps two agents from editing one working tree.                     *)
WithinSlots ==
    /\ MaxPerWorkspace > 0 =>
         \A ws \in {WorkspaceOf[r] : r \in Runs} :
            Cardinality(ActiveIn(ws)) <= MaxPerWorkspace
    /\ MaxGlobal > 0 => Cardinality(Active) <= MaxGlobal
=============================================================================
