------------------------- MODULE RoomAdmissionProofs -------------------------
(* The promise of RoomAdmission, for every set of rooms and every limit.   *)
EXTENDS RoomAdmission, FiniteSetTheorems, TLAPS

(* Rooms only ever stand in one of the three phases. *)
THEOREM AdmissionTypeCorrect == Spec => []TypeOK
<1>1. Init => TypeOK
  BY DEF Init, TypeOK, Phases
<1>2. TypeOK /\ [Next]_phase => TypeOK'
  BY DEF TypeOK, Phases, Next, Enter, Admit, Leave, Expire, Forget
<1>. QED  BY <1>1, <1>2, PTL DEF Spec

(* A set of active rooms never outgrows its limit n when a step either     *)
(* takes rooms out of it or adds one room while it has fewer than n.       *)
LEMMA SlotLimit ==
    ASSUME NEW n \in Nat, NEW S, IsFiniteSet(S), Cardinality(S) <= n,
           NEW T,
           \/ T \subseteq S
           \/ \E r : T = S \cup {r} /\ Cardinality(S) < n
    PROVE  IsFiniteSet(T) /\ Cardinality(T) <= n
<1>0. Cardinality(S) \in Nat
  BY FS_CardinalityType
<1>1. CASE T \subseteq S
  <2>1. IsFiniteSet(T) /\ Cardinality(T) \in Nat /\ Cardinality(T) <= Cardinality(S)
    BY <1>1, FS_Subset, FS_CardinalityType
  <2>. QED  BY <2>1, <1>0
<1>2. CASE \E r : T = S \cup {r} /\ Cardinality(S) < n
  <2>1. PICK r : T = S \cup {r} /\ Cardinality(S) < n
    BY <1>2
  <2>2. /\ IsFiniteSet(S \cup {r})
        /\ Cardinality(S \cup {r}) =
             IF r \in S THEN Cardinality(S) ELSE Cardinality(S) + 1
    BY FS_AddElement
  <2>. QED  BY <2>1, <2>2, <1>0
<1>. QED  BY <1>1, <1>2

(* No schedule of entries, admissions, departures and sweeps ever puts     *)
(* more rooms into a workspace or into the system than the limits allow.   *)
THEOREM SlotsNeverExceeded == AdmissionAssumption => (Spec => []WithinSlots)
<1>. SUFFICES ASSUME AdmissionAssumption PROVE Spec => []WithinSlots
  OBVIOUS
<1>1. Init => WithinSlots
  <2>. SUFFICES ASSUME Init PROVE WithinSlots
    OBVIOUS
  <2>1. Active = {} /\ \A ws : ActiveIn(ws) = {}
    BY DEF Init, Active, ActiveIn
  <2>2. Cardinality({}) = 0
    BY FS_EmptySet
  <2>. QED  BY <2>1, <2>2, AdmissionAssumption DEF AdmissionAssumption, WithinSlots
<1>2. TypeOK /\ WithinSlots /\ [Next]_phase => WithinSlots'
  <2>. SUFFICES ASSUME TypeOK, WithinSlots, [Next]_phase PROVE WithinSlots'
    OBVIOUS
  <2>0. IsFiniteSet(Active) /\ \A ws : IsFiniteSet(ActiveIn(ws))
    BY FS_Subset, AdmissionAssumption DEF AdmissionAssumption, Active, ActiveIn
  <2>1. CASE \E r \in Runs : Admit(r)
    <3>1. PICK r \in Runs : Admit(r)
      BY <2>1
    <3>2. /\ Active' = Active \cup {r}
          /\ ActiveIn(WorkspaceOf[r])' = ActiveIn(WorkspaceOf[r]) \cup {r}
          /\ \A ws : ws # WorkspaceOf[r] => ActiveIn(ws)' = ActiveIn(ws)
      BY <3>1 DEF Admit, Active, ActiveIn, TypeOK, Phases
    <3>3. ASSUME MaxPerWorkspace > 0, NEW ws \in {WorkspaceOf[q] : q \in Runs}
          PROVE  Cardinality(ActiveIn(ws)') <= MaxPerWorkspace
      <4>1. Cardinality(ActiveIn(ws)) <= MaxPerWorkspace
        BY <3>3 DEF WithinSlots
      <4>2. CASE ws = WorkspaceOf[r]
        <5>1. Cardinality(ActiveIn(ws)) < MaxPerWorkspace
          BY <3>1, <3>3, <4>2 DEF Admit
        <5>. QED  BY <5>1, <4>1, <4>2, <3>2, <2>0, SlotLimit, AdmissionAssumption DEF AdmissionAssumption
      <4>3. CASE ws # WorkspaceOf[r]
        BY <4>1, <4>3, <3>2
      <4>. QED  BY <4>2, <4>3
    <3>4. ASSUME MaxGlobal > 0 PROVE Cardinality(Active') <= MaxGlobal
      <4>1. Cardinality(Active) <= MaxGlobal /\ Cardinality(Active) < MaxGlobal
        BY <3>1, <3>4 DEF WithinSlots, Admit
      <4>. QED  BY <4>1, <3>2, <2>0, SlotLimit, AdmissionAssumption DEF AdmissionAssumption
    <3>. QED  BY <3>3, <3>4 DEF WithinSlots
  <2>2. CASE ~(\E r \in Runs : Admit(r))
    <3>1. Active' \subseteq Active /\ \A ws : ActiveIn(ws)' \subseteq ActiveIn(ws)
      BY <2>2 DEF Next, Enter, Leave, Expire, Forget, Active, ActiveIn, TypeOK, Phases
    <3>2. ASSUME MaxPerWorkspace > 0, NEW ws \in {WorkspaceOf[q] : q \in Runs}
          PROVE  Cardinality(ActiveIn(ws)') <= MaxPerWorkspace
      <4>1. Cardinality(ActiveIn(ws)) <= MaxPerWorkspace
        BY <3>2 DEF WithinSlots
      <4>. QED  BY <4>1, <3>1, <2>0, SlotLimit, AdmissionAssumption DEF AdmissionAssumption
    <3>3. ASSUME MaxGlobal > 0 PROVE Cardinality(Active') <= MaxGlobal
      <4>1. Cardinality(Active) <= MaxGlobal
        BY <3>3 DEF WithinSlots
      <4>. QED  BY <4>1, <3>1, <2>0, SlotLimit, AdmissionAssumption DEF AdmissionAssumption
    <3>. QED  BY <3>2, <3>3 DEF WithinSlots
  <2>. QED  BY <2>1, <2>2
<1>. QED  BY <1>1, <1>2, AdmissionTypeCorrect, PTL DEF Spec
=============================================================================
