------------------------- MODULE ExecutionRoomProofs -------------------------
(***************************************************************************)
(* What holds of execution rooms for every number of rooms, workers, steps *)
(* and calls, on both databases, with errors, sweeps and restarts: types,  *)
(* the journal, and what a revoked room still gets.                        *)
(***************************************************************************)
EXTENDS ExecutionRoom, FiniteSetTheorems, TLAPS

(* Places of the loop reached only with a step below MaxSteps. *)
InStep == Executing \ {"claimed", "loop"}

(* What ties the local variables of a worker together: an idle worker has  *)
(* no room, the memory version counts the saved steps, and a pending shell *)
(* call is one the model asked for.                                        *)
Fits(x) ==
    /\ x.pc = "idle" <=> x.run = NoRun
    /\ x.pc \in InStep => x.step < MaxSteps
    /\ x.pc = "touch" => x.version = x.step + 1
    /\ x.pc # "touch" => x.version = x.step
    /\ x.pc = "shell" => x.call < x.asked

WorkerInv == \A w \in Workers : Fits(work[w])

-----------------------------------------------------------------------------
(* Type correctness.                                                       *)

(* Counting rooms gives a number. *)
LEMMA CountIsNat ==
    ASSUME NEW S \in SUBSET Runs
    PROVE  Cardinality(S) \in Nat
BY RoomAssumption, FS_Subset, FS_CardinalityType

(* A worker that is not idle has a room, and its step can be counted on. *)
LEMMA BusyWorker ==
    ASSUME TypeOK, WorkerInv, NEW w \in Workers, work[w].pc # "idle"
    PROVE  /\ Room(w) \in Runs
           /\ Step(w) \in 0..MaxSteps
           /\ work[w].pc \in InStep => Step(w) \in Steps
BY RoomAssumption
   DEF TypeOK, WorkerInv, Fits, Work, Room, Step, Steps, InStep, Executing

(* Whatever a room's workers have begun is a set of steps. *)
LEMMA BegunIsSteps ==
    ASSUME TypeOK, WorkerInv, NEW r \in Runs
    PROVE  Begun(r) \subseteq Steps
<1>1. ASSUME NEW w \in Executors(r), work[w].pc \notin {"claimed", "loop"}
      PROVE  work[w].step \in Steps
  BY <1>1, BusyWorker DEF Executors, Executing, InStep, Step
<1>. QED  BY <1>1 DEF Begun, TypeOK

(* A room that moves keeps the types of everything MoveTo writes. *)
LEMMA MoveToType ==
    ASSUME TypeOK, WorkerInv, NEW r \in Runs, NEW s \in RunStates, MoveTo(r, s)
    PROVE  /\ state' \in [Runs -> RunStates]
           /\ frontier' \in [Runs -> SUBSET Steps]
BY BegunIsSteps DEF MoveTo, TypeOK

LEMMA FailRunType ==
    ASSUME TypeOK, WorkerInv, NEW r \in Runs, FailRun(r)
    PROVE  /\ state' \in [Runs -> RunStates]
           /\ frontier' \in [Runs -> SUBSET Steps]
           /\ lease' \in [Runs -> {"none", "live", "expired"}]
<1>1. "failed" \in RunStates
  BY DEF RunStates
<1>. QED  BY <1>1, MoveToType DEF FailRun, TypeOK

(* A worker may become anything that fits.                                 *)
LEMMA BecomeType ==
    ASSUME TypeOK, WorkerInv, NEW w \in Workers, NEW x \in Work, Fits(x), Become(w, x)
    PROVE  work' \in [Workers -> Work] /\ WorkerInv'
<1>1. work' \in [Workers -> Work]
  BY DEF Become, TypeOK
<1>2. ASSUME NEW v \in Workers PROVE Fits(work'[v])
  <2>1. work'[v] = IF v = w THEN x ELSE work[v]
    BY DEF Become, TypeOK
  <2>. QED  BY <2>1 DEF WorkerInv
<1>3. WorkerInv' <=> \A v \in Workers : Fits(work'[v])
  BY DEF WorkerInv, Fits
<1>. QED  BY <1>1, <1>2, <1>3

(* A worker that is at l has a record that is. *)
LEMMA WorkerRecord ==
    ASSUME TypeOK, WorkerInv, NEW w \in Workers
    PROVE  work[w] \in Work /\ Fits(work[w])
BY DEF TypeOK, WorkerInv

LEMMA IdleFits == Idle \in Work /\ Fits(Idle)
BY RoomAssumption DEF Idle, Work, Fits, InStep, Control, Claiming, Executing

LEMMA LeaveRoomType ==
    ASSUME TypeOK, WorkerInv, NEW w \in Workers, LeaveRoom(w)
    PROVE  work' \in [Workers -> Work] /\ WorkerInv'
BY IdleFits, BecomeType DEF LeaveRoom

(* A worker takes a room from the queue, or from its own claim. *)
LEMMA EnterType ==
    ASSUME NEW r \in Runs, NEW l \in {"picked", "claimed"}
    PROVE  /\ [Idle EXCEPT !.pc = l, !.run = r] \in Work
           /\ Fits([Idle EXCEPT !.pc = l, !.run = r])
<1>. DEFINE x == [Idle EXCEPT !.pc = l, !.run = r]
<1>1. l \in Control
  BY DEF Control, Claiming, Executing
<1>2. x \in Work
  BY <1>1, IdleFits DEF Work
<1>3. x.pc = l /\ x.run = r /\ x.step = 0 /\ x.version = 0
  BY DEF Idle
<1>4. Fits(x)
  <2>. HIDE DEF x
  <2>. QED  BY <1>3, RoomAssumption DEF Fits, InStep, Executing
<1>. QED  BY <1>2, <1>4

LEMMA MarkRunningType ==
    ASSUME TypeOK, WorkerInv, NEW w \in Workers, NEW r \in Runs, MarkRunning(w, r)
    PROVE  TypeOK' /\ WorkerInv'
<1>1. work' \in [Workers -> Work] /\ WorkerInv'
  BY EnterType, BecomeType DEF MarkRunning
<1>2. state' \in [Runs -> RunStates] /\ lease' \in [Runs -> {"none", "live", "expired"}]
  BY DEF MarkRunning, TypeOK, RunStates
<1>3. frontier' \in [Runs -> SUBSET Steps]
  BY DEF MarkRunning, TypeOK
<1>. QED  BY <1>1, <1>2, <1>3 DEF MarkRunning, TypeOK

LEMMA InitType == Init => TypeOK /\ WorkerInv
<1>. SUFFICES ASSUME Init PROVE TypeOK /\ WorkerInv
  OBVIOUS
<1>1. TypeOK
  BY IdleFits, RoomAssumption DEF Init, TypeOK, RunStates
<1>. QED  BY <1>1, IdleFits DEF Init, WorkerInv

(* The ledger keeps its type. *)
LEMMA OweType ==
    ASSUME TypeOK, NEW w \in Workers, Room(w) \in Runs, NEW n \in Int, Owe(w, n)
    PROVE  owed' \in [Workers -> [Runs -> Int]]
<1>1. owed[w] \in [Runs -> Int] /\ owed[w][Room(w)] + n \in Int
  BY DEF TypeOK
<1>2. owed' = [owed EXCEPT ![w] = [owed[w] EXCEPT ![Room(w)] = @ + n]]
  BY DEF Owe
<1>3. [owed[w] EXCEPT ![Room(w)] = @ + n] \in [Runs -> Int]
  BY <1>1
<1>. QED  BY <1>2, <1>3 DEF TypeOK

(* A start of the controller leaves what Init describes. *)
LEMMA RestartInits == Restart => Init'
BY DEF Restart, Init

LEMMA ClaimType ==
    ASSUME TypeOK, WorkerInv, NEW w \in Workers, Claim(w)
    PROVE  TypeOK' /\ WorkerInv'
<1>1. CASE ClaimSerialized(w)
  BY <1>1, MarkRunningType DEF ClaimSerialized, Candidates, InState
<1>2. CASE PickCandidate(w)
  <2>1. PICK r \in Runs : Become(w, [Idle EXCEPT !.pc = "picked", !.run = r])
    BY <1>2 DEF PickCandidate, Candidates, InState
  <2>2. work' \in [Workers -> Work] /\ WorkerInv'
    BY <2>1, EnterType, BecomeType
  <2>. QED  BY <1>2, <2>2 DEF PickCandidate, TypeOK, store, history
<1>3. CASE CountRuns(w)
  <2>1. CASE GoTo(w, "counted")
    <3>1. LET x == [work[w] EXCEPT !.pc = "counted"] IN x \in Work /\ Fits(x)
      BY <1>3, WorkerRecord
         DEF CountRuns, Work, Fits, InStep, Control, Claiming, Executing
    <3>2. work' \in [Workers -> Work] /\ WorkerInv'
      BY <2>1, <3>1, BecomeType DEF GoTo
    <3>. QED  BY <1>3, <3>2 DEF CountRuns, TypeOK, store, history
  <2>2. CASE LeaveRoom(w)
    BY <1>3, <2>2, LeaveRoomType DEF CountRuns, TypeOK, store, history
  <2>. QED  BY <1>3, <2>1, <2>2 DEF CountRuns
<1>4. CASE CommitClaim(w)
  BY <1>4, MarkRunningType, BusyWorker DEF CommitClaim, Room
<1>. QED  BY <1>1, <1>2, <1>3, <1>4 DEF Claim

LEMMA ExecuteType ==
    ASSUME TypeOK, WorkerInv, NEW w \in Workers, Execute(w)
    PROVE  TypeOK' /\ WorkerInv'
<1>0. work[w].pc # "idle"
  BY DEF Execute, At, LoadSteps, ShellFactoryFails, BeginStep, ReachMaxSteps,
         ModelStops, ModelAsks, ModelFails, StopRoom, RunShell, ShellFails,
         RecordShell, SaveWorkMemory, EndStep
<1>r. Room(w) \in Runs /\ Step(w) \in 0..MaxSteps
        /\ (work[w].pc \in InStep => Step(w) \in Steps)
  BY <1>0, BusyWorker
<1>w. work[w] \in Work /\ Fits(work[w])
  BY WorkerRecord
<1>1. CASE LoadSteps(w)
  <2>. DEFINE journal == {<<"step", k>> : k \in models[Room(w)]}
                 \cup {<<"shell", k>> : k \in {j \in Steps : shells[Room(w)][j] # 0}}
              x == [work[w] EXCEPT !.pc = "loop", !.done = journal]
  <2>1. journal \in SUBSET Keys
    <3>1. models[Room(w)] \in SUBSET Steps
      BY <1>r DEF TypeOK
    <3>2. \A k \in Steps : <<"step", k>> \in Keys /\ <<"shell", k>> \in Keys
      BY DEF Keys
    <3>. QED  BY <3>1, <3>2
  <2>2. x \in Work /\ Fits(x)
    <3>. HIDE DEF journal
    <3>. QED  BY <1>1, <1>w, <2>1
            DEF LoadSteps, At, Work, Fits, InStep, Control, Executing
  <2>3. Become(w, x)
    BY <1>1 DEF LoadSteps
  <2>. HIDE DEF x
  <2>. QED  BY <1>1, <2>2, <2>3, BecomeType DEF LoadSteps, TypeOK, store, history
<1>2. CASE ShellFactoryFails(w)
  BY <1>2, <1>r, FailRunType, LeaveRoomType DEF ShellFactoryFails, TypeOK
<1>3. CASE BeginStep(w)
  <2>1. CASE LeaveRoom(w) /\ UNCHANGED lease
    BY <1>3, <2>1, LeaveRoomType DEF BeginStep, TypeOK, history
  <2>2. CASE ~(LeaveRoom(w) /\ UNCHANGED lease)
    <3>1. PICK l \in {"memory", "model"} : Become(w, [work[w] EXCEPT !.pc = l])
      BY <1>3, <2>2 DEF BeginStep, TouchRunLease
    <3>2. LET x == [work[w] EXCEPT !.pc = l] IN x \in Work /\ Fits(x)
      BY <1>3, <1>r, <1>w, RoomAssumption
         DEF BeginStep, At, Step, Work, Fits, InStep, Control, Executing
    <3>3. work' \in [Workers -> Work] /\ WorkerInv'
      BY <3>1, <3>2, BecomeType
    <3>4. lease' \in [Runs -> {"none", "live", "expired"}]
      BY <1>3, <1>r DEF BeginStep, TouchRunLease, TypeOK
    <3>. QED  BY <1>3, <3>3, <3>4 DEF BeginStep, TypeOK, history
  <2>. QED  BY <2>1, <2>2
<1>4. CASE ReachMaxSteps(w)
  BY <1>4, <1>r, FailRunType, LeaveRoomType DEF ReachMaxSteps, TypeOK
<1>5. CASE \E n \in 0..MaxCalls : ModelStops(w, n) \/ ModelAsks(w, n)
  <2>1. models' \in [Runs -> SUBSET Steps] /\ repeated' \in SUBSET Runs
    <3>1. Step(w) \in Steps
      BY <1>5, <1>r DEF ModelStops, ModelAsks, At, InStep, Executing
    <3>2. RecordTurn(w)
      BY <1>5 DEF ModelStops, ModelAsks
    <3>3. models[Room(w)] \cup {Step(w)} \in SUBSET Steps
      BY <1>r, <3>1 DEF TypeOK
    <3>4. models' \in [Runs -> SUBSET Steps]
      BY <3>2, <3>3 DEF RecordTurn, TypeOK
    <3>. QED  BY <1>r, <3>2, <3>4 DEF RecordTurn, TypeOK
  <2>2. ASSUME NEW n \in 0..MaxCalls, ModelStops(w, n) PROVE TypeOK' /\ WorkerInv'
    <3>1. LET x == [work[w] EXCEPT !.pc = "complete"] IN x \in Work /\ Fits(x)
      BY <2>2, <1>w DEF ModelStops, At, Work, Fits, InStep, Control, Executing
    <3>2. work' \in [Workers -> Work] /\ WorkerInv'
      BY <2>2, <3>1, BecomeType DEF ModelStops, GoTo
    <3>3. owed' \in [Workers -> [Runs -> Int]]
      BY <2>2, <1>r, OweType, RoomAssumption DEF ModelStops
    <3>4. forsaken' \in SUBSET Runs
      BY <2>2, <1>r DEF ModelStops, TypeOK
    <3>. QED  BY <2>1, <2>2, <3>2, <3>3, <3>4 DEF ModelStops, TypeOK
  <2>3. ASSUME NEW n \in 0..MaxCalls, ModelAsks(w, n) PROVE TypeOK' /\ WorkerInv'
    <3>1. PICK asked \in 0..MaxCalls :
            /\ Become(w, [work[w] EXCEPT !.pc = IF asked = 0 THEN "memory" ELSE "shell",
                                         !.asked = asked, !.call = 0])
            /\ Owe(w, asked)
      <4>. DEFINE asked == IF <<"shell", Step(w)>> \in work[w].done THEN 0 ELSE n
      <4>1. asked \in 0..MaxCalls
        BY RoomAssumption
      <4>2. /\ Become(w, [work[w] EXCEPT !.pc = IF asked = 0 THEN "memory" ELSE "shell",
                                         !.asked = asked, !.call = 0])
            /\ Owe(w, asked)
        BY <2>3 DEF ModelAsks
      <4>. QED  BY <4>1, <4>2
    <3>2. PICK l \in {"memory", "shell"} :
            /\ l = IF asked = 0 THEN "memory" ELSE "shell"
            /\ l = "shell" => 0 < asked
      BY RoomAssumption
    <3>. DEFINE x == [work[w] EXCEPT !.pc = l, !.asked = asked, !.call = 0]
    <3>3. x \in Work /\ Fits(x)
      <4>1. x \in Work
        <5>1. 0 \in 0..MaxCalls /\ l \in Control
          BY RoomAssumption DEF Control, Executing
        <5>. QED  BY <1>w, <5>1 DEF Work
      <4>2. /\ x.pc = l /\ x.asked = asked /\ x.call = 0
            /\ x.run = work[w].run /\ x.step = work[w].step
            /\ x.version = work[w].version
        BY <1>w DEF Work
      <4>3. Fits(x)
        <5>. HIDE DEF x
        <5>. QED  BY <1>w, <2>3, <3>2, <4>2 DEF ModelAsks, At, Fits, InStep, Executing
      <4>. QED  BY <4>1, <4>3
    <3>4. work' \in [Workers -> Work] /\ WorkerInv'
      <4>1. Become(w, x)
        BY <3>1, <3>2
      <4>. HIDE DEF x
      <4>. QED  BY <3>3, <4>1, BecomeType
    <3>5. owed' \in [Workers -> [Runs -> Int]]
      BY <3>1, <1>r, OweType, RoomAssumption
    <3>. QED  BY <2>1, <2>3, <3>4, <3>5 DEF ModelAsks, TypeOK
  <2>. QED  BY <1>5, <2>2, <2>3
<1>6. CASE ModelFails(w)
  BY <1>6, <1>r, FailRunType, LeaveRoomType DEF ModelFails, TypeOK
<1>7. CASE StopRoom(w)
  <2>1. CASE state[Room(w)] = "running"
    <3>1. MoveTo(Room(w), "completed") /\ lease' = [lease EXCEPT ![Room(w)] = "none"]
      BY <1>7, <2>1 DEF StopRoom, CompleteRun
    <3>2. state' \in [Runs -> RunStates] /\ frontier' \in [Runs -> SUBSET Steps]
      BY <1>r, <3>1, MoveToType DEF RunStates
    <3>. QED  BY <1>7, <3>1, <3>2, LeaveRoomType DEF StopRoom, TypeOK
  <2>2. CASE state[Room(w)] # "running"
    BY <1>7, <2>2, LeaveRoomType DEF StopRoom, CompleteRun, TypeOK
  <2>. QED  BY <2>1, <2>2
<1>8. CASE RunShell(w)
  <2>. DEFINE x == [work[w] EXCEPT !.pc = "journal", !.call = @ + 1]
  <2>1. x \in Work /\ Fits(x)
    <3>1. work[w].call + 1 \in 0..MaxCalls
      BY <1>8, <1>w, RoomAssumption DEF RunShell, At, Work, Fits
    <3>2. x \in Work
      BY <3>1, <1>w DEF Work, Control, Executing
    <3>3. /\ x.pc = "journal" /\ x.run = work[w].run
          /\ x.step = work[w].step /\ x.version = work[w].version
      BY <1>w DEF Work
    <3>4. Fits(x)
      <4>. HIDE DEF x
      <4>. QED  BY <1>8, <1>w, <3>3 DEF RunShell, At, Fits, InStep, Executing
    <3>. QED  BY <3>2, <3>4
  <2>2. work' \in [Workers -> Work] /\ WorkerInv'
    <3>1. Become(w, x)
      BY <1>8 DEF RunShell
    <3>. HIDE DEF x
    <3>. QED  BY <2>1, <3>1, BecomeType
  <2>3. owed' \in [Workers -> [Runs -> Int]]
    BY <1>8, <1>r, OweType DEF RunShell
  <2>. QED  BY <1>8, <2>2, <2>3 DEF RunShell, TypeOK, store
<1>9. CASE ShellFails(w)
  <2>1. owed' \in [Workers -> [Runs -> Int]]
    <3>1. work[w].call - work[w].asked \in Int
      BY <1>w, RoomAssumption DEF Work
    <3>. QED  BY <1>9, <1>r, <3>1, OweType DEF ShellFails
  <2>. QED  BY <1>9, <1>r, <2>1, FailRunType, LeaveRoomType DEF ShellFails, TypeOK
<1>10. CASE RecordShell(w)
  <2>1. shells' \in [Runs -> [Steps -> 0..MaxCalls]]
    <3>1. Step(w) \in Steps /\ work[w].call \in 0..MaxCalls
      BY <1>10, <1>r, <1>w DEF RecordShell, At, Work, InStep, Executing
    <3>. QED  BY <1>10, <1>r, <3>1 DEF RecordShell, TypeOK
  <2>2. PICK l \in {"shell", "memory"} :
           GoTo(w, l) /\ (l = "shell" => work[w].call < work[w].asked)
    BY <1>10 DEF RecordShell
  <2>3. LET x == [work[w] EXCEPT !.pc = l] IN x \in Work /\ Fits(x)
    BY <1>10, <1>w, <2>2 DEF RecordShell, At, Work, Fits, InStep, Control, Executing
  <2>4. work' \in [Workers -> Work] /\ WorkerInv'
    BY <2>2, <2>3, BecomeType DEF GoTo
  <2>. QED  BY <1>10, <2>1, <2>4 DEF RecordShell, TypeOK, history
<1>11. CASE SaveWorkMemory(w)
  <2>1. CASE LeaveRoom(w) /\ UNCHANGED memory
    BY <1>11, <2>1, LeaveRoomType DEF SaveWorkMemory, TypeOK, history
  <2>2. CASE ~(LeaveRoom(w) /\ UNCHANGED memory)
    <3>. DEFINE next == [work[w] EXCEPT !.pc = "touch", !.version = work[w].version + 1]
    <3>1. /\ Become(w, next)
          /\ memory' = [memory EXCEPT ![Room(w)] = work[w].version + 1 + 1]
      BY <1>11, <2>2 DEF SaveWorkMemory
    <3>2. work[w].version = work[w].step /\ work[w].step \in 0..(MaxSteps - 1)
      BY <1>11, <1>r, <1>w
         DEF SaveWorkMemory, At, Fits, Step, Steps, InStep, Executing
    <3>3. next \in Work /\ Fits(next)
      <4>1. next \in Work
        <5>1. work[w].version + 1 \in 0..MaxSteps /\ "touch" \in Control
          BY <3>2, RoomAssumption DEF Control, Executing
        <5>. QED  BY <1>w, <5>1 DEF Work
      <4>2. /\ next.pc = "touch" /\ next.run = work[w].run
            /\ next.step = work[w].step /\ next.version = work[w].version + 1
        BY <1>w DEF Work
      <4>3. Fits(next)
        <5>. HIDE DEF next
        <5>. QED  BY <1>11, <1>w, <3>2, <4>2, RoomAssumption
                  DEF SaveWorkMemory, At, Fits, InStep, Executing
      <4>. QED  BY <4>1, <4>3
    <3>4. memory' \in [Runs -> 0..(MaxSteps + 1)]
      BY <3>1, <3>2, <1>r, RoomAssumption DEF TypeOK
    <3>. HIDE DEF next
    <3>5. work' \in [Workers -> Work] /\ WorkerInv'
      BY <3>1, <3>3, BecomeType
    <3>. QED  BY <1>11, <3>4, <3>5 DEF SaveWorkMemory, TypeOK, history
  <2>. QED  BY <2>1, <2>2
<1>12. CASE EndStep(w)
  <2>1. CASE LeaveRoom(w) /\ UNCHANGED lease
    BY <1>12, <2>1, LeaveRoomType DEF EndStep, TypeOK, history
  <2>2. CASE ~(LeaveRoom(w) /\ UNCHANGED lease)
    <3>. DEFINE next == [work[w] EXCEPT !.pc = "loop", !.step = @ + 1,
                                        !.call = 0, !.asked = 0]
    <3>1. Become(w, next)
      BY <1>12, <2>2 DEF EndStep, TouchRunLease
    <3>2. next \in Work /\ Fits(next)
      <4>1. work[w].step \in 0..MaxSteps /\ work[w].step < MaxSteps
        BY <1>12, <1>r, <1>w DEF EndStep, At, Step, Fits, InStep, Executing
      <4>2. next \in Work
        <5>1. /\ 0 \in 0..MaxCalls /\ work[w].step + 1 \in 0..MaxSteps
              /\ "loop" \in Control
          BY <4>1, RoomAssumption DEF Control, Executing
        <5>. QED  BY <1>w, <5>1 DEF Work
      <4>3. /\ next.pc = "loop" /\ next.run = work[w].run
            /\ next.step = work[w].step + 1 /\ next.version = work[w].version
        BY <1>w DEF Work
      <4>4. Fits(next)
        <5>. HIDE DEF next
        <5>. QED  BY <1>12, <1>w, <4>3 DEF EndStep, At, Fits, InStep, Executing
      <4>. QED  BY <4>2, <4>4
    <3>3. lease' \in [Runs -> {"none", "live", "expired"}]
      BY <1>12, <1>r DEF EndStep, TouchRunLease, TypeOK
    <3>. HIDE DEF next
    <3>4. work' \in [Workers -> Work] /\ WorkerInv'
      BY <3>1, <3>2, BecomeType
    <3>. QED  BY <1>12, <3>3, <3>4 DEF EndStep, TypeOK, history
  <2>. QED  BY <2>1, <2>2
<1>. QED
  BY <1>1, <1>2, <1>3, <1>4, <1>5, <1>6, <1>7, <1>8, <1>9, <1>10, <1>11, <1>12
     DEF Execute

LEMMA NextType ==
    ASSUME TypeOK, WorkerInv, [Next]_vars
    PROVE  TypeOK' /\ WorkerInv'
<1>1. ASSUME NEW r \in Runs, EnqueueRun(r) PROVE TypeOK' /\ WorkerInv'
  <2>1. Cardinality(Runs \ InState({"absent"})) \in Nat
    BY CountIsNat DEF InState
  <2>2. created' \in [Runs -> Nat]
    BY <1>1, <2>1 DEF EnqueueRun, TypeOK
  <2>. QED  BY <1>1, <2>2 DEF EnqueueRun, TypeOK, WorkerInv, Fits, RunStates, history
<1>2. ASSUME NEW r \in Runs, CancelRun(r) \/ SetRunWaitingUser(r)
      PROVE  TypeOK' /\ WorkerInv'
  <2>1. {"canceled", "waiting_user"} \subseteq RunStates
    BY DEF RunStates
  <2>. QED
    BY <1>2, <2>1, MoveToType DEF CancelRun, SetRunWaitingUser, TypeOK, WorkerInv, Fits
<1>3. ASSUME NEW r \in Runs, ContinueRun(r) PROVE TypeOK' /\ WorkerInv'
  BY <1>3 DEF ContinueRun, TypeOK, WorkerInv, Fits, RunStates
<1>4. ASSUME NEW w \in Workers, Abandon(w) PROVE TypeOK' /\ WorkerInv'
  <2>1. forsaken' \in SUBSET Runs
    BY <1>4, BusyWorker DEF Abandon, At, TypeOK
  <2>. QED  BY <1>4, <2>1, LeaveRoomType DEF Abandon, TypeOK, store
<1>5. ASSUME NEW r \in Runs, LeaseExpires(r) PROVE TypeOK' /\ WorkerInv'
  BY <1>5 DEF LeaseExpires, TypeOK, WorkerInv, Fits, history
<1>6. CASE RecoverRuns
  <2>1. \A r \in Runs : Begun(r) \subseteq Steps
    BY BegunIsSteps
  <2>2. frontier' \in [Runs -> SUBSET Steps]
    BY <1>6, <2>1 DEF RecoverRuns, TypeOK
  <2>. QED  BY <1>6, <2>2 DEF RecoverRuns, TypeOK, WorkerInv, Fits, RunStates
<1>7. CASE UNCHANGED vars
  BY <1>7 DEF vars, store, history, TypeOK, WorkerInv, Fits
<1>8. Restart => TypeOK' /\ WorkerInv'
  BY RestartInits, InitType, PTL
<1>. QED
  BY <1>1, <1>2, <1>3, <1>4, <1>5, <1>6, <1>7, <1>8, ClaimType, ExecuteType
     DEF Next, Uninterrupted, Pausing, Failing, WorkerStep

(* The store and the workers keep their types: in particular no worker     *)
(* records a step beyond MaxSteps and no memory version runs ahead of the  *)
(* loop.                                                                   *)
THEOREM RoomTypeCorrect == Spec => [](TypeOK /\ WorkerInv)
BY InitType, NextType, PTL DEF Spec
-----------------------------------------------------------------------------
(* What every proof below knows of a step besides its own invariant. *)
Base == TypeOK /\ WorkerInv

(* Only the worker that becomes something changes. *)
LEMMA OthersStay ==
    ASSUME TypeOK, NEW w \in Workers, NEW x, Become(w, x), NEW v \in Workers
    PROVE  work'[v] = IF v = w THEN x ELSE work[v]
BY DEF Become, TypeOK

(* A worker inside a room has a record of the loop. *)
LEMMA Inside ==
    ASSUME Base, NEW w \in Workers, work[w].pc \in Executing
    PROVE  /\ work[w].run \in Runs
           /\ work[w].step \in 0..MaxSteps
           /\ work[w].pc \in InStep => work[w].step \in Steps
BY BusyWorker DEF Base, Executing, Room, Step

-----------------------------------------------------------------------------
(* The journal.                                                            *)

(* Places of the loop behind AppendRunStep of the model turn. *)
Recorded == {"complete", "shell", "journal", "memory", "touch"}

(* All steps before x's, x's own once its turn is recorded, and all its    *)
(* done map names are in the journal M of its room.                        *)
Backed(x, M) ==
    x.pc \in Executing =>
        /\ 0..(x.step - 1) \subseteq M[x.run]
        /\ x.pc \in Recorded => x.step \in M[x.run]
        /\ \A k \in Steps : <<"step", k>> \in x.done => k \in M[x.run]

(* The journal is a prefix and the work memory stays behind it because     *)
(* every worker inside a room has its past recorded.                       *)
JournalInv ==
    /\ \A w \in Workers : Backed(work[w], models)
    /\ JournalIsPrefix
    /\ MemoryFollowsJournal

(* As long as no row of the journal disappears, only the worker that moves *)
(* can lose its backing.                                                   *)
LEMMA Backing ==
    ASSUME Base, \A v \in Workers : Backed(work[v], models),
           \A r \in Runs : models[r] \subseteq models'[r],
           NEW w \in Workers, NEW x, Become(w, x), Backed(x, models')
    PROVE  \A v \in Workers : Backed(work'[v], models')
<1>1. SUFFICES ASSUME NEW v \in Workers, v # w PROVE Backed(work'[v], models')
  BY OthersStay DEF Base
<1>2. work'[v] = work[v]
  BY <1>1, OthersStay DEF Base
<1>3. work[v].pc \in Executing => work[v].run \in Runs
  BY Inside
<1>. QED  BY <1>2, <1>3 DEF Backed

LEMMA IdleBacked == \A M : Backed(Idle, M)
BY DEF Backed, Idle, Executing

(* A worker leaves a room it has not written the journal of. *)
LEMMA LeaveBacked ==
    ASSUME Base, JournalInv, NEW w \in Workers, LeaveRoom(w),
           UNCHANGED <<memory, models, shells>>
    PROVE  JournalInv'
<1>1. \A v \in Workers : Backed(work'[v], models')
  BY IdleBacked, Backing DEF LeaveRoom, JournalInv
<1>2. JournalIsPrefix' /\ MemoryFollowsJournal'
  BY DEF JournalInv, JournalIsPrefix, MemoryFollowsJournal
<1>. QED  BY <1>1, <1>2 DEF JournalInv, Backed

(* A worker moves in a way that needs no new row. *)
LEMMA MoveBacked ==
    ASSUME Base, JournalInv, NEW w \in Workers, NEW x, Become(w, x),
           Backed(x, models), UNCHANGED <<memory, models, shells>>
    PROVE  JournalInv'
<1>1. \A v \in Workers : Backed(work'[v], models')
  BY Backing DEF JournalInv
<1>2. JournalIsPrefix' /\ MemoryFollowsJournal'
  BY DEF JournalInv, JournalIsPrefix, MemoryFollowsJournal
<1>. QED  BY <1>1, <1>2 DEF JournalInv, Backed
(* The row step-k is written while the worker is in step k: the prefix     *)
(* grows by its next element or not at all.                                *)
LEMMA RecordTurnBacked ==
    ASSUME Base, JournalInv, NEW w \in Workers, At(w, "model"), RecordTurn(w),
           NEW x, Become(w, x), UNCHANGED <<memory, shells>>,
           x.run = work[w].run, x.step = work[w].step, x.done = work[w].done
    PROVE  JournalInv'
<1>1. Room(w) \in Runs /\ Step(w) \in Steps
  BY Inside DEF At, Executing, InStep, Room, Step
<1>2. Backed(work[w], models) /\ work[w].pc \in Executing
  BY DEF JournalInv, At, Executing
<1>3. \A r \in Runs : models'[r] = IF r = Room(w) THEN models[r] \cup {Step(w)}
                                                ELSE models[r]
  BY <1>1 DEF RecordTurn, Base, TypeOK
<1>4. Backed(x, models')
  BY <1>1, <1>2, <1>3 DEF Backed, Room, Step
<1>5. \A v \in Workers : Backed(work'[v], models')
  BY <1>3, <1>4, Backing DEF JournalInv
<1>6. JournalIsPrefix'
  <2>1. ASSUME NEW r \in Runs, NEW k \in models'[r] PROVE 0..k \subseteq models'[r]
    <3>1. CASE k \in models[r]
      BY <1>3, <2>1, <3>1 DEF JournalInv, JournalIsPrefix
    <3>2. CASE r = Room(w) /\ k = Step(w)
      <4>1. 0..(k - 1) \subseteq models[r]
        BY <1>2, <3>2 DEF Backed, Room, Step
      <4>2. 0..k = 0..(k - 1) \cup {k}
        BY <1>1, <3>2, RoomAssumption DEF Steps
      <4>. QED  BY <1>3, <3>2, <4>1, <4>2
    <3>. QED  BY <1>3, <2>1, <3>1, <3>2
  <2>2. ASSUME NEW r \in Runs, NEW k \in Steps, shells'[r][k] # 0 PROVE k \in models'[r]
    BY <1>3, <2>2 DEF JournalInv, JournalIsPrefix
  <2>. QED  BY <2>1, <2>2 DEF JournalIsPrefix
<1>7. MemoryFollowsJournal'
  BY <1>3 DEF JournalInv, MemoryFollowsJournal
<1>. QED  BY <1>5, <1>6, <1>7 DEF JournalInv, Backed

LEMMA JournalClaim ==
    ASSUME Base, JournalInv, NEW w \in Workers, Claim(w)
    PROVE  JournalInv'
<1>1. ASSUME NEW r \in Runs, MarkRunning(w, r) PROVE JournalInv'
  <2>. DEFINE x == [Idle EXCEPT !.pc = "claimed", !.run = r]
  <2>1. x.pc = "claimed" /\ x.run = r /\ x.step = 0 /\ x.done = {}
    BY DEF Idle
  <2>2. Backed(x, models)
    <3>. HIDE DEF x
    <3>. QED  BY <2>1 DEF Backed, Recorded
  <2>3. Become(w, x) /\ UNCHANGED <<memory, models, shells>>
    BY <1>1 DEF MarkRunning
  <2>. QED  BY <2>2, <2>3, MoveBacked
<1>2. CASE ClaimSerialized(w)
  BY <1>1, <1>2 DEF ClaimSerialized, Candidates, InState
<1>3. CASE PickCandidate(w)
  <2>1. PICK r \in Runs : Become(w, [Idle EXCEPT !.pc = "picked", !.run = r])
    BY <1>3 DEF PickCandidate, Candidates, InState
  <2>2. [Idle EXCEPT !.pc = "picked", !.run = r].pc = "picked"
    BY DEF Idle
  <2>3. Backed([Idle EXCEPT !.pc = "picked", !.run = r], models)
    BY <2>2 DEF Backed, Executing
  <2>. QED  BY <1>3, <2>1, <2>3, MoveBacked DEF PickCandidate, store
<1>4. CASE CountRuns(w)
  <2>1. CASE GoTo(w, "counted")
    <3>1. [work[w] EXCEPT !.pc = "counted"].pc = "counted"
      BY DEF Base, TypeOK, Work
    <3>2. Backed([work[w] EXCEPT !.pc = "counted"], models)
      BY <3>1 DEF Backed, Executing
    <3>. QED  BY <1>4, <2>1, <3>2, MoveBacked DEF CountRuns, GoTo, store
  <2>2. CASE LeaveRoom(w)
    BY <1>4, <2>2, LeaveBacked DEF CountRuns, store
  <2>. QED  BY <1>4, <2>1, <2>2 DEF CountRuns
<1>5. CASE CommitClaim(w)
  <2>1. work[w].run \in Runs
    BY <1>5, BusyWorker DEF CommitClaim, Base, Room
  <2>. QED  BY <1>1, <1>5, <2>1 DEF CommitClaim
<1>. QED  BY <1>2, <1>3, <1>4, <1>5 DEF Claim

LEMMA JournalExecute ==
    ASSUME Base, JournalInv, NEW w \in Workers, Execute(w)
    PROVE  JournalInv'
<1>w. work[w] \in Work /\ Fits(work[w]) /\ Backed(work[w], models)
  BY WorkerRecord DEF Base, JournalInv
<1>1. CASE LoadSteps(w)
  <2>. DEFINE journal == {<<"step", k>> : k \in models[Room(w)]}
                 \cup {<<"shell", k>> : k \in {j \in Steps : shells[Room(w)][j] # 0}}
              x == [work[w] EXCEPT !.pc = "loop", !.done = journal]
  <2>1. /\ x.pc = "loop" /\ x.run = Room(w) /\ x.step = work[w].step
        /\ x.done = journal
    BY <1>w DEF Work, Room
  <2>2. \A k \in Steps : <<"step", k>> \in journal => k \in models[Room(w)]
    OBVIOUS
  <2>3. 0..(work[w].step - 1) \subseteq models[Room(w)]
    BY <1>1, <1>w DEF LoadSteps, At, Backed, Executing, Room
  <2>4. Become(w, x) /\ UNCHANGED <<memory, models, shells>>
    BY <1>1 DEF LoadSteps, store
  <2>5. Backed(x, models)
    <3>. HIDE DEF x, journal
    <3>. QED  BY <2>1, <2>2, <2>3 DEF Backed, Recorded
  <2>. HIDE DEF x
  <2>. QED  BY <2>4, <2>5, MoveBacked
<1>2. CASE ShellFactoryFails(w) \/ ReachMaxSteps(w) \/ ModelFails(w)
             \/ StopRoom(w) \/ ShellFails(w)
  BY <1>2, LeaveBacked DEF ShellFactoryFails, ReachMaxSteps, ModelFails, StopRoom, ShellFails
<1>3. CASE BeginStep(w)
  <2>1. CASE LeaveRoom(w)
    BY <1>3, <2>1, LeaveBacked DEF BeginStep
  <2>2. CASE ~LeaveRoom(w)
    <3>1. PICK l \in {"memory", "model"} :
            /\ Become(w, [work[w] EXCEPT !.pc = l])
            /\ l = "memory" => <<"step", Step(w)>> \in work[w].done
      BY <1>3, <2>2 DEF BeginStep, TouchRunLease
    <3>. DEFINE x == [work[w] EXCEPT !.pc = l]
    <3>2. /\ x.pc = l /\ x.run = work[w].run /\ x.step = work[w].step
          /\ x.done = work[w].done
      BY <1>w DEF Work
    <3>3. work[w].pc \in Executing
      BY <1>3 DEF BeginStep, At, Executing
    <3>4. Step(w) \in Steps
      BY <1>3, <1>w, RoomAssumption DEF BeginStep, Step, Steps, Work
    <3>5. Backed(x, models)
      <4>. HIDE DEF x
      <4>. QED  BY <1>w, <3>1, <3>2, <3>3, <3>4 DEF Backed, Recorded, Step
    <3>6. Become(w, x)
      BY <3>1
    <3>. HIDE DEF x
    <3>. QED  BY <1>3, <3>5, <3>6, MoveBacked DEF BeginStep
  <2>. QED  BY <2>1, <2>2
<1>4. ASSUME NEW n \in 0..MaxCalls, ModelStops(w, n) PROVE JournalInv'
  <2>. DEFINE x == [work[w] EXCEPT !.pc = "complete"]
  <2>1. x.run = work[w].run /\ x.step = work[w].step /\ x.done = work[w].done
    BY <1>w DEF Work
  <2>2. Become(w, x)
    BY <1>4 DEF ModelStops, GoTo
  <2>. HIDE DEF x
  <2>. QED  BY <1>4, <2>1, <2>2, RecordTurnBacked DEF ModelStops
<1>5. ASSUME NEW n \in 0..MaxCalls, ModelAsks(w, n) PROVE JournalInv'
  <2>. DEFINE asked == IF <<"shell", Step(w)>> \in work[w].done THEN 0 ELSE n
              x == [work[w] EXCEPT !.pc = IF asked = 0 THEN "memory" ELSE "shell",
                                   !.asked = asked, !.call = 0]
  <2>1. x.run = work[w].run /\ x.step = work[w].step /\ x.done = work[w].done
    BY <1>w DEF Work
  <2>2. Become(w, x)
    BY <1>5 DEF ModelAsks
  <2>. HIDE DEF x
  <2>. QED  BY <1>5, <2>1, <2>2, RecordTurnBacked DEF ModelAsks
<1>6. CASE RunShell(w)
  <2>. DEFINE x == [work[w] EXCEPT !.pc = "journal", !.call = @ + 1]
  <2>1. x.run = work[w].run /\ x.step = work[w].step /\ x.done = work[w].done
    BY <1>w DEF Work
  <2>2. Become(w, x)
    BY <1>6 DEF RunShell
  <2>3. Backed(x, models)
    <3>. HIDE DEF x
    <3>. QED  BY <1>6, <1>w, <2>1 DEF RunShell, At, Backed, Executing, Recorded
  <2>. HIDE DEF x
  <2>. QED  BY <1>6, <2>2, <2>3, MoveBacked DEF RunShell, store
<1>7. CASE RecordShell(w)
  <2>1. PICK l \in {"shell", "memory"} : Become(w, [work[w] EXCEPT !.pc = l])
    BY <1>7 DEF RecordShell, GoTo
  <2>. DEFINE x == [work[w] EXCEPT !.pc = l]
  <2>2. x.run = work[w].run /\ x.step = work[w].step /\ x.done = work[w].done
    BY <1>w DEF Work
  <2>3. Backed(x, models)
    <3>. HIDE DEF x
    <3>. QED  BY <1>7, <1>w, <2>2 DEF RecordShell, At, Backed, Executing, Recorded
  <2>4. UNCHANGED models
    BY <1>7 DEF RecordShell
  <2>5. \A v \in Workers : Backed(work'[v], models')
    <3>1. Become(w, x) /\ Backed(x, models')
      BY <2>1, <2>3, <2>4
    <3>. HIDE DEF x
    <3>. QED  BY <2>4, <3>1, Backing DEF JournalInv
  <2>6. JournalIsPrefix'
    <3>1. Room(w) \in Runs /\ Step(w) \in Steps /\ Step(w) \in models[Room(w)]
      BY <1>7, <1>w, Inside
         DEF RecordShell, At, Executing, InStep, Recorded, Backed, Room, Step
    <3>2. ASSUME NEW r \in Runs, NEW k \in Steps, shells'[r][k] # 0
          PROVE  k \in models[r]
      <4>1. shells[r][k] # 0 \/ (r = Room(w) /\ k = Step(w))
        BY <1>7, <3>1, <3>2 DEF RecordShell, Base, TypeOK
      <4>. QED  BY <3>1, <4>1 DEF JournalInv, JournalIsPrefix
    <3>. QED  BY <2>4, <3>2 DEF JournalInv, JournalIsPrefix
  <2>7. MemoryFollowsJournal'
    BY <1>7 DEF RecordShell, JournalInv, MemoryFollowsJournal
  <2>. QED  BY <2>5, <2>6, <2>7 DEF JournalInv, Backed
<1>8. CASE SaveWorkMemory(w)
  <2>1. CASE LeaveRoom(w) /\ UNCHANGED memory
    BY <1>8, <2>1, LeaveBacked DEF SaveWorkMemory
  <2>2. CASE ~(LeaveRoom(w) /\ UNCHANGED memory)
    <3>. DEFINE x == [work[w] EXCEPT !.pc = "touch", !.version = work[w].version + 1]
    <3>1. /\ Become(w, x)
          /\ memory' = [memory EXCEPT ![Room(w)] = work[w].version + 1 + 1]
          /\ UNCHANGED <<models, shells>>
      BY <1>8, <2>2 DEF SaveWorkMemory
    <3>2. x.run = work[w].run /\ x.step = work[w].step /\ x.done = work[w].done
      BY <1>w DEF Work
    <3>3. Backed(x, models)
      <4>. HIDE DEF x
      <4>. QED  BY <1>8, <1>w, <3>2 DEF SaveWorkMemory, At, Backed, Executing, Recorded
    <3>. HIDE DEF x
    <3>4. \A v \in Workers : Backed(work'[v], models')
      BY <3>1, <3>3, Backing DEF JournalInv
    <3>5. /\ Room(w) \in Runs /\ Step(w) \in Steps /\ work[w].version = Step(w)
          /\ 0..(Step(w) - 1) \subseteq models[Room(w)]
          /\ Step(w) \in models[Room(w)]
      BY <1>8, <1>w, Inside
         DEF SaveWorkMemory, At, Executing, InStep, Recorded, Backed, Fits, Room, Step
    <3>6. 0..Step(w) \subseteq models[Room(w)]
      BY <3>5, RoomAssumption DEF Steps
    <3>7. ASSUME NEW r \in Runs, memory'[r] # 0
          PROVE  0..(memory'[r] - 2) \subseteq models[r]
      <4>1. CASE r = Room(w)
        <5>1. memory'[r] - 2 = Step(w)
          BY <3>1, <3>5, <4>1, RoomAssumption DEF Base, TypeOK, Steps
        <5>. QED  BY <3>6, <4>1, <5>1
      <4>2. CASE r # Room(w)
        BY <3>1, <3>7, <4>2 DEF Base, TypeOK, JournalInv, MemoryFollowsJournal
      <4>. QED  BY <4>1, <4>2
    <3>8. JournalIsPrefix' /\ MemoryFollowsJournal'
      BY <3>1, <3>7 DEF JournalInv, JournalIsPrefix, MemoryFollowsJournal
    <3>. QED  BY <3>4, <3>8 DEF JournalInv, Backed
  <2>. QED  BY <2>1, <2>2
<1>9. CASE EndStep(w)
  <2>1. CASE LeaveRoom(w)
    BY <1>9, <2>1, LeaveBacked DEF EndStep
  <2>2. CASE ~LeaveRoom(w)
    <3>. DEFINE x == [work[w] EXCEPT !.pc = "loop", !.step = @ + 1,
                                     !.call = 0, !.asked = 0]
    <3>1. Become(w, x)
      BY <1>9, <2>2 DEF EndStep, TouchRunLease
    <3>2. /\ x.pc = "loop" /\ x.run = work[w].run /\ x.step = work[w].step + 1
          /\ x.done = work[w].done
      BY <1>w DEF Work
    <3>3. /\ work[w].step \in Steps /\ work[w].pc \in Executing
          /\ 0..(work[w].step - 1) \subseteq models[work[w].run]
          /\ work[w].step \in models[work[w].run]
      BY <1>9, <1>w, Inside DEF EndStep, At, Executing, InStep, Recorded, Backed
    <3>4. x.step - 1 = work[w].step
                /\ 0..work[w].step = 0..(work[w].step - 1) \cup {work[w].step}
      <4>. HIDE DEF x
      <4>. QED  BY <3>2, <3>3, RoomAssumption DEF Steps
    <3>5. Backed(x, models)
      <4>. HIDE DEF x
      <4>1. 0..(x.step - 1) \subseteq models[x.run]
        BY <3>2, <3>3, <3>4
      <4>. QED  BY <1>w, <3>2, <3>3, <4>1 DEF Backed, Recorded
    <3>. HIDE DEF x
    <3>. QED  BY <1>9, <3>1, <3>5, MoveBacked DEF EndStep
  <2>. QED  BY <2>1, <2>2
<1>. QED
  BY <1>1, <1>2, <1>3, <1>4, <1>5, <1>6, <1>7, <1>8, <1>9 DEF Execute

LEMMA JournalInit == Init => JournalInv
<1>. SUFFICES ASSUME Init PROVE JournalInv
  OBVIOUS
<1>1. \A w \in Workers : work[w] = Idle
  BY DEF Init
<1>2. \A r \in Runs : models[r] = {} /\ memory[r] = 0 /\ \A k \in Steps : shells[r][k] = 0
  BY DEF Init
<1>. QED
  BY <1>1, <1>2, IdleBacked DEF JournalInv, JournalIsPrefix, MemoryFollowsJournal

LEMMA JournalNext ==
    ASSUME Base, JournalInv, [Next]_vars
    PROVE  JournalInv'
<1>1. CASE UNCHANGED <<work, memory, models, shells>>
  BY <1>1 DEF JournalInv, Backed, JournalIsPrefix, MemoryFollowsJournal
<1>2. ASSUME NEW w \in Workers, Abandon(w) PROVE JournalInv'
  BY <1>2, LeaveBacked DEF Abandon, store
<1>3. ASSUME NEW r \in Runs,
             EnqueueRun(r) \/ CancelRun(r) \/ SetRunWaitingUser(r) \/ ContinueRun(r)
               \/ LeaseExpires(r)
      PROVE  UNCHANGED <<work, memory, models, shells>>
  BY <1>3 DEF EnqueueRun, CancelRun, SetRunWaitingUser, ContinueRun, LeaseExpires
<1>4. RecoverRuns \/ UNCHANGED vars => UNCHANGED <<work, memory, models, shells>>
  BY DEF RecoverRuns, vars, store
<1>5. Restart => JournalInv'
  BY RestartInits, JournalInit, PTL
<1>. QED
  BY <1>1, <1>2, <1>3, <1>4, <1>5, JournalClaim, JournalExecute
     DEF Next, Uninterrupted, Pausing, Failing, WorkerStep

LEMMA JournalInvariant == Spec => []JournalInv
<1>1. Spec => []Base
  BY RoomTypeCorrect DEF Base
<1>2. JournalInv /\ Base /\ [Next]_vars => JournalInv'
  BY JournalNext
<1>. QED  BY <1>1, <1>2, JournalInit, PTL DEF Spec

(* Errors, resumptions and any number of workers leave the journal of      *)
(* every room a prefix of the loop, so that resuming after its last row    *)
(* resumes where the room was (runs.go:272, loop.go:86-118).               *)
THEOREM JournalStaysPrefix == Spec => []JournalIsPrefix
<1>1. JournalInv => JournalIsPrefix
  BY DEF JournalInv
<1>. QED  BY <1>1, JournalInvariant, PTL

(* However many workers save the work memory of a room, late or twice, the *)
(* version check keeps it from counting a step the journal does not hold   *)
(* (loop.go:151-189).                                                      *)
THEOREM MemoryStaysBehind == Spec => []MemoryFollowsJournal
<1>1. JournalInv => MemoryFollowsJournal
  BY DEF JournalInv
<1>. QED  BY <1>1, JournalInvariant, PTL
-----------------------------------------------------------------------------
(* Revocation.                                                             *)

(* A room that is not running has begun nothing since it stopped running.  *)
FrontierInv ==
    \A r \in Runs : state[r] # "running" => Begun(r) \subseteq frontier[r]

(* What a worker has begun in r it had begun before, unless it enters a    *)
(* step there; a new row belongs to a step already begun.                  *)
LEMMA BegunShrinks ==
    ASSUME Base, NEW r \in Runs, NEW w \in Workers, NEW x, Become(w, x),
           x.pc \in InStep /\ x.run = r =>
              work[w].pc \in InStep /\ work[w].run = r /\ x.step = work[w].step,
           models'[r] \subseteq Begun(r)
    PROVE  Begun(r)' \subseteq Begun(r)
<1>1. ASSUME NEW v \in Workers, work'[v].run = r, work'[v].pc \in Executing,
             work'[v].pc \notin {"claimed", "loop"}
      PROVE  work'[v].step \in Begun(r)
  <2>1. work'[v] = IF v = w THEN x ELSE work[v]
    BY OthersStay DEF Base
  <2>2. work[v].run = r /\ work[v].pc \in InStep /\ work'[v].step = work[v].step
    BY <1>1, <2>1 DEF InStep
  <2>. QED  BY <2>2 DEF Begun, Executors, InStep
<1>. QED  BY <1>1 DEF Begun, Executors

(* A statement that moves rooms out of running leaves their frontiers.     *)
LEMMA FrontierKept ==
    ASSUME FrontierInv,
           \A r \in Runs :
              \/ state'[r] = "running"
              \/ /\ Begun(r)' \subseteq Begun(r)
                 /\ \/ frontier'[r] = Begun(r)
                    \/ frontier'[r] = frontier[r] /\ state[r] # "running"
    PROVE  FrontierInv'
BY DEF FrontierInv

LEMMA MoveToKeeps ==
    ASSUME Base, NEW q \in Runs, NEW s, MoveTo(q, s), NEW r \in Runs
    PROVE  \/ state'[r] = "running"
           \/ frontier'[r] = Begun(r)
           \/ frontier'[r] = frontier[r] /\ state[r] # "running"
BY DEF Base, TypeOK, MoveTo

LEMMA StillKeeps ==
    ASSUME UNCHANGED <<state, frontier>>, NEW r \in Runs
    PROVE  \/ state'[r] = "running"
           \/ frontier'[r] = frontier[r] /\ state[r] # "running"
OBVIOUS

(* A worker that leaves, or goes where no step is begun, begins nothing.   *)
LEMMA OutsideShrinks ==
    ASSUME Base, NEW r \in Runs, NEW w \in Workers, NEW x, Become(w, x),
           x.pc \notin InStep, UNCHANGED models
    PROVE  Begun(r)' \subseteq Begun(r)
BY BegunShrinks DEF Begun

LEMMA LeaveShrinks ==
    ASSUME Base, NEW r \in Runs, NEW w \in Workers, LeaveRoom(w), UNCHANGED models
    PROVE  Begun(r)' \subseteq Begun(r)
<1>1. Idle.pc \notin InStep
  BY DEF Idle, InStep, Executing
<1>. QED  BY <1>1, OutsideShrinks DEF LeaveRoom

(* A worker goes on within its step. *)
LEMMA SameStepShrinks ==
    ASSUME Base, NEW r \in Runs, NEW w \in Workers, work[w].pc \in InStep,
           NEW x, Become(w, x), x.run = work[w].run, x.step = work[w].step,
           models'[r] \subseteq Begun(r)
    PROVE  Begun(r)' \subseteq Begun(r)
BY BegunShrinks

LEMMA FrontierClaim ==
    ASSUME Base, FrontierInv, NEW w \in Workers, Claim(w)
    PROVE  FrontierInv'
<1>1. ASSUME NEW q \in Runs, MarkRunning(w, q) PROVE FrontierInv'
  <2>. DEFINE x == [Idle EXCEPT !.pc = "claimed", !.run = q]
  <2>1. x.pc = "claimed"
    BY DEF Idle
  <2>2. Become(w, x) /\ UNCHANGED models
    BY <1>1 DEF MarkRunning
  <2>3. \A r \in Runs : Begun(r)' \subseteq Begun(r)
    <3>. HIDE DEF x
    <3>. QED  BY <2>1, <2>2, OutsideShrinks DEF InStep
  <2>4. \A r \in Runs : IF r = q THEN state'[r] = "running"
                                 ELSE state'[r] = state[r] /\ frontier'[r] = frontier[r]
    BY <1>1 DEF MarkRunning, Base, TypeOK
  <2>. QED  BY <2>3, <2>4, FrontierKept
<1>2. CASE ClaimSerialized(w)
  BY <1>1, <1>2 DEF ClaimSerialized, Candidates, InState
<1>3. CASE PickCandidate(w)
  <2>1. PICK q \in Runs : Become(w, [Idle EXCEPT !.pc = "picked", !.run = q])
    BY <1>3 DEF PickCandidate, Candidates, InState
  <2>2. [Idle EXCEPT !.pc = "picked", !.run = q].pc \notin InStep
    BY DEF Idle, InStep, Executing
  <2>3. \A r \in Runs : Begun(r)' \subseteq Begun(r)
    BY <1>3, <2>1, <2>2, OutsideShrinks DEF PickCandidate, store
  <2>. QED  BY <1>3, <2>3, FrontierKept, StillKeeps DEF PickCandidate, store, history
<1>4. CASE CountRuns(w)
  <2>1. \A r \in Runs : Begun(r)' \subseteq Begun(r)
    <3>1. CASE GoTo(w, "counted")
      <4>1. [work[w] EXCEPT !.pc = "counted"].pc \notin InStep
        BY DEF Base, TypeOK, Work, InStep, Executing
      <4>. QED  BY <1>4, <3>1, <4>1, OutsideShrinks DEF CountRuns, GoTo, store
    <3>2. CASE LeaveRoom(w)
      BY <1>4, <3>2, LeaveShrinks DEF CountRuns, store
    <3>. QED  BY <1>4, <3>1, <3>2 DEF CountRuns
  <2>. QED  BY <1>4, <2>1, FrontierKept, StillKeeps DEF CountRuns, store, history
<1>5. CASE CommitClaim(w)
  <2>1. work[w].run \in Runs
    BY <1>5, BusyWorker DEF CommitClaim, Base, Room
  <2>. QED  BY <1>1, <1>5, <2>1 DEF CommitClaim
<1>. QED  BY <1>2, <1>3, <1>4, <1>5 DEF Claim

LEMMA FrontierExecute ==
    ASSUME Base, FrontierInv, NEW w \in Workers, Execute(w)
    PROVE  FrontierInv'
<1>w. work[w] \in Work
  BY WorkerRecord DEF Base
<1>r. work[w].pc \in Executing => Room(w) \in Runs
  BY Inside DEF Room
<1>1. CASE LoadSteps(w)
  <2>1. PICK journal : Become(w, [work[w] EXCEPT !.pc = "loop", !.done = journal])
    BY <1>1 DEF LoadSteps
  <2>2. [work[w] EXCEPT !.pc = "loop", !.done = journal].pc \notin InStep
    BY <1>w DEF Work, InStep, Executing
  <2>. QED
    BY <1>1, <2>1, <2>2, OutsideShrinks, FrontierKept, StillKeeps
       DEF LoadSteps, store, history
<1>2. CASE ShellFactoryFails(w) \/ ReachMaxSteps(w) \/ ModelFails(w) \/ ShellFails(w)
  <2>1. /\ FailRun(Room(w)) /\ LeaveRoom(w) /\ UNCHANGED models
        /\ Room(w) \in Runs
    BY <1>2, <1>r
       DEF ShellFactoryFails, ReachMaxSteps, ModelFails, ShellFails, At, Executing
  <2>. QED  BY <2>1, LeaveShrinks, MoveToKeeps, FrontierKept DEF FailRun
<1>3. CASE StopRoom(w)
  <2>1. LeaveRoom(w) /\ UNCHANGED models /\ Room(w) \in Runs
    BY <1>3, <1>r DEF StopRoom, At, Executing
  <2>2. MoveTo(Room(w), "completed") \/ UNCHANGED <<state, frontier>>
    BY <1>3 DEF StopRoom, CompleteRun
  <2>. QED  BY <2>1, <2>2, LeaveShrinks, MoveToKeeps, StillKeeps, FrontierKept
<1>4. CASE BeginStep(w)
  <2>1. UNCHANGED <<state, frontier, models>>
    BY <1>4 DEF BeginStep, history
  <2>2. CASE LeaveRoom(w)
    BY <2>1, <2>2, LeaveShrinks, StillKeeps, FrontierKept
  <2>3. CASE ~LeaveRoom(w)
    <3>1. /\ state[Room(w)] = "running"
          /\ \E l \in {"memory", "model"} : Become(w, [work[w] EXCEPT !.pc = l])
      BY <1>4, <2>3 DEF BeginStep, TouchRunLease, Room
    <3>2. PICK l \in {"memory", "model"} : Become(w, [work[w] EXCEPT !.pc = l])
      BY <3>1
    <3>3. [work[w] EXCEPT !.pc = l].run = Room(w)
      BY <1>w DEF Work, Room
    <3>4. ASSUME NEW r \in Runs, r # Room(w) PROVE Begun(r)' \subseteq Begun(r)
      <4>. DEFINE x == [work[w] EXCEPT !.pc = l]
      <4>1. x.run # r /\ Become(w, x) /\ models'[r] \subseteq Begun(r)
        BY <2>1, <3>2, <3>3, <3>4 DEF Begun
      <4>. HIDE DEF x
      <4>. QED  BY <4>1, BegunShrinks
    <3>. QED  BY <2>1, <3>1, <3>4, StillKeeps, FrontierKept
  <2>. QED  BY <2>2, <2>3
<1>5. CASE \E n \in 0..MaxCalls : ModelStops(w, n) \/ ModelAsks(w, n)
  <2>1. At(w, "model") /\ RecordTurn(w) /\ UNCHANGED <<state, frontier>>
    BY <1>5 DEF ModelStops, ModelAsks
  <2>2. work[w].pc \in InStep /\ work[w].pc \in Executing /\ Room(w) \in Runs
    BY <2>1, <1>r DEF At, InStep, Executing
  <2>3. ASSUME NEW r \in Runs PROVE models'[r] \subseteq Begun(r)
    <3>1. models'[r] \subseteq models[r] \cup (IF r = Room(w) THEN {Step(w)} ELSE {})
      BY <2>1, <2>2 DEF RecordTurn, Base, TypeOK
    <3>2. r = Room(w) => Step(w) \in Begun(r)
      BY <2>2 DEF Begun, Executors, Room, Step, InStep
    <3>. QED  BY <3>1, <3>2 DEF Begun
  <2>4. \E x : Become(w, x) /\ x.run = work[w].run /\ x.step = work[w].step
    <3>1. ASSUME NEW n \in 0..MaxCalls, ModelStops(w, n)
          PROVE  \E x : Become(w, x) /\ x.run = work[w].run /\ x.step = work[w].step
      <4>. DEFINE x == [work[w] EXCEPT !.pc = "complete"]
      <4>1. Become(w, x)
        BY <3>1 DEF ModelStops, GoTo
      <4>. QED  BY <4>1, <1>w DEF Work
    <3>2. ASSUME NEW n \in 0..MaxCalls, ModelAsks(w, n)
          PROVE  \E x : Become(w, x) /\ x.run = work[w].run /\ x.step = work[w].step
      <4>. DEFINE asked == IF <<"shell", Step(w)>> \in work[w].done THEN 0 ELSE n
                  x == [work[w] EXCEPT !.pc = IF asked = 0 THEN "memory" ELSE "shell",
                                       !.asked = asked, !.call = 0]
      <4>1. Become(w, x)
        BY <3>2 DEF ModelAsks
      <4>2. x.run = work[w].run /\ x.step = work[w].step
        BY <1>w DEF Work
      <4>. HIDE DEF x
      <4>. QED  BY <4>1, <4>2
    <3>. QED  BY <1>5, <3>1, <3>2
  <2>. QED  BY <2>1, <2>2, <2>3, <2>4, SameStepShrinks, StillKeeps, FrontierKept
<1>6. CASE RunShell(w) \/ RecordShell(w)
  <2>1. /\ work[w].pc \in InStep
        /\ \E x : Become(w, x) /\ x.run = work[w].run /\ x.step = work[w].step
    <3>1. work[w].pc \in InStep
      BY <1>6 DEF RunShell, RecordShell, At, InStep, Executing
    <3>2. \A l : LET x == [work[w] EXCEPT !.pc = l]
                 IN  x.run = work[w].run /\ x.step = work[w].step
      BY <1>w DEF Work
    <3>3. LET x == [work[w] EXCEPT !.pc = "journal", !.call = @ + 1]
          IN  x.run = work[w].run /\ x.step = work[w].step
      BY <1>w DEF Work
    <3>. QED  BY <1>6, <3>1, <3>2, <3>3 DEF RunShell, RecordShell, GoTo
  <2>2. UNCHANGED <<state, frontier, models>>
    BY <1>6 DEF RunShell, RecordShell, store, history
  <2>3. \A r \in Runs : models'[r] \subseteq Begun(r)
    BY <2>2 DEF Begun
  <2>. QED  BY <2>1, <2>2, <2>3, SameStepShrinks, StillKeeps, FrontierKept
<1>7. CASE SaveWorkMemory(w)
  <2>1. UNCHANGED <<state, frontier, models>> /\ work[w].pc \in InStep
    BY <1>7 DEF SaveWorkMemory, history, At, InStep, Executing
  <2>2. CASE LeaveRoom(w)
    BY <2>1, <2>2, LeaveShrinks, StillKeeps, FrontierKept
  <2>3. CASE ~LeaveRoom(w)
    <3>. DEFINE x == [work[w] EXCEPT !.pc = "touch", !.version = work[w].version + 1]
    <3>1. Become(w, x)
      BY <1>7, <2>3 DEF SaveWorkMemory
    <3>2. x.run = work[w].run /\ x.step = work[w].step
      BY <1>w DEF Work
    <3>3. \A r \in Runs : models'[r] \subseteq Begun(r)
      BY <2>1 DEF Begun
    <3>. HIDE DEF x
    <3>. QED  BY <2>1, <3>1, <3>2, <3>3, SameStepShrinks, StillKeeps, FrontierKept
  <2>. QED  BY <2>2, <2>3
<1>8. CASE EndStep(w)
  <2>1. UNCHANGED <<state, frontier, models>>
    BY <1>8 DEF EndStep, history
  <2>2. CASE LeaveRoom(w)
    BY <2>1, <2>2, LeaveShrinks, StillKeeps, FrontierKept
  <2>3. CASE ~LeaveRoom(w)
    <3>. DEFINE x == [work[w] EXCEPT !.pc = "loop", !.step = @ + 1,
                                     !.call = 0, !.asked = 0]
    <3>1. Become(w, x)
      BY <1>8, <2>3 DEF EndStep, TouchRunLease
    <3>2. x.pc \notin InStep
      BY <1>w DEF Work, InStep, Executing
    <3>. HIDE DEF x
    <3>. QED  BY <2>1, <3>1, <3>2, OutsideShrinks, StillKeeps, FrontierKept
  <2>. QED  BY <2>2, <2>3
<1>. QED
  BY <1>1, <1>2, <1>3, <1>4, <1>5, <1>6, <1>7, <1>8 DEF Execute

LEMMA FrontierInit == Init => FrontierInv
<1>. SUFFICES ASSUME Init, NEW r \in Runs PROVE Begun(r) = {}
  BY DEF FrontierInv
<1>1. models[r] = {} /\ \A w \in Workers : work[w] = Idle
  BY DEF Init
<1>. QED  BY <1>1 DEF Begun, Executors, Idle, Executing

LEMMA FrontierNext ==
    ASSUME Base, FrontierInv, [Next]_vars
    PROVE  FrontierInv'
<1>1. ASSUME UNCHANGED <<work, models>>, NEW r \in Runs PROVE Begun(r)' = Begun(r)
  BY <1>1 DEF Begun, Executors
<1>2. ASSUME NEW q \in Runs, CancelRun(q) \/ SetRunWaitingUser(q) PROVE FrontierInv'
  <2>1. UNCHANGED <<work, models>> /\ \E s : MoveTo(q, s)
    BY <1>2 DEF CancelRun, SetRunWaitingUser
  <2>. QED  BY <1>1, <2>1, MoveToKeeps, FrontierKept
<1>3. ASSUME NEW q \in Runs, EnqueueRun(q) \/ ContinueRun(q) PROVE FrontierInv'
  <2>1. UNCHANGED <<work, models, frontier>>
    BY <1>3 DEF EnqueueRun, ContinueRun, history
  <2>2. \A r \in Runs : state[r] = "running" => state'[r] = "running"
    BY <1>3 DEF EnqueueRun, ContinueRun, Base, TypeOK
  <2>. QED  BY <1>1, <2>1, <2>2, FrontierKept
<1>4. ASSUME NEW w \in Workers, Abandon(w) PROVE FrontierInv'
  BY <1>4, LeaveShrinks, StillKeeps, FrontierKept DEF Abandon, store, history
<1>5. ASSUME UNCHANGED <<work, models, state, frontier>> PROVE FrontierInv'
  BY <1>1, <1>5, StillKeeps, FrontierKept
<1>6. CASE RecoverRuns
  <2>1. UNCHANGED <<work, models>>
    BY <1>6 DEF RecoverRuns
  <2>2. \A r \in Runs : \/ frontier'[r] = Begun(r)
                        \/ frontier'[r] = frontier[r] /\ state'[r] = state[r]
    BY <1>6 DEF RecoverRuns
  <2>. QED  BY <1>1, <2>1, <2>2, FrontierKept
<1>7. (\E r \in Runs : LeaseExpires(r)) \/ UNCHANGED vars
         => UNCHANGED <<work, models, state, frontier>>
  BY DEF LeaseExpires, vars, store, history
<1>8. Restart => FrontierInv'
  BY RestartInits, FrontierInit, PTL
<1>. QED
  BY <1>2, <1>3, <1>4, <1>5, <1>6, <1>7, <1>8, FrontierClaim, FrontierExecute
     DEF Next, Uninterrupted, Pausing, Failing, WorkerStep

(* A room that was stopped, paused, swept or failed gets no model turn     *)
(* beyond the step its worker was in at that moment: the two heartbeats of *)
(* an iteration are enough to keep a revoked worker from starting another  *)
(* step (loop.go:114, loop.go:187).                                        *)
THEOREM RevokedRoomsStop == Spec => []RevokedRoomStops
<1>1. Spec => []Base
  BY RoomTypeCorrect DEF Base
<1>2. FrontierInv /\ Base /\ [Next]_vars => FrontierInv'
  BY FrontierNext
<1>3. Spec => []FrontierInv
  BY <1>1, <1>2, FrontierInit, PTL DEF Spec
<1>4. FrontierInv => RevokedRoomStops
  BY DEF FrontierInv, RevokedRoomStops, Begun
<1>. QED  BY <1>3, <1>4, PTL
=============================================================================
