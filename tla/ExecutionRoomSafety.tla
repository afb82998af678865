------------------------- MODULE ExecutionRoomSafety -------------------------
(***************************************************************************)
(* Who is inside an execution room, what replay repeats and which calls    *)
(* are left unrun, for every number of rooms, workers, steps    *)
(* and calls; and that on SQLite, whose one connection makes the claim     *)
(* transaction a single step, execution rooms implement RoomAdmission, and *)
(* so never exceed the slots of a workspace or of the system.              *)
(***************************************************************************)
EXTENDS ExecutionRoomProofs

-----------------------------------------------------------------------------
(* Claiming.                                                               *)

(* A claim in progress holds a queued room alone, and a room that is not   *)
(* claimed has nobody inside, unless a user continued it under its worker. *)
ClaimInv ==
    /\ SoleExecutor
    /\ \A r \in Runs \ revived :
          state[r] \in {"absent", "queued"} => Executors(r) = {}
    /\ \A v \in Workers : work[v].pc \in Claiming =>
          /\ state[work[v].run] = "queued"
          /\ \A w \in Workers :
                work[w].pc \in Claiming /\ work[w].run = work[v].run => v = w

(* Statements by which no worker enters a room or a claim: a locked room   *)
(* stays queued, and a room goes back to the queue only empty or revived.  *)
LEMMA NoEntry ==
    ASSUME Base, ClaimInv, revived \subseteq revived',
           \A v \in Workers : work'[v].pc \in Executing =>
              work[v].pc \in Executing /\ work'[v].run = work[v].run,
           \A v \in Workers : work'[v].pc \in Claiming =>
              work[v].pc \in Claiming /\ work'[v].run = work[v].run,
           \A r \in Runs : state'[r] \in {"absent", "queued"} =>
              \/ state[r] \in {"absent", "queued"}
              \/ Executors(r) = {}
              \/ r \in revived',
           \A r \in Runs : Locked(r) /\ state[r] = "queued" => state'[r] = "queued"
    PROVE  ClaimInv'
<1>1. \A r \in Runs : Executors(r)' \subseteq Executors(r)
  BY DEF Executors
<1>2. SoleExecutor'
  BY <1>1 DEF ClaimInv, SoleExecutor
<1>3. \A r \in Runs \ revived' : state'[r] \in {"absent", "queued"} => Executors(r)' = {}
  BY <1>1 DEF ClaimInv
<1>4. ASSUME NEW v \in Workers, work'[v].pc \in Claiming
      PROVE  /\ state'[work'[v].run] = "queued"
             /\ \A w \in Workers :
                   work'[w].pc \in Claiming /\ work'[w].run = work'[v].run => v = w
  <2>1. work[v].pc \in Claiming /\ work'[v].run = work[v].run
    BY <1>4
  <2>2. work[v].run \in Runs
    BY <2>1, BusyWorker DEF Base, Claiming, Room
  <2>3. Locked(work[v].run)
    BY <2>1 DEF Locked
  <2>. QED  BY <2>1, <2>2, <2>3 DEF ClaimInv
<1>. QED  BY <1>2, <1>3, <1>4 DEF ClaimInv

(* A worker that stays in its room or leaves it enters none. *)
LEMMA StaysOrLeaves ==
    ASSUME Base, NEW w \in Workers, NEW x, Become(w, x),
           x.pc = "idle" \/ (/\ x.run = work[w].run
                             /\ x.pc \in Executing => work[w].pc \in Executing
                             /\ x.pc \in Claiming => work[w].pc \in Claiming)
    PROVE  \A v \in Workers :
              /\ work'[v].pc \in Executing =>
                    work[v].pc \in Executing /\ work'[v].run = work[v].run
              /\ work'[v].pc \in Claiming =>
                    work[v].pc \in Claiming /\ work'[v].run = work[v].run
BY OthersStay DEF Base, Executing, Claiming

(* What the claim transaction does: nobody else can be in the room. *)
LEMMA MarkRunningAlone ==
    ASSUME Base, ClaimInv, NEW w \in Workers, NEW r \in Runs,
           state[r] = "queued", MarkRunning(w, r),
           \A v \in Workers : work[v].pc \in Claiming /\ work[v].run = r => v = w,
           work[w].pc \notin Executing
    PROVE  ClaimInv'
<1>. DEFINE x == [Idle EXCEPT !.pc = "claimed", !.run = r]
<1>1. x.pc = "claimed" /\ x.run = r
  BY DEF Idle
<1>2. /\ Become(w, x) /\ UNCHANGED revived
      /\ \A q \in Runs : state'[q] = IF q = r THEN "running" ELSE state[q]
  BY DEF MarkRunning, Base, TypeOK
<1>3. \A v \in Workers : work'[v] = IF v = w THEN x ELSE work[v]
  BY <1>2, OthersStay DEF Base
<1>. HIDE DEF x
<1>4. \A q \in Runs : Executors(q)' = IF q = r THEN Executors(q) \cup {w}
                                             ELSE Executors(q)
  BY <1>1, <1>3 DEF Executors, Executing
<1>5. r \notin revived => Executors(r) = {}
  BY DEF ClaimInv
<1>6. SoleExecutor'
  BY <1>2, <1>4, <1>5 DEF ClaimInv, SoleExecutor
<1>7. \A q \in Runs \ revived' : state'[q] \in {"absent", "queued"} => Executors(q)' = {}
  BY <1>2, <1>4 DEF ClaimInv
<1>8. ASSUME NEW v \in Workers, work'[v].pc \in Claiming
      PROVE  /\ state'[work'[v].run] = "queued"
             /\ \A u \in Workers :
                   work'[u].pc \in Claiming /\ work'[u].run = work'[v].run => v = u
  <2>1. v # w /\ work[v].pc \in Claiming /\ work'[v] = work[v]
    BY <1>1, <1>3, <1>8 DEF Claiming
  <2>2. work[v].run # r /\ work[v].run \in Runs
    BY <2>1, BusyWorker DEF Base, Claiming, Room
  <2>3. \A u \in Workers : work'[u].pc \in Claiming => work'[u] = work[u]
    BY <1>1, <1>3 DEF Claiming
  <2>. QED  BY <1>2, <2>1, <2>2, <2>3 DEF ClaimInv
<1>. QED  BY <1>6, <1>7, <1>8 DEF ClaimInv

LEMMA ClaimClaim ==
    ASSUME Base, ClaimInv, NEW w \in Workers, Claim(w)
    PROVE  ClaimInv'
<1>1. CASE ClaimSerialized(w)
  <2>1. PICK r \in Candidates : MarkRunning(w, r)
    BY <1>1 DEF ClaimSerialized
  <2>2. r \in Runs /\ state[r] = "queued" /\ ~Locked(r)
    BY <2>1 DEF Candidates, InState
  <2>3. work[w].pc \notin Executing
    BY <1>1 DEF ClaimSerialized, Executing
  <2>. QED  BY <2>1, <2>2, <2>3, MarkRunningAlone DEF Locked
<1>2. CASE PickCandidate(w)
  <2>1. PICK r \in Candidates : Become(w, [Idle EXCEPT !.pc = "picked", !.run = r])
    BY <1>2 DEF PickCandidate
  <2>2. r \in Runs /\ state[r] = "queued" /\ ~Locked(r) /\ UNCHANGED <<state, revived>>
    BY <1>2, <2>1 DEF Candidates, InState, PickCandidate, store, history
  <2>. DEFINE x == [Idle EXCEPT !.pc = "picked", !.run = r]
  <2>3. x.pc = "picked" /\ x.run = r
    BY DEF Idle
  <2>4. \A v \in Workers : work'[v] = IF v = w THEN x ELSE work[v]
    BY <2>1, OthersStay DEF Base
  <2>. HIDE DEF x
  <2>5. \A q \in Runs : Executors(q)' \subseteq Executors(q)
    BY <2>3, <2>4 DEF Executors, Executing
  <2>6. ASSUME NEW v \in Workers, work'[v].pc \in Claiming
        PROVE  /\ state'[work'[v].run] = "queued"
               /\ \A u \in Workers :
                     work'[u].pc \in Claiming /\ work'[u].run = work'[v].run => v = u
    BY <2>2, <2>3, <2>4, <2>6 DEF ClaimInv, Locked
  <2>. QED  BY <2>2, <2>5, <2>6 DEF ClaimInv, SoleExecutor
<1>3. CASE CountRuns(w)
  <2>1. PICK x : Become(w, x) /\ (x = Idle \/ x = [work[w] EXCEPT !.pc = "counted"])
    BY <1>3 DEF CountRuns, GoTo, LeaveRoom
  <2>2. x.pc = "idle" \/ (x.run = work[w].run /\ x.pc = "counted")
    BY <2>1 DEF Idle, Base, TypeOK, Work
  <2>3. work[w].pc \in Claiming /\ UNCHANGED <<state, revived>>
    BY <1>3 DEF CountRuns, Claiming, store, history
  <2>4. "counted" \notin Executing
    BY DEF Executing
  <2>. QED  BY <2>1, <2>2, <2>3, <2>4, StaysOrLeaves, NoEntry
<1>4. CASE CommitClaim(w)
  <2>1. /\ work[w].run \in Runs /\ work[w].pc \in Claiming
        /\ work[w].pc \notin Executing
    BY <1>4, BusyWorker DEF CommitClaim, Base, Room, Claiming, Executing
  <2>. QED  BY <1>4, <2>1, MarkRunningAlone DEF CommitClaim, ClaimInv
<1>. QED  BY <1>1, <1>2, <1>3, <1>4 DEF Claim

(* A worker inside a room stays in it or leaves. *)
LEMMA ExecuteStays ==
    ASSUME Base, NEW w \in Workers, Execute(w)
    PROVE  \E x : /\ Become(w, x)
                  /\ x.pc = "idle" \/ (x.run = work[w].run /\ x.pc \in Executing)
<1>w. work[w] \in Work
  BY WorkerRecord DEF Base
<1>0. Idle.pc = "idle"
  BY DEF Idle
<1>1. CASE \/ ShellFactoryFails(w) \/ ReachMaxSteps(w) \/ ModelFails(w)
           \/ StopRoom(w) \/ ShellFails(w)
  BY <1>0, <1>1 DEF ShellFactoryFails, ReachMaxSteps, ModelFails, StopRoom,
                    ShellFails, LeaveRoom
<1>2. CASE LoadSteps(w)
  <2>1. PICK journal : Become(w, [work[w] EXCEPT !.pc = "loop", !.done = journal])
    BY <1>2 DEF LoadSteps
  <2>2. LET y == [work[w] EXCEPT !.pc = "loop", !.done = journal]
        IN  y.run = work[w].run /\ y.pc = "loop"
    BY <1>w DEF Work
  <2>. QED  BY <2>1, <2>2 DEF Executing
<1>3. CASE BeginStep(w) \/ (\E n \in 0..MaxCalls : ModelStops(w, n)) \/ RecordShell(w)
  <2>1. LeaveRoom(w) \/ \E l \in Executing : Become(w, [work[w] EXCEPT !.pc = l])
    BY <1>3 DEF BeginStep, TouchRunLease, ModelStops, RecordShell, GoTo, Executing
  <2>2. \A l : LET y == [work[w] EXCEPT !.pc = l] IN y.run = work[w].run /\ y.pc = l
    BY <1>w DEF Work
  <2>. QED  BY <1>0, <2>1, <2>2 DEF LeaveRoom
<1>4. ASSUME NEW n \in 0..MaxCalls, ModelAsks(w, n)
      PROVE  \E y : Become(w, y) /\ y.run = work[w].run /\ y.pc \in Executing
  <2>. DEFINE asked == IF <<"shell", Step(w)>> \in work[w].done THEN 0 ELSE n
              l == IF asked = 0 THEN "memory" ELSE "shell"
              y == [work[w] EXCEPT !.pc = l, !.asked = asked, !.call = 0]
  <2>1. Become(w, y)
    BY <1>4 DEF ModelAsks
  <2>2. l \in Executing
    BY DEF Executing
  <2>. HIDE DEF asked, l
  <2>3. y.run = work[w].run /\ y.pc = l
    BY <1>w DEF Work
  <2>. HIDE DEF y
  <2>. QED  BY <2>1, <2>2, <2>3
<1>5. CASE RunShell(w)
  <2>. DEFINE y == [work[w] EXCEPT !.pc = "journal", !.call = @ + 1]
  <2>1. Become(w, y) /\ y.run = work[w].run /\ y.pc = "journal"
    BY <1>w, <1>5 DEF RunShell, Work
  <2>. HIDE DEF y
  <2>. QED  BY <2>1 DEF Executing
<1>6. CASE SaveWorkMemory(w) \/ EndStep(w)
  <2>1. \/ LeaveRoom(w)
        \/ Become(w, [work[w] EXCEPT !.pc = "touch", !.version = work[w].version + 1])
        \/ Become(w, [work[w] EXCEPT !.pc = "loop", !.step = @ + 1,
                                     !.call = 0, !.asked = 0])
    BY <1>6 DEF SaveWorkMemory, EndStep, TouchRunLease
  <2>2. LET y == [work[w] EXCEPT !.pc = "touch", !.version = work[w].version + 1]
        IN  y.run = work[w].run /\ y.pc = "touch"
    BY <1>w DEF Work
  <2>3. LET y == [work[w] EXCEPT !.pc = "loop", !.step = @ + 1, !.call = 0, !.asked = 0]
        IN  y.run = work[w].run /\ y.pc = "loop"
    BY <1>w DEF Work
  <2>. QED  BY <1>0, <2>1, <2>2, <2>3 DEF LeaveRoom, Executing
<1>. QED  BY <1>1, <1>2, <1>3, <1>4, <1>5, <1>6 DEF Execute

LEMMA ExecuteInside ==
    ASSUME NEW w \in Workers, Execute(w)
    PROVE  /\ work[w].pc \in Executing
           /\ UNCHANGED revived
           /\ \/ UNCHANGED state
              \/ FailRun(Room(w))
              \/ state[Room(w)] = "running" /\ MoveTo(Room(w), "completed")
BY DEF Execute, At, LoadSteps, ShellFactoryFails, BeginStep, ReachMaxSteps,
       ModelStops, ModelAsks, ModelFails, StopRoom, CompleteRun, RunShell,
       ShellFails, RecordShell, SaveWorkMemory, EndStep, store, history, Executing

(* Inside a room nobody queues one, and FailRun waits for a lock. *)
LEMMA ClaimExecute ==
    ASSUME Base, ClaimInv, NEW w \in Workers, Execute(w)
    PROVE  ClaimInv'
<1>1. PICK x : Become(w, x) /\ (x.pc = "idle" \/ (x.run = work[w].run /\ x.pc \in Executing))
  BY ExecuteStays
<1>2. /\ work[w].pc \in Executing
      /\ UNCHANGED revived
      /\ \/ UNCHANGED state
         \/ FailRun(Room(w))
         \/ state[Room(w)] = "running" /\ MoveTo(Room(w), "completed")
  BY ExecuteInside
<1>3. Room(w) \in Runs
  BY <1>2, Inside DEF Room
<1>4. \A r \in Runs : state'[r] \in {"absent", "queued"} => state[r] \in {"absent", "queued"}
  BY <1>2, <1>3 DEF FailRun, MoveTo, Base, TypeOK
<1>5. \A r \in Runs : Locked(r) /\ state[r] = "queued" => state'[r] = "queued"
  BY <1>2, <1>3 DEF FailRun, MoveTo, Base, TypeOK
<1>6. "idle" \notin Executing /\ \A l \in Executing : l \notin Claiming
  BY DEF Executing, Claiming
<1>. QED  BY <1>1, <1>2, <1>4, <1>5, <1>6, StaysOrLeaves, NoEntry

LEMMA ClaimInit == Init => ClaimInv
<1>. SUFFICES ASSUME Init PROVE ClaimInv
  OBVIOUS
<1>1. \A w \in Workers : work[w].pc = "idle"
  BY DEF Init, Idle
<1>2. \A r \in Runs : Executors(r) = {}
  BY <1>1 DEF Executors, Executing
<1>. QED  BY <1>1, <1>2 DEF ClaimInv, SoleExecutor, Claiming

LEMMA ClaimNext ==
    ASSUME Base, ClaimInv, [Next]_vars
    PROVE  ClaimInv'
<1>1. ASSUME NEW r \in Runs, EnqueueRun(r) PROVE ClaimInv'
  <2>1. UNCHANGED <<work, revived>>
    BY <1>1 DEF EnqueueRun, history
  <2>2. \A q \in Runs : IF q = r THEN state[q] = "absent" ELSE state'[q] = state[q]
    BY <1>1 DEF EnqueueRun, Base, TypeOK
  <2>. QED  BY <2>1, <2>2, NoEntry
<1>2. ASSUME NEW r \in Runs, CancelRun(r) \/ SetRunWaitingUser(r) PROVE ClaimInv'
  <2>1. UNCHANGED <<work, revived>> /\ ~Locked(r)
    BY <1>2 DEF CancelRun, SetRunWaitingUser
  <2>2. \A q \in Runs : IF q = r THEN state'[q] \in {"canceled", "waiting_user"}
                                 ELSE state'[q] = state[q]
    BY <1>2 DEF CancelRun, SetRunWaitingUser, MoveTo, Base, TypeOK
  <2>. QED  BY <2>1, <2>2, NoEntry
<1>3. ASSUME NEW r \in Runs, ContinueRun(r) PROVE ClaimInv'
  <2>1. /\ UNCHANGED work /\ revived \subseteq revived'
        /\ Executors(r) = {} \/ r \in revived'
    BY <1>3 DEF ContinueRun
  <2>2. \A q \in Runs : IF q = r THEN state'[q] = "queued" ELSE state'[q] = state[q]
    BY <1>3 DEF ContinueRun, Base, TypeOK
  <2>. QED  BY <2>1, <2>2, NoEntry
<1>4. ASSUME NEW w \in Workers, Abandon(w) PROVE ClaimInv'
  <2>1. Become(w, Idle) /\ Idle.pc = "idle" /\ UNCHANGED <<state, revived>>
    BY <1>4 DEF Abandon, LeaveRoom, Idle, store, history
  <2>. QED  BY <2>1, StaysOrLeaves, NoEntry
<1>5. ASSUME UNCHANGED <<work, state, revived>> PROVE ClaimInv'
  BY <1>5, NoEntry
<1>6. CASE RecoverRuns
  <2>1. UNCHANGED <<work, revived>>
    BY <1>6 DEF RecoverRuns
  <2>2. \A q \in Runs : \/ state'[q] = state[q]
                        \/ state[q] = "running" /\ state'[q] = "failed"
    BY <1>6 DEF RecoverRuns, InState
  <2>. QED  BY <2>1, <2>2, NoEntry
<1>7. (\E r \in Runs : LeaseExpires(r)) \/ UNCHANGED vars
         => UNCHANGED <<work, state, revived>>
  BY DEF LeaseExpires, vars, store, history
<1>8. Restart => ClaimInv'
  BY RestartInits, ClaimInit, PTL
<1>. QED
  BY <1>1, <1>2, <1>3, <1>4, <1>5, <1>6, <1>7, <1>8, ClaimClaim, ClaimExecute
     DEF Next, Uninterrupted, Pausing, Failing, WorkerStep

LEMMA ClaimInvariant == Spec => []ClaimInv
<1>1. Spec => []Base
  BY RoomTypeCorrect DEF Base
<1>2. ClaimInv /\ Base /\ [Next]_vars => ClaimInv'
  BY ClaimNext
<1>. QED  BY <1>1, <1>2, ClaimInit, PTL DEF Spec

(* Claims, interleaved or not, errors and sweeps never put two workers     *)
(* into one room: only a room continued under its worker can have two      *)
(* (run_worker.go:41-58, loop.go:11-13).                                   *)
THEOREM ClaimsAreExclusive == Spec => []SoleExecutor
<1>1. ClaimInv => SoleExecutor
  BY DEF ClaimInv
<1>. QED  BY <1>1, ClaimInvariant, PTL
-----------------------------------------------------------------------------
(* Replay.                                                                 *)

(* Whatever the journal M of its room holds, a worker past RunSteps has in *)
(* its done map or has put there itself.                                   *)
Covers(x, M) ==
    x.pc \in Executing \ {"claimed"} =>
        /\ \A k \in M[x.run] : \/ <<"step", k>> \in x.done
                               \/ k < x.step
                               \/ k = x.step /\ x.pc \in Recorded
        /\ x.pc = "model" => <<"step", x.step>> \notin x.done

(* The rooms that may meet a worker nobody expected: none where there is   *)
(* one worker, and otherwise those a user continued under theirs.          *)
OneWorker == \A v, w \in Workers : v = w
Doubtful  == IF OneWorker THEN {} ELSE revived

ReplayInv ==
    /\ repeated \subseteq Doubtful
    /\ \A w \in Workers : work[w].run \notin Doubtful => Covers(work[w], models)

LEMMA DoubtStays ==
    /\ revived \subseteq revived' => Doubtful \subseteq Doubtful'
    /\ UNCHANGED revived => UNCHANGED Doubtful
BY DEF Doubtful, OneWorker

(* No turn is taken: only the worker that moves can lose its cover. *)
LEMMA ReplayMove ==
    ASSUME Base, ReplayInv, UNCHANGED <<models, repeated>>, revived \subseteq revived',
           NEW w \in Workers, NEW x, Become(w, x), x.run \notin Doubtful => Covers(x, models)
    PROVE  ReplayInv'
<1>1. \A v \in Workers : work'[v] = IF v = w THEN x ELSE work[v]
  BY OthersStay DEF Base
<1>2. \A v \in Workers : work'[v].run \notin Doubtful' => Covers(work'[v], models)
  BY <1>1, DoubtStays DEF ReplayInv
<1>3. (repeated \subseteq Doubtful)'
  BY DoubtStays DEF ReplayInv
<1>. QED  BY <1>2, <1>3 DEF ReplayInv, Covers

LEMMA ReplayStill ==
    ASSUME ReplayInv, UNCHANGED <<models, repeated, work>>, revived \subseteq revived'
    PROVE  ReplayInv'
BY DoubtStays DEF ReplayInv, Covers

LEMMA ReplayOutside ==
    ASSUME Base, ReplayInv, UNCHANGED <<models, repeated>>, revived \subseteq revived',
           NEW w \in Workers, NEW x, Become(w, x), x.pc \notin Executing \ {"claimed"}
    PROVE  ReplayInv'
<1>1. Covers(x, models)
  BY DEF Covers
<1>. QED  BY <1>1, ReplayMove

LEMMA ReplayLeave ==
    ASSUME Base, ReplayInv, UNCHANGED <<models, repeated, revived>>,
           NEW w \in Workers, LeaveRoom(w)
    PROVE  ReplayInv'
<1>1. Idle.pc \notin Executing
  BY DEF Idle, Executing
<1>. QED  BY <1>1, ReplayOutside DEF LeaveRoom

(* The turn of a room nobody continued under its worker is new, and nobody *)
(* else is in the room to be surprised by it.                              *)
LEMMA ReplayTurn ==
    ASSUME Base, ClaimInv, ReplayInv, UNCHANGED revived,
           NEW w \in Workers, At(w, "model"), RecordTurn(w), NEW x, Become(w, x),
           x.run = work[w].run, x.step = work[w].step, x.done = work[w].done,
           x.pc \in Recorded
    PROVE  ReplayInv'
<1>1. /\ Room(w) \in Runs /\ Step(w) \in Steps
      /\ work[w].pc \in Executing \ {"claimed"} /\ work[w].pc \notin Recorded
  BY Inside DEF At, Executing, InStep, Recorded, Room, Step
<1>2. Room(w) \notin Doubtful => Covers(work[w], models)
  BY DEF ReplayInv, Room
<1>3. Room(w) \notin Doubtful => Step(w) \notin models[Room(w)]
  BY <1>1, <1>2 DEF Covers, At, Room, Step, Steps
<1>4. \A r \in Runs : models'[r] = IF r = Room(w) THEN models[r] \cup {Step(w)}
                                                ELSE models[r]
  BY <1>1 DEF RecordTurn, Base, TypeOK
<1>5. x.run \notin Doubtful => Covers(x, models')
  BY <1>1, <1>2, <1>4 DEF Covers, At, Room, Step
<1>6. ASSUME NEW v \in Workers, work'[v].run \notin Doubtful'
      PROVE  Covers(work'[v], models')
  <2>1. work'[v] = IF v = w THEN x ELSE work[v]
    BY OthersStay DEF Base
  <2>2. CASE v = w
    BY <1>5, <1>6, <2>1, <2>2, DoubtStays
  <2>3. CASE v # w
    <3>1. CASE work[v].pc \in Executing
      <4>1. work[v].run \in Runs
        BY <3>1, Inside
      <4>2. work[v].run # Room(w)
        BY <1>1, <1>6, <2>1, <2>3, <3>1, DoubtStays
           DEF ClaimInv, SoleExecutor, Executors, Room, Doubtful, OneWorker
      <4>3. Covers(work[v], models)
        BY <1>6, <2>1, <2>3, DoubtStays DEF ReplayInv
      <4>. QED  BY <1>4, <2>1, <2>3, <4>1, <4>2, <4>3 DEF Covers
    <3>2. CASE work[v].pc \notin Executing
      BY <2>1, <2>3, <3>2 DEF Covers
    <3>. QED  BY <3>1, <3>2
  <2>. QED  BY <2>2, <2>3
<1>7. (repeated \subseteq Doubtful)'
  BY <1>3, DoubtStays DEF RecordTurn, ReplayInv
<1>. QED  BY <1>6, <1>7 DEF ReplayInv, Covers

LEMMA ReplayClaim ==
    ASSUME Base, ReplayInv, NEW w \in Workers, Claim(w)
    PROVE  ReplayInv'
<1>1. ASSUME NEW r \in Runs, NEW l \in {"picked", "claimed"},
             Become(w, [Idle EXCEPT !.pc = l, !.run = r]),
             UNCHANGED <<models, repeated, revived>>
      PROVE  ReplayInv'
  <2>1. [Idle EXCEPT !.pc = l, !.run = r].pc \notin Executing \ {"claimed"}
    BY DEF Idle, Executing
  <2>. QED  BY <1>1, <2>1, ReplayOutside
<1>2. ASSUME NEW r \in Runs, MarkRunning(w, r) PROVE ReplayInv'
  BY <1>1, <1>2 DEF MarkRunning
<1>3. CASE ClaimSerialized(w)
  BY <1>2, <1>3 DEF ClaimSerialized, Candidates, InState
<1>4. CASE PickCandidate(w)
  BY <1>1, <1>4 DEF PickCandidate, Candidates, InState, store, history
<1>5. CASE CountRuns(w)
  <2>1. UNCHANGED <<models, repeated, revived>>
    BY <1>5 DEF CountRuns, store, history
  <2>2. [work[w] EXCEPT !.pc = "counted"].pc \notin Executing
    BY DEF Base, TypeOK, Work, Executing
  <2>. QED  BY <1>5, <2>1, <2>2, ReplayLeave, ReplayOutside DEF CountRuns, GoTo
<1>6. CASE CommitClaim(w)
  <2>1. work[w].run \in Runs
    BY <1>6, BusyWorker DEF CommitClaim, Base, Room
  <2>. QED  BY <1>2, <1>6, <2>1 DEF CommitClaim
<1>. QED  BY <1>3, <1>4, <1>5, <1>6 DEF Claim

LEMMA ReplayExecute ==
    ASSUME Base, ClaimInv, ReplayInv, NEW w \in Workers, Execute(w)
    PROVE  ReplayInv'
<1>w. work[w] \in Work
  BY WorkerRecord DEF Base
<1>c. work[w].run \notin Doubtful => Covers(work[w], models)
  BY DEF ReplayInv
<1>1. CASE LoadSteps(w)
  <2>. DEFINE journal == {<<"step", k>> : k \in models[Room(w)]}
                 \cup {<<"shell", k>> : k \in {j \in Steps : shells[Room(w)][j] # 0}}
              x == [work[w] EXCEPT !.pc = "loop", !.done = journal]
  <2>1. x.pc = "loop" /\ x.run = Room(w) /\ x.done = journal
    BY <1>w DEF Work, Room
  <2>2. \A k \in models[Room(w)] : <<"step", k>> \in journal
    OBVIOUS
  <2>3. Become(w, x) /\ UNCHANGED <<models, repeated, revived>>
    BY <1>1 DEF LoadSteps, store, history
  <2>4. Covers(x, models)
    <3>. HIDE DEF x, journal
    <3>. QED  BY <2>1, <2>2 DEF Covers
  <2>. HIDE DEF x
  <2>. QED  BY <2>3, <2>4, ReplayMove
<1>2. CASE ShellFactoryFails(w) \/ ReachMaxSteps(w) \/ ModelFails(w)
             \/ StopRoom(w) \/ ShellFails(w)
  BY <1>2, ReplayLeave
     DEF ShellFactoryFails, ReachMaxSteps, ModelFails, StopRoom, ShellFails
<1>3. CASE BeginStep(w)
  <2>0. UNCHANGED <<models, repeated, revived>>
    BY <1>3 DEF BeginStep, history
  <2>1. CASE LeaveRoom(w)
    BY <2>0, <2>1, ReplayLeave
  <2>2. CASE ~LeaveRoom(w)
    <3>1. PICK l \in {"memory", "model"} :
            /\ Become(w, [work[w] EXCEPT !.pc = l])
            /\ l = "model" => <<"step", Step(w)>> \notin work[w].done
      BY <1>3, <2>2 DEF BeginStep, TouchRunLease
    <3>. DEFINE x == [work[w] EXCEPT !.pc = l]
    <3>2. /\ x.pc = l /\ x.run = work[w].run /\ x.step = work[w].step
          /\ x.done = work[w].done
      BY <1>w DEF Work
    <3>3. work[w].pc \in Executing \ {"claimed"} /\ work[w].pc \notin Recorded
      BY <1>3 DEF BeginStep, At, Executing, Recorded
    <3>4. Become(w, x)
      BY <3>1
    <3>. HIDE DEF x
    <3>5. x.run \notin Doubtful => Covers(x, models)
      BY <1>c, <3>1, <3>2, <3>3 DEF Covers, Step
    <3>. QED  BY <2>0, <3>4, <3>5, ReplayMove
  <2>. QED  BY <2>1, <2>2
<1>4. ASSUME NEW n \in 0..MaxCalls, ModelStops(w, n) PROVE ReplayInv'
  <2>. DEFINE x == [work[w] EXCEPT !.pc = "complete"]
  <2>1. /\ x.run = work[w].run /\ x.step = work[w].step /\ x.done = work[w].done
        /\ x.pc \in Recorded
    BY <1>w DEF Work, Recorded
  <2>2. Become(w, x) /\ At(w, "model") /\ RecordTurn(w) /\ UNCHANGED revived
    BY <1>4 DEF ModelStops, GoTo
  <2>. HIDE DEF x
  <2>. QED  BY <2>1, <2>2, ReplayTurn
<1>5. ASSUME NEW n \in 0..MaxCalls, ModelAsks(w, n) PROVE ReplayInv'
  <2>. DEFINE asked == IF <<"shell", Step(w)>> \in work[w].done THEN 0 ELSE n
              l == IF asked = 0 THEN "memory" ELSE "shell"
              x == [work[w] EXCEPT !.pc = l, !.asked = asked, !.call = 0]
  <2>1. Become(w, x) /\ At(w, "model") /\ RecordTurn(w) /\ UNCHANGED revived
    BY <1>5 DEF ModelAsks
  <2>2. l \in Recorded
    BY DEF Recorded
  <2>. HIDE DEF asked, l
  <2>3. /\ x.run = work[w].run /\ x.step = work[w].step /\ x.done = work[w].done
        /\ x.pc = l
    BY <1>w DEF Work
  <2>. HIDE DEF x
  <2>. QED  BY <2>1, <2>2, <2>3, ReplayTurn
<1>6. ASSUME NEW x, Become(w, x), x.run = work[w].run, x.step = work[w].step,
             x.done = work[w].done, x.pc \in Recorded, work[w].pc \in Recorded,
             UNCHANGED <<models, repeated, revived>>
      PROVE  ReplayInv'
  <2>1. x.run \notin Doubtful => Covers(x, models)
    BY <1>6, <1>c DEF Covers, Recorded, Executing
  <2>. QED  BY <1>6, <2>1, ReplayMove
<1>7. CASE RunShell(w)
  <2>. DEFINE x == [work[w] EXCEPT !.pc = "journal", !.call = @ + 1]
  <2>1. /\ x.run = work[w].run /\ x.step = work[w].step /\ x.done = work[w].done
        /\ x.pc \in Recorded
    BY <1>w DEF Work, Recorded
  <2>2. /\ Become(w, x) /\ work[w].pc \in Recorded
        /\ UNCHANGED <<models, repeated, revived>>
    BY <1>7 DEF RunShell, At, Recorded, store
  <2>. HIDE DEF x
  <2>. QED  BY <1>6, <2>1, <2>2
<1>8. CASE RecordShell(w)
  <2>1. PICK l \in {"shell", "memory"} : Become(w, [work[w] EXCEPT !.pc = l])
    BY <1>8 DEF RecordShell, GoTo
  <2>. DEFINE x == [work[w] EXCEPT !.pc = l]
  <2>2. /\ x.run = work[w].run /\ x.step = work[w].step /\ x.done = work[w].done
        /\ x.pc \in Recorded
    BY <1>w DEF Work, Recorded
  <2>3. /\ Become(w, x) /\ work[w].pc \in Recorded
        /\ UNCHANGED <<models, repeated, revived>>
    BY <1>8, <2>1 DEF RecordShell, At, Recorded, history
  <2>. HIDE DEF x
  <2>. QED  BY <1>6, <2>2, <2>3
<1>9. CASE SaveWorkMemory(w)
  <2>0. work[w].pc \in Recorded /\ UNCHANGED <<models, repeated, revived>>
    BY <1>9 DEF SaveWorkMemory, At, Recorded, history
  <2>1. CASE LeaveRoom(w)
    BY <2>0, <2>1, ReplayLeave
  <2>2. CASE ~LeaveRoom(w)
    <3>. DEFINE x == [work[w] EXCEPT !.pc = "touch", !.version = work[w].version + 1]
    <3>1. Become(w, x)
      BY <1>9, <2>2 DEF SaveWorkMemory
    <3>2. /\ x.run = work[w].run /\ x.step = work[w].step /\ x.done = work[w].done
          /\ x.pc \in Recorded
      BY <1>w DEF Work, Recorded
    <3>. HIDE DEF x
    <3>. QED  BY <1>6, <2>0, <3>1, <3>2
  <2>. QED  BY <2>1, <2>2
<1>10. CASE EndStep(w)
  <2>0. /\ UNCHANGED <<models, repeated, revived>>
        /\ work[w].pc \in Executing \ {"claimed"}
    BY <1>10 DEF EndStep, At, Executing, history
  <2>1. CASE LeaveRoom(w)
    BY <2>0, <2>1, ReplayLeave
  <2>2. CASE ~LeaveRoom(w)
    <3>. DEFINE x == [work[w] EXCEPT !.pc = "loop", !.step = @ + 1,
                                     !.call = 0, !.asked = 0]
    <3>1. Become(w, x)
      BY <1>10, <2>2 DEF EndStep, TouchRunLease
    <3>2. /\ x.run = work[w].run /\ x.step = work[w].step + 1
          /\ x.done = work[w].done /\ x.pc = "loop"
      BY <1>w DEF Work
    <3>. HIDE DEF x
    <3>3. x.run \notin Doubtful => Covers(x, models)
      <4>1. SUFFICES ASSUME x.run \notin Doubtful, NEW k \in models[x.run]
                     PROVE  <<"step", k>> \in x.done \/ k < x.step
        BY <3>2 DEF Covers
      <4>2. work[w].run \in Runs /\ work[w].step \in Nat
        BY <2>0, Inside, RoomAssumption
      <4>3. k \in Nat
        BY <3>2, <4>1, <4>2, RoomAssumption DEF Base, TypeOK, Steps
      <4>4. <<"step", k>> \in work[w].done \/ k < work[w].step \/ k = work[w].step
        BY <1>c, <2>0, <3>2, <4>1 DEF Covers
      <4>. QED  BY <3>2, <4>2, <4>3, <4>4
    <3>. QED  BY <2>0, <3>1, <3>3, ReplayMove
  <2>. QED  BY <2>1, <2>2
<1>. QED
  BY <1>1, <1>2, <1>3, <1>4, <1>5, <1>7, <1>8, <1>9, <1>10 DEF Execute

LEMMA ReplayInit == Init => ReplayInv
BY DEF Init, ReplayInv, Covers, Idle, Executing

LEMMA ReplayNext ==
    ASSUME Base, ClaimInv, ReplayInv, [Next]_vars
    PROVE  ReplayInv'
<1>1. ASSUME NEW r \in Runs,
             EnqueueRun(r) \/ CancelRun(r) \/ SetRunWaitingUser(r) \/ ContinueRun(r)
               \/ LeaseExpires(r)
      PROVE  ReplayInv'
  BY <1>1, ReplayStill
     DEF EnqueueRun, CancelRun, SetRunWaitingUser, ContinueRun, LeaseExpires, history
<1>2. ASSUME NEW w \in Workers, Abandon(w) PROVE ReplayInv'
  BY <1>2, ReplayLeave DEF Abandon, store, history
<1>3. RecoverRuns \/ UNCHANGED vars => ReplayInv'
  BY ReplayStill DEF RecoverRuns, vars, store, history
<1>4. Restart => ReplayInv'
  BY RestartInits, ReplayInit, PTL
<1>. QED
  BY <1>1, <1>2, <1>3, <1>4, ReplayClaim, ReplayExecute
     DEF Next, Uninterrupted, Pausing, Failing, WorkerStep

LEMMA ReplayInvariant == Spec => []ReplayInv
<1>1. Spec => []Base
  BY RoomTypeCorrect DEF Base
<1>2. ReplayInv /\ ClaimInv /\ Base /\ [Next]_vars => ReplayInv'
  BY ReplayNext
<1>. QED  BY <1>1, <1>2, ClaimInvariant, ReplayInit, PTL DEF Spec

(* However often a room is given up and claimed again, no step of it gets  *)
(* a second model answer, unless a user continued the room while a worker  *)
(* was inside (loop.go:86-95, loop.go:117-118).                            *)
THEOREM ReplayTakesNoTurnTwice == Spec => []ReplayOnce
<1>1. ReplayInv => ReplayOnce
  BY DEF ReplayInv, ReplayOnce, Doubtful
<1>. QED  BY <1>1, ReplayInvariant, PTL

(* With one worker there is no exception: a room continued under it waits  *)
(* until it leaves, and the next claim reads the whole journal, so that no *)
(* step of any room gets a second model answer (runs.go:269-270,           *)
(* loop.go:86-95). The program starts one worker (run.go:344).             *)
THEOREM OneWorkerRepeatsNothing == OneWorker => (Spec => []NoStepTwice)
<1>. SUFFICES ASSUME OneWorker PROVE Spec => []NoStepTwice
  OBVIOUS
<1>1. ReplayInv => NoStepTwice
  BY DEF ReplayInv, NoStepTwice, Doubtful
<1>. QED  BY <1>1, ReplayInvariant, PTL
-----------------------------------------------------------------------------
(* Calls that are left unrun.                                              *)

(* A worker owes its room the calls of the step in hand that have not run, *)
(* and no room anything else.                                              *)
Due(x, r) == IF x.run = r THEN CallsLeft(x) ELSE 0

DueInv ==
    /\ \A w \in Workers : work[w].pc = "journal" => work[w].call <= work[w].asked
    /\ \A w \in Workers : \A r \in Runs \ forsaken : owed[w][r] = Due(work[w], r)

(* Worker w owes its room n calls more, and the other ledgers stand.       *)
Charged(w, n) ==
    \A v \in Workers : \A r \in Runs :
        owed'[v][r] = IF v = w /\ r = Room(w) THEN owed[v][r] + n ELSE owed[v][r]

LEMMA OweCharges ==
    ASSUME Base, NEW w \in Workers, Room(w) \in Runs, NEW n \in Int, Owe(w, n)
    PROVE  Charged(w, n)
<1>1. \A v \in Workers : owed[v] \in [Runs -> Int]
  BY DEF Base, TypeOK
<1>2. owed' = [owed EXCEPT ![w] = [owed[w] EXCEPT ![Room(w)] = @ + n]]
  BY DEF Owe
<1>3. \A v \in Workers : owed'[v] = IF v = w THEN [owed[w] EXCEPT ![Room(w)] = @ + n]
                                             ELSE owed[v]
  BY <1>2 DEF Base, TypeOK
<1>. QED  BY <1>1, <1>3 DEF Charged

LEMMA NothingCharged ==
    ASSUME Base, NEW w \in Workers, UNCHANGED owed
    PROVE  Charged(w, 0)
<1>1. \A v \in Workers : \A r \in Runs : owed[v][r] \in Int
  BY DEF Base, TypeOK
<1>. QED  BY <1>1 DEF Charged

(* What a worker is charged is what its step adds to the calls it has left,*)
(* unless its room is forsaken.                                            *)
LEMMA DueMoves ==
    ASSUME Base, DueInv, NEW w \in Workers, NEW n \in Int, Charged(w, n),
           forsaken \subseteq forsaken', NEW x, Become(w, x),
           x.pc = "journal" => x.call <= x.asked,
           x.run = Room(w) \/ CallsLeft(x) = 0,
           Room(w) \in forsaken' \/ CallsLeft(x) = CallsLeft(work[w]) + n
    PROVE  DueInv'
<1>1. \A v \in Workers : work'[v] = IF v = w THEN x ELSE work[v]
  BY OthersStay DEF Base
<1>2. ASSUME NEW v \in Workers, NEW r \in Runs \ forsaken'
      PROVE  owed'[v][r] = Due(work'[v], r)
  <2>1. owed[v][r] = Due(work[v], r)
    BY <1>2 DEF DueInv
  <2>2. CASE v # w
    BY <1>1, <2>1, <2>2 DEF Charged
  <2>3. CASE v = w /\ r # Room(w)
    <3>1. owed'[v][r] = 0 /\ work'[v] = x
      BY <1>1, <2>1, <2>3 DEF Charged, Due, Room
    <3>. QED  BY <2>3, <3>1 DEF Due
  <2>4. CASE v = w /\ r = Room(w)
    <3>1. owed'[v][r] = CallsLeft(work[w]) + n /\ work'[v] = x
      BY <1>1, <2>1, <2>4 DEF Charged, Due, Room
    <3>. QED  BY <1>2, <2>4, <3>1 DEF Due
  <2>. QED  BY <2>2, <2>3, <2>4
<1>3. \A v \in Workers : work'[v].pc = "journal" => work'[v].call <= work'[v].asked
  BY <1>1 DEF DueInv
<1>4. \A v \in Workers : \A r \in Runs \ forsaken' : Due(work'[v], r) = Due(work[v], r)'
  BY DEF Due, CallsLeft
<1>. QED  BY <1>2, <1>3, <1>4 DEF DueInv

(* No ledger is touched, and the worker has as many calls left as before:  *)
(* none, where it leaves or changes its room.                              *)
LEMMA DueKeeps ==
    ASSUME Base, DueInv, NEW w \in Workers, UNCHANGED <<owed, forsaken>>,
           NEW x, Become(w, x), x.pc = "journal" => x.call <= x.asked,
           x.run = Room(w) \/ CallsLeft(x) = 0,
           CallsLeft(x) = CallsLeft(work[w])
    PROVE  DueInv'
<1>1. work[w].asked \in Int /\ work[w].call \in Int
  BY WorkerRecord, RoomAssumption DEF Base, Work
<1>2. CallsLeft(x) = CallsLeft(work[w]) + 0
  BY <1>1 DEF CallsLeft
<1>. QED  BY <1>2, NothingCharged, DueMoves

LEMMA DueLeaves ==
    ASSUME Base, DueInv, NEW w \in Workers, UNCHANGED <<owed, forsaken>>,
           LeaveRoom(w), CallsLeft(work[w]) = 0
    PROVE  DueInv'
<1>1. CallsLeft(Idle) = 0 /\ Idle.pc # "journal"
  BY DEF CallsLeft, Idle
<1>. QED  BY <1>1, DueKeeps DEF LeaveRoom

LEMMA DueExecute ==
    ASSUME Base, DueInv, NEW w \in Workers, Execute(w)
    PROVE  DueInv'
<1>w. work[w] \in Work /\ Fits(work[w]) /\ work[w].asked \in Int /\ work[w].call \in Int
  BY WorkerRecord, RoomAssumption DEF Base, Work
<1>r. Room(w) \in Runs /\ Room(w) = work[w].run
  BY ExecuteInside, Inside DEF Room
<1>1. CASE ShellFactoryFails(w) \/ ReachMaxSteps(w) \/ ModelFails(w) \/ StopRoom(w)
  <2>1. LeaveRoom(w) /\ UNCHANGED <<owed, forsaken>> /\ CallsLeft(work[w]) = 0
    BY <1>1 DEF ShellFactoryFails, ReachMaxSteps, ModelFails, StopRoom, At, CallsLeft
  <2>. QED  BY <2>1, DueLeaves
<1>2. CASE ShellFails(w)
  <2>. DEFINE n == work[w].call - work[w].asked
  <2>1. /\ Become(w, Idle) /\ UNCHANGED forsaken /\ Charged(w, n)
        /\ work[w].pc = "shell" /\ n \in Int
    BY <1>2, <1>r, <1>w, OweCharges DEF ShellFails, LeaveRoom, At
  <2>2. CallsLeft(Idle) = 0 /\ Idle.pc # "journal"
    BY DEF CallsLeft, Idle
  <2>3. CallsLeft(work[w]) + n = 0
    BY <1>w, <2>1 DEF CallsLeft
  <2>. HIDE DEF n
  <2>. QED  BY <2>1, <2>2, <2>3, DueMoves
<1>3. ASSUME NEW l \in Control \ {"journal"}, Become(w, [work[w] EXCEPT !.pc = l]),
             UNCHANGED <<owed, forsaken>>,
             (IF l = "shell" THEN work[w].asked - work[w].call ELSE 0) = CallsLeft(work[w])
      PROVE  DueInv'
  <2>. DEFINE x == [work[w] EXCEPT !.pc = l]
  <2>1. /\ x.pc = l /\ x.run = Room(w) /\ x.asked = work[w].asked
        /\ x.call = work[w].call /\ Become(w, x)
    BY <1>r, <1>w, <1>3 DEF Work
  <2>. HIDE DEF x
  <2>2. CallsLeft(x) = CallsLeft(work[w])
    BY <1>3, <2>1 DEF CallsLeft
  <2>. QED  BY <1>3, <2>1, <2>2, DueKeeps
<1>4. CASE LoadSteps(w)
  <2>1. PICK journal : Become(w, [work[w] EXCEPT !.pc = "loop", !.done = journal])
    BY <1>4 DEF LoadSteps
  <2>. DEFINE x == [work[w] EXCEPT !.pc = "loop", !.done = journal]
  <2>2. x.pc = "loop" /\ x.run = Room(w) /\ Become(w, x)
    BY <1>r, <1>w, <2>1 DEF Work
  <2>3. UNCHANGED <<owed, forsaken>> /\ work[w].pc = "claimed"
    BY <1>4 DEF LoadSteps, At, history
  <2>. HIDE DEF x
  <2>4. CallsLeft(x) = CallsLeft(work[w])
    BY <2>2, <2>3 DEF CallsLeft
  <2>. QED  BY <2>2, <2>3, <2>4, DueKeeps
<1>5. CASE BeginStep(w)
  <2>1. /\ UNCHANGED <<owed, forsaken>> /\ CallsLeft(work[w]) = 0
        /\ \/ LeaveRoom(w)
           \/ \E l \in {"memory", "model"} : Become(w, [work[w] EXCEPT !.pc = l])
    BY <1>5 DEF BeginStep, TouchRunLease, At, CallsLeft, history
  <2>2. {"memory", "model"} \subseteq Control \ {"journal"}
    BY DEF Control, Executing
  <2>. QED  BY <1>3, <2>1, <2>2, DueLeaves
<1>6. ASSUME NEW n \in 0..MaxCalls, ModelStops(w, n) PROVE DueInv'
  <2>. DEFINE x == [work[w] EXCEPT !.pc = "complete"]
  <2>1. x.pc = "complete" /\ x.run = Room(w)
    BY <1>r, <1>w DEF Work
  <2>2. /\ Become(w, x) /\ work[w].pc = "model" /\ Charged(w, n) /\ n \in Int
        /\ forsaken \subseteq forsaken'
        /\ Room(w) \in forsaken' \/ n = 0
    BY <1>6, <1>r, OweCharges, RoomAssumption DEF ModelStops, GoTo, At
  <2>. HIDE DEF x
  <2>3. Room(w) \in forsaken' \/ CallsLeft(x) = CallsLeft(work[w]) + n
    BY <2>1, <2>2 DEF CallsLeft
  <2>. QED  BY <2>1, <2>2, <2>3, DueMoves
<1>7. ASSUME NEW n \in 0..MaxCalls, ModelAsks(w, n) PROVE DueInv'
  <2>. DEFINE asked == IF <<"shell", Step(w)>> \in work[w].done THEN 0 ELSE n
              l == IF asked = 0 THEN "memory" ELSE "shell"
              x == [work[w] EXCEPT !.pc = l, !.asked = asked, !.call = 0]
  <2>1. /\ Become(w, x) /\ UNCHANGED forsaken /\ work[w].pc = "model"
        /\ Owe(w, asked)
    BY <1>7 DEF ModelAsks, At
  <2>2. asked \in Int /\ l \in {"memory", "shell"} /\ (l = "memory" => asked = 0)
    BY RoomAssumption
  <2>. HIDE DEF asked, l
  <2>3. x.pc = l /\ x.run = Room(w) /\ x.asked = asked /\ x.call = 0
    BY <1>r, <1>w DEF Work
  <2>. HIDE DEF x
  <2>4. CallsLeft(x) = CallsLeft(work[w]) + asked
    BY <2>1, <2>2, <2>3 DEF CallsLeft
  <2>5. Charged(w, asked)
    BY <1>r, <2>1, <2>2, OweCharges
  <2>. QED  BY <2>1, <2>2, <2>3, <2>4, <2>5, DueMoves
<1>8. CASE RunShell(w)
  <2>. DEFINE x == [work[w] EXCEPT !.pc = "journal", !.call = @ + 1]
  <2>1. /\ x.pc = "journal" /\ x.run = Room(w) /\ x.asked = work[w].asked
        /\ x.call = work[w].call + 1
    BY <1>r, <1>w DEF Work
  <2>2. /\ Become(w, x) /\ UNCHANGED forsaken /\ work[w].pc = "shell"
        /\ Charged(w, -1)
    BY <1>8, <1>r, OweCharges DEF RunShell, At
  <2>. HIDE DEF x
  <2>3. x.call <= x.asked /\ CallsLeft(x) = CallsLeft(work[w]) + (-1)
    BY <1>w, <2>1, <2>2 DEF CallsLeft, Fits
  <2>. QED  BY <2>1, <2>2, <2>3, DueMoves
<1>9. CASE RecordShell(w)
  <2>. DEFINE l == IF work[w].call < work[w].asked THEN "shell" ELSE "memory"
  <2>1. /\ Become(w, [work[w] EXCEPT !.pc = l]) /\ work[w].pc = "journal"
        /\ UNCHANGED <<owed, forsaken>>
    BY <1>9 DEF RecordShell, GoTo, At, history
  <2>2. (IF l = "shell" THEN work[w].asked - work[w].call ELSE 0) = CallsLeft(work[w])
    BY <1>w, <2>1 DEF CallsLeft, DueInv
  <2>3. l \in Control \ {"journal"}
    BY DEF Control, Executing
  <2>. QED  BY <1>3, <2>1, <2>2, <2>3
<1>10. CASE SaveWorkMemory(w)
  <2>0. UNCHANGED <<owed, forsaken>> /\ CallsLeft(work[w]) = 0
    BY <1>10 DEF SaveWorkMemory, At, history, CallsLeft
  <2>1. CASE LeaveRoom(w)
    BY <2>0, <2>1, DueLeaves
  <2>2. CASE ~LeaveRoom(w)
    <3>. DEFINE x == [work[w] EXCEPT !.pc = "touch", !.version = work[w].version + 1]
    <3>1. Become(w, x)
      BY <1>10, <2>2 DEF SaveWorkMemory
    <3>2. x.run = Room(w) /\ x.pc = "touch"
      BY <1>r, <1>w DEF Work
    <3>. HIDE DEF x
    <3>3. CallsLeft(x) = 0
      BY <3>2 DEF CallsLeft
    <3>. QED  BY <2>0, <3>1, <3>2, <3>3, DueKeeps
  <2>. QED  BY <2>1, <2>2
<1>11. CASE EndStep(w)
  <2>0. UNCHANGED <<owed, forsaken>> /\ CallsLeft(work[w]) = 0
    BY <1>11 DEF EndStep, At, history, CallsLeft
  <2>1. CASE LeaveRoom(w)
    BY <2>0, <2>1, DueLeaves
  <2>2. CASE ~LeaveRoom(w)
    <3>. DEFINE x == [work[w] EXCEPT !.pc = "loop", !.step = @ + 1,
                                     !.call = 0, !.asked = 0]
    <3>1. Become(w, x)
      BY <1>11, <2>2 DEF EndStep, TouchRunLease
    <3>2. x.run = Room(w) /\ x.pc = "loop"
      BY <1>r, <1>w DEF Work
    <3>. HIDE DEF x
    <3>3. CallsLeft(x) = 0
      BY <3>2 DEF CallsLeft
    <3>. QED  BY <2>0, <3>1, <3>2, <3>3, DueKeeps
  <2>. QED  BY <2>1, <2>2
<1>. QED
  BY <1>1, <1>2, <1>4, <1>5, <1>6, <1>7, <1>8, <1>9, <1>10, <1>11 DEF Execute

(* A worker that claims comes with nothing, and finds nothing to owe.      *)
LEMMA DueClaim ==
    ASSUME Base, DueInv, NEW w \in Workers, Claim(w)
    PROVE  DueInv'
<1>0. UNCHANGED <<owed, forsaken>> /\ CallsLeft(work[w]) = 0
  BY DEF Claim, ClaimSerialized, PickCandidate, CountRuns, CommitClaim, MarkRunning,
         history, CallsLeft
<1>1. ASSUME NEW x, Become(w, x), x.pc \notin {"shell", "journal"} PROVE DueInv'
  <2>1. CallsLeft(x) = 0
    BY <1>1 DEF CallsLeft
  <2>. QED  BY <1>0, <1>1, <2>1, DueKeeps
<1>2. \E x : Become(w, x) /\ x.pc \notin {"shell", "journal"}
  <2>1. CASE LeaveRoom(w)
    BY <2>1 DEF LeaveRoom, Idle
  <2>2. ASSUME NEW r, NEW l \in {"picked", "claimed"},
               Become(w, [Idle EXCEPT !.pc = l, !.run = r])
        PROVE  \E x : Become(w, x) /\ x.pc \notin {"shell", "journal"}
    <3>1. [Idle EXCEPT !.pc = l, !.run = r].pc = l
      BY DEF Idle
    <3>. QED  BY <2>2, <3>1
  <2>3. CASE GoTo(w, "counted")
    <3>1. [work[w] EXCEPT !.pc = "counted"].pc = "counted"
      BY WorkerRecord DEF Base, Work
    <3>. QED  BY <2>3, <3>1 DEF GoTo
  <2>4. \/ LeaveRoom(w) \/ GoTo(w, "counted")
        \/ \E r : \E l \in {"picked", "claimed"} : Become(w, [Idle EXCEPT !.pc = l, !.run = r])
    BY DEF Claim, ClaimSerialized, PickCandidate, CountRuns, CommitClaim, MarkRunning
  <2>. QED  BY <2>1, <2>2, <2>3, <2>4
<1>. QED  BY <1>1, <1>2

(* A worker that gives up with calls to run forsakes its room. *)
LEMMA DueAbandon ==
    ASSUME Base, DueInv, NEW w \in Workers, Abandon(w)
    PROVE  DueInv'
<1>1. CallsLeft(Idle) = 0 /\ Idle.pc # "journal"
  BY DEF CallsLeft, Idle
<1>2. /\ Become(w, Idle) /\ Charged(w, 0) /\ forsaken \subseteq forsaken'
      /\ Room(w) \in forsaken' \/ CallsLeft(work[w]) = 0
  BY NothingCharged DEF Abandon, LeaveRoom
<1>. QED  BY <1>1, <1>2, DueMoves

LEMMA DueInit == Init => DueInv
BY DEF Init, DueInv, Due, CallsLeft, Idle

LEMMA DueNext ==
    ASSUME Base, DueInv, [Next]_vars
    PROVE  DueInv'
<1>1. ASSUME UNCHANGED <<work, owed, forsaken>> PROVE DueInv'
  BY <1>1 DEF DueInv, Due, CallsLeft
<1>2. ASSUME NEW r \in Runs,
             EnqueueRun(r) \/ CancelRun(r) \/ SetRunWaitingUser(r) \/ ContinueRun(r)
               \/ LeaseExpires(r)
      PROVE  UNCHANGED <<work, owed, forsaken>>
  BY <1>2 DEF EnqueueRun, CancelRun, SetRunWaitingUser, ContinueRun, LeaseExpires, history
<1>3. RecoverRuns \/ UNCHANGED vars => UNCHANGED <<work, owed, forsaken>>
  BY DEF RecoverRuns, vars, history
<1>4. Restart => DueInv'
  BY RestartInits, DueInit, PTL
<1>. QED
  BY <1>1, <1>2, <1>3, <1>4, DueClaim, DueExecute, DueAbandon
     DEF Next, Uninterrupted, Pausing, Failing, WorkerStep

(* Once nobody is inside a room every call its model asked for has run or  *)
(* has failed the room: stops, pauses, continuations and sweeps between    *)
(* two calls, and workers that take the room over, leave none out.  What   *)
(* the code forsakes, a worker's error or a stopping answer that carries   *)
(* calls, is excepted (loop.go:156-183).                                   *)
THEOREM NoCallLeftOut == Spec => []CallsAreRun
<1>1. Spec => []Base
  BY RoomTypeCorrect DEF Base
<1>2. DueInv /\ Base /\ [Next]_vars => DueInv'
  BY DueNext
<1>3. DueInv => CallsAreRun
  BY DEF DueInv, CallsAreRun, Due, CallsLeft, Executors, Executing
<1>. QED  BY <1>1, <1>2, <1>3, DueInit, PTL DEF Spec
-----------------------------------------------------------------------------
(* Admission.                                                              *)

(* No worker is halfway through a claim. *)
ClaimsWhole == \A w \in Workers : work[w].pc \notin Claiming

-----------------------------------------------------------------------------
LEMMA ClaimsStayWhole ==
    ASSUME Serialized, Base, ClaimsWhole, [Next]_vars
    PROVE  ClaimsWhole'
<1>. SUFFICES ASSUME NEW v \in Workers, work'[v].pc \in Claiming PROVE FALSE
  BY DEF ClaimsWhole
<1>1. work[v].pc \notin Claiming
  BY DEF ClaimsWhole
<1>2. ASSUME UNCHANGED work PROVE FALSE
  BY <1>1, <1>2
<1>3. ASSUME NEW w \in Workers, NEW x, Become(w, x), x.pc \notin Claiming PROVE FALSE
  BY <1>1, <1>3, OthersStay DEF Base
<1>4. ASSUME NEW w \in Workers, Claim(w) PROVE FALSE
  <2>1. PICK r \in Runs : MarkRunning(w, r)
    BY <1>4 DEF Claim, ClaimSerialized, PickCandidate, CountRuns, CommitClaim,
                ClaimsWhole, Claiming, Candidates, InState
  <2>2. [Idle EXCEPT !.pc = "claimed", !.run = r].pc \notin Claiming
    BY DEF Idle, Claiming
  <2>. QED  BY <1>3, <2>1, <2>2 DEF MarkRunning
<1>5. Idle.pc \notin Claiming
  BY DEF Idle, Claiming
<1>6. ASSUME NEW w \in Workers, Execute(w) PROVE FALSE
  <2>1. PICK x : Become(w, x) /\ (x.pc = "idle" \/ x.pc \in Executing)
    BY <1>6, ExecuteStays DEF Base
  <2>. QED  BY <1>3, <2>1 DEF Executing, Claiming
<1>7. ASSUME Restart PROVE FALSE
  BY <1>5, <1>7 DEF Restart
<1>. QED
  BY <1>2, <1>3, <1>4, <1>5, <1>6, <1>7
     DEF Next, Uninterrupted, Pausing, Failing, WorkerStep, EnqueueRun, CancelRun,
         SetRunWaitingUser, ContinueRun, Abandon, LeaveRoom, LeaseExpires,
         RecoverRuns, vars

-----------------------------------------------------------------------------
LEMMA PhaseIs ==
    /\ Phase \in [Runs -> {"out", "waiting", "active"}]
    /\ \A r \in Runs : /\ Phase[r] = "waiting" <=> state[r] = "queued"
                       /\ Phase[r] = "active" <=> state[r] = "running"
                       /\ Phase[r] = "out" <=> state[r] \notin {"queued", "running"}
BY DEF Phase, PhaseOf

(* One room changes state. *)
LEMMA PhaseMoves ==
    ASSUME TypeOK, NEW r \in Runs, NEW s, state' = [state EXCEPT ![r] = s]
    PROVE  Phase' = [Phase EXCEPT ![r] = PhaseOf(s)]
BY DEF Phase, TypeOK

(* A room that is revoked, fails or completes leaves, or was outside. *)
LEMMA LeavesOrStays ==
    ASSUME TypeOK, NEW r \in Runs, NEW s, PhaseOf(s) = "out",
           state' = [state EXCEPT ![r] = s]
    PROVE  Admission!Leave(r) \/ Phase' = Phase
<1>1. Phase' = [Phase EXCEPT ![r] = "out"]
  BY PhaseMoves
<1>2. CASE state[r] \in {"queued", "running"}
  BY <1>1, <1>2, PhaseIs DEF Admission!Leave, Phase, PhaseOf
<1>3. CASE state[r] \notin {"queued", "running"}
  BY <1>1, <1>3, PhaseIs
<1>. QED  BY <1>2, <1>3

(* RoomAdmission counts with the operator this module counts with. *)
LEMMA SameCount == \A S : Admission!Cardinality(S) = Cardinality(S)
BY DEF Admission!Cardinality, Cardinality

(* A claim inside the limits is an admission. *)
LEMMA ClaimAdmits ==
    ASSUME TypeOK, NEW r \in Runs, state[r] = "queued", WithinLimits(r),
           state' = [state EXCEPT ![r] = "running"]
    PROVE  Admission!Admit(r)
<1>1. Phase' = [Phase EXCEPT ![r] = "active"]
  BY PhaseMoves DEF PhaseOf
<1>2. /\ Admission!Active = InState({"running"})
      /\ Admission!ActiveIn(WorkspaceOf[r]) = Here(r, {"running"})
  BY PhaseIs DEF Admission!Active, Admission!ActiveIn, InState, Here
<1>. QED  BY <1>1, <1>2, PhaseIs, SameCount DEF Admission!Admit, WithinLimits

LEMMA StepRefines ==
    ASSUME Serialized, Base, ClaimsWhole, [Next]_vars
    PROVE  [Admission!Next]_Phase
<1>0. TypeOK
  BY DEF Base
<1>1. ASSUME UNCHANGED state PROVE Phase' = Phase
  BY <1>1 DEF Phase
<1>2. ASSUME NEW r \in Runs, EnqueueRun(r) \/ ContinueRun(r)
      PROVE  Admission!Enter(r)
  <2>1. /\ state[r] \notin {"queued", "running"}
        /\ state' = [state EXCEPT ![r] = "queued"]
    BY <1>2 DEF EnqueueRun, ContinueRun
  <2>2. Phase' = [Phase EXCEPT ![r] = "waiting"]
    BY <1>0, <2>1, PhaseMoves DEF PhaseOf
  <2>. QED  BY <2>1, <2>2, PhaseIs DEF Admission!Enter
<1>3. ASSUME NEW r \in Runs, NEW s \in {"canceled", "waiting_user", "failed", "completed"},
             MoveTo(r, s)
      PROVE  Admission!Leave(r) \/ Phase' = Phase
  <2>1. PhaseOf(s) = "out"
    BY DEF PhaseOf
  <2>. QED  BY <1>0, <1>3, <2>1, LeavesOrStays DEF MoveTo
<1>4. ASSUME NEW r \in Runs, CancelRun(r) \/ SetRunWaitingUser(r)
      PROVE  Admission!Leave(r) \/ Phase' = Phase
  BY <1>3, <1>4 DEF CancelRun, SetRunWaitingUser
<1>5. ASSUME NEW w \in Workers, Claim(w) PROVE \E r \in Runs : Admission!Admit(r)
  <2>1. PICK r \in Candidates : WithinLimits(r) /\ MarkRunning(w, r)
    BY <1>5 DEF Claim, ClaimSerialized, PickCandidate, CountRuns, CommitClaim,
                ClaimsWhole, Claiming
  <2>. QED  BY <1>0, <2>1, ClaimAdmits DEF Candidates, InState, MarkRunning
<1>6. ASSUME NEW w \in Workers, Execute(w)
      PROVE  (\E r \in Runs : Admission!Leave(r)) \/ Phase' = Phase
  <2>1. Room(w) \in Runs
    BY <1>6, ExecuteInside, Inside DEF Room
  <2>. QED  BY <1>1, <1>3, <1>6, <2>1, ExecuteInside DEF FailRun
<1>7. ASSUME RecoverRuns PROVE \E R \in SUBSET Runs : Admission!Expire(R)
  <2>. DEFINE lost == {r \in InState({"running"}) : lease[r] = "expired"}
  <2>1. lost \subseteq Admission!Active
    BY PhaseIs DEF Admission!Active, InState
  <2>2. \A r \in Runs : state'[r] = IF r \in lost THEN "failed" ELSE state[r]
    BY <1>7 DEF RecoverRuns
  <2>3. Phase' = [r \in Runs |-> IF r \in lost THEN "out" ELSE Phase[r]]
    BY <2>2 DEF Phase, PhaseOf
  <2>4. lost \in SUBSET Runs
    BY DEF InState
  <2>. QED  BY <2>1, <2>3, <2>4 DEF Admission!Expire
<1>8. ASSUME NEW w \in Workers, Abandon(w) PROVE UNCHANGED state
  BY <1>8 DEF Abandon, store
<1>9. ASSUME NEW r \in Runs, LeaseExpires(r) PROVE UNCHANGED state
  BY <1>9 DEF LeaseExpires
<1>10. UNCHANGED vars => UNCHANGED state
  BY DEF vars, store
<1>11. Restart => Admission!Forget
  BY DEF Restart, Admission!Forget, Phase, PhaseOf
<1>. QED
  BY <1>1, <1>2, <1>4, <1>5, <1>6, <1>7, <1>8, <1>9, <1>10, <1>11
     DEF Next, Uninterrupted, Pausing, Failing, WorkerStep, Admission!Next

-----------------------------------------------------------------------------
(* On SQLite every behaviour of the execution rooms is one of              *)
(* RoomAdmission: what the claim transaction reads and writes is a fair    *)
(* admission into a free slot (run_worker.go:38-112, database.go:71).      *)
THEOREM RoomsImplementAdmission == Serialized => (Spec => AdmissionSpec)
<1>. SUFFICES ASSUME Serialized PROVE Spec => AdmissionSpec
  OBVIOUS
<1>1. Spec => []Base
  BY RoomTypeCorrect DEF Base
<1>2. Init => ClaimsWhole
  BY DEF Init, ClaimsWhole, Idle, Claiming
<1>3. Base /\ ClaimsWhole /\ [Next]_vars => ClaimsWhole'
  BY ClaimsStayWhole
<1>4. Spec => []ClaimsWhole
  BY <1>1, <1>2, <1>3, PTL DEF Spec
<1>5. Init => Admission!Init
  BY DEF Init, Admission!Init, Phase, PhaseOf
<1>6. Base /\ ClaimsWhole /\ [Next]_vars => [Admission!Next]_Phase
  BY StepRefines
<1>. QED  BY <1>1, <1>4, <1>5, <1>6, PTL DEF Spec, AdmissionSpec, Admission!Spec

(* RoomAdmission's own theorem, about the phases of execution rooms. *)
Promise == INSTANCE RoomAdmissionProofs WITH phase <- Phase

(* On SQLite the limits of ClaimLimits hold at all times, whatever claims, *)
(* resumptions, failures and sweeps come together (run_worker.go:69-89).   *)
THEOREM RoomsRespectSlots == Serialized => (Spec => []SlotsRespected)
<1>0. \A S : Promise!Cardinality(S) = Admission!Cardinality(S)
  BY DEF Promise!Cardinality, Admission!Cardinality
<1>1. Promise!Spec => []Promise!WithinSlots
  BY Promise!SlotsNeverExceeded, RoomAssumption
     DEF Promise!AdmissionAssumption, Promise!IsFiniteSet, IsFiniteSet
<1>2. Admission!Init => Promise!Init
  BY DEF Admission!Init, Promise!Init
<1>3. [Admission!Next]_Phase => [Promise!Next]_Phase
  <2>1. /\ Promise!Active = Admission!Active
        /\ \A ws : Promise!ActiveIn(ws) = Admission!ActiveIn(ws)
    BY DEF Promise!Active, Admission!Active, Promise!ActiveIn, Admission!ActiveIn
  <2>. QED
    BY <1>0, <2>1
       DEF Admission!Next, Admission!Enter, Admission!Admit, Admission!Leave,
           Admission!Expire, Admission!Forget, Promise!Next, Promise!Enter,
           Promise!Admit, Promise!Leave, Promise!Expire, Promise!Forget
<1>4. Promise!WithinSlots => SlotsRespected
  <2>1. /\ Promise!Active = Admission!Active
        /\ \A ws : Promise!ActiveIn(ws) = Admission!ActiveIn(ws)
    BY DEF Promise!Active, Admission!Active, Promise!ActiveIn, Admission!ActiveIn
  <2>. QED
    BY <1>0, <2>1 DEF Promise!WithinSlots, SlotsRespected, Admission!WithinSlots
<1>. QED
  BY <1>1, <1>2, <1>3, <1>4, RoomsImplementAdmission, PTL
     DEF AdmissionSpec, Admission!Spec, Promise!Spec
=============================================================================
