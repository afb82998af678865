---------------------------- MODULE ExecutionRoom ----------------------------
(***************************************************************************)
(* Execution rooms: the durable run records of internal/workspace/runs.go  *)
(* and run_worker.go, the worker loop of internal/execution/loop.go that   *)
(* claims and executes them, and the stop, pause and continue handlers of  *)
(* internal/webapp/run_handlers.go.                                        *)
(*                                                                         *)
(* Every database statement is one atomic step; what a worker computes     *)
(* between two statements belongs to the step that follows the first.      *)
(* A model call and the AppendRunStep that records its answer are one      *)
(* step, since the call itself touches nothing shared; a shell command     *)
(* changes the working tree and is a step of its own.                      *)
(***************************************************************************)
EXTENDS Integers, FiniteSets

CONSTANTS Runs,            \* the execution rooms that may be created
          Workers,         \* the execution.Worker instances sharing the store
          WorkspaceOf,     \* workspace_id of each room
          UserOf,          \* user_id of each room
          NoRun,           \* what an idle worker works on
          Serialized,      \* TRUE: SQLite with its one connection, FALSE: Postgres
          SweepsLeases,    \* TRUE: something calls RecoverRuns
          MaxPerUser, MaxPerWorkspace, MaxGlobal,   \* ClaimLimits, 0 for none
          MaxSteps,        \* max_steps of every room
          MaxCalls         \* bound on the shell calls of one model answer

ASSUME RoomAssumption ==
    /\ IsFiniteSet(Runs)
    /\ NoRun \notin Runs
    /\ Serialized \in BOOLEAN
    /\ SweepsLeases \in BOOLEAN
    /\ MaxPerUser \in Nat
    /\ MaxPerWorkspace \in Nat
    /\ MaxGlobal \in Nat
    /\ MaxSteps \in Nat \ {0}
    /\ MaxCalls \in Nat

Steps == 0..(MaxSteps - 1)

VARIABLES
    state,     \* agent_runs.state, "absent" before the row exists
    created,   \* agent_runs.created_at as the position in enqueue order
    lease,     \* agent_runs.lease_expires_at: none, in the future, in the past
    memory,    \* agent_work_memory.version, 0 before the row exists
    models,    \* the steps k whose row step-k is in agent_run_steps
    shells,    \* the tool call whose output the row shell-k holds, 0: no row
    work,      \* the local variables of each worker
    repeated,  \* history: rooms with a step whose model turn was taken again
    owed,      \* history: shell calls asked of a worker that neither ran nor failed
    forsaken,  \* history: rooms with calls nobody will run or answer for
    frontier,  \* history: steps begun by the time the room stopped running
    revived    \* history: rooms continued while a worker was still inside

store   == <<state, created, lease, memory, models, shells>>
history == <<repeated, owed, forsaken, frontier, revived>>
vars    == <<store, work, history>>

RunStates == {"absent", "queued", "running", "waiting_user",
              "completed", "failed", "canceled"}
Terminal  == {"completed", "failed", "canceled"}

(* Where a worker stands: between rooms, inside the claim transaction of   *)
(* Postgres (picked, counted), or in one place of execute's loop.          *)
Claiming  == {"picked", "counted"}
Executing == {"claimed", "loop", "model", "complete", "shell", "journal",
              "memory", "touch"}
Control   == {"idle"} \cup Claiming \cup Executing

Keys == ({"step"} \X Steps) \cup ({"shell"} \X Steps)

Idle == [pc |-> "idle", run |-> NoRun, step |-> 0, version |-> 0,
         done |-> {}, call |-> 0, asked |-> 0]

Work == [pc : Control, run : Runs \cup {NoRun}, step : 0..MaxSteps,
         version : 0..MaxSteps, done : SUBSET Keys,
         call : 0..MaxCalls, asked : 0..MaxCalls]

TypeOK ==
    /\ state \in [Runs -> RunStates]
    /\ created \in [Runs -> Nat]
    /\ lease \in [Runs -> {"none", "live", "expired"}]
    /\ memory \in [Runs -> 0..(MaxSteps + 1)]
    /\ models \in [Runs -> SUBSET Steps]
    /\ shells \in [Runs -> [Steps -> 0..MaxCalls]]
    /\ work \in [Workers -> Work]
    /\ repeated \in SUBSET Runs
    /\ owed \in [Workers -> [Runs -> Int]]
    /\ forsaken \in SUBSET Runs
    /\ frontier \in [Runs -> SUBSET Steps]
    /\ revived \in SUBSET Runs

Init ==
    /\ state = [r \in Runs |-> "absent"]
    /\ created = [r \in Runs |-> 0]
    /\ lease = [r \in Runs |-> "none"]
    /\ memory = [r \in Runs |-> 0]
    /\ models = [r \in Runs |-> {}]
    /\ shells = [r \in Runs |-> [k \in Steps |-> 0]]
    /\ work = [w \in Workers |-> Idle]
    /\ repeated = {}
    /\ owed = [w \in Workers |-> [r \in Runs |-> 0]]
    /\ forsaken = {}
    /\ frontier = [r \in Runs |-> {}]
    /\ revived = {}

-----------------------------------------------------------------------------
(* The rows a statement sees.                                              *)

InState(S) == {r \in Runs : state[r] \in S}
Executors(r) == {w \in Workers : work[w].run = r /\ work[w].pc \in Executing}

(* FOR UPDATE holds the row from the SELECT to the end of the transaction: *)
(* other claims skip it, other updates of it wait, and so does an INSERT   *)
(* that refers to it.  An update whose WHERE asks for another state than   *)
(* queued finds no row and does not wait.                                  *)
Locked(r) == \E w \in Workers : work[w].run = r /\ work[w].pc \in Claiming

(* The steps of r recorded so far or in the hands of a worker that has     *)
(* already extended the lease for them.                                    *)
Begun(r) == models[r] \cup
    {work[w].step : w \in {x \in Executors(r) : work[x].pc \notin {"claimed", "loop"}}}

-----------------------------------------------------------------------------
(* Statements of the store.  Each says what happens to state, lease and    *)
(* the history of one room.                                                *)

(* A room that stops running leaves its frontier behind.                   *)
MoveTo(r, s) ==
    /\ state' = [state EXCEPT ![r] = s]
    /\ frontier' = [frontier EXCEPT ![r] =
                      IF state[r] = "running" THEN Begun(r) ELSE @]

FailRun(r) ==
    /\ ~Locked(r)
    /\ MoveTo(r, "failed")
    /\ lease' = [lease EXCEPT ![r] = "none"]

(* WHERE id = ? AND state = running: no row and no error otherwise.        *)
CompleteRun(r) ==
    IF state[r] = "running"
    THEN /\ MoveTo(r, "completed")
         /\ lease' = [lease EXCEPT ![r] = "none"]
    ELSE UNCHANGED <<state, lease, frontier>>

Become(w, next) == work' = [work EXCEPT ![w] = next]
LeaveRoom(w)    == Become(w, Idle)
GoTo(w, l)      == Become(w, [work[w] EXCEPT !.pc = l])

TouchRunLeaseAnyState(w, next) ==   \* variant: no "AND state = ?"
    /\ lease' = [lease EXCEPT ![work[w].run] = "live"]
    /\ Become(w, next)

(* TouchRunLease, WHERE state = running, as both of its callers use it: an *)
(* error makes execute return.                                             *)
TouchRunLease(w, next) ==
    LET r == work[w].run IN
    \/ /\ state[r] = "running"
       /\ lease' = [lease EXCEPT ![r] = "live"]
       /\ Become(w, next)
    \/ /\ state[r] # "running"
       /\ LeaveRoom(w)
       /\ UNCHANGED lease

-----------------------------------------------------------------------------
(* The user, through the HTTP handlers.                                    *)

EnqueueRun(r) ==
    /\ state[r] = "absent"
    /\ state' = [state EXCEPT ![r] = "queued"]
    /\ created' = [created EXCEPT ![r] = 1 + Cardinality(Runs \ InState({"absent"}))]
    /\ UNCHANGED <<lease, memory, models, shells, work, history>>

(* The update that follows the handler's read of the row tests no state.   *)
CancelRun(r) ==
    /\ state[r] # "absent"
    /\ ~Locked(r)
    /\ MoveTo(r, "canceled")
    /\ lease' = [lease EXCEPT ![r] = "none"]
    /\ UNCHANGED <<created, memory, models, shells, work, repeated, owed, forsaken, revived>>

SetRunWaitingUser(r) ==
    /\ state[r] # "absent"
    /\ ~Locked(r)
    /\ MoveTo(r, "waiting_user")
    /\ UNCHANGED <<created, lease, memory, models, shells, work, repeated, owed, forsaken, revived>>

ContinueAtOnce(r) ==   \* variant: back to running without a claim
    /\ state[r] = "waiting_user"
    /\ state' = [state EXCEPT ![r] = "running"]
    /\ UNCHANGED <<created, lease, memory, models, shells, work, history>>

ContinueRun(r) ==
    /\ state[r] = "waiting_user"
    /\ state' = [state EXCEPT ![r] = "queued"]
    /\ revived' = IF Executors(r) = {} THEN revived ELSE revived \cup {r}
    /\ UNCHANGED <<created, lease, memory, models, shells, work, repeated, owed, forsaken, frontier>>

-----------------------------------------------------------------------------
(* Claiming.                                                               *)

(* ORDER BY created_at LIMIT 1 over the queued rows nobody has locked.     *)
Candidates ==
    LET free == {r \in InState({"queued"}) : ~Locked(r)}
    IN  {r \in free : \A q \in free : created[r] <= created[q]}

Mine(r, S) == {q \in InState(S) : UserOf[q] = UserOf[r]}
Here(r, S) == {q \in InState(S) : WorkspaceOf[q] = WorkspaceOf[r]}

WithinLimitsCountsItself(r) ==   \* variant: the candidate counts against its user
    /\ MaxPerUser > 0 => Cardinality(Mine(r, {"queued", "running"})) < MaxPerUser
    /\ MaxPerWorkspace > 0 => Cardinality(Here(r, {"running"})) < MaxPerWorkspace
    /\ MaxGlobal > 0 => Cardinality(InState({"running"})) < MaxGlobal

WithinLimitsOffByOne(r) ==   \* variant: > for >=
    /\ MaxPerUser > 0 => Cardinality(Mine(r, {"queued", "running"})) - 1 <= MaxPerUser
    /\ MaxPerWorkspace > 0 => Cardinality(Here(r, {"running"})) <= MaxPerWorkspace
    /\ MaxGlobal > 0 => Cardinality(InState({"running"})) <= MaxGlobal

(* The three counts; the candidate is itself one of the user's queued rooms. *)
WithinLimits(r) ==
    /\ MaxPerUser > 0 => Cardinality(Mine(r, {"queued", "running"})) - 1 < MaxPerUser
    /\ MaxPerWorkspace > 0 => Cardinality(Here(r, {"running"})) < MaxPerWorkspace
    /\ MaxGlobal > 0 => Cardinality(InState({"running"})) < MaxGlobal

MarkRunning(w, r) ==
    /\ state' = [state EXCEPT ![r] = "running"]
    /\ lease' = [lease EXCEPT ![r] = "live"]
    /\ Become(w, [Idle EXCEPT !.pc = "claimed", !.run = r])
    /\ frontier' = [frontier EXCEPT ![r] = {}]
    /\ UNCHANGED <<created, memory, models, shells, repeated, owed, forsaken, revived>>

(* SQLite: the transaction owns the only connection, so it is one step.    *)
(* ErrNoRuns and ErrQuotaReached change nothing: the worker waits.         *)
ClaimSerialized(w) ==
    /\ Serialized
    /\ work[w].pc = "idle"
    /\ \E r \in Candidates : WithinLimits(r) /\ MarkRunning(w, r)

(* Postgres: select and lock, count, update and commit; other transactions *)
(* run in between.  The three counts are taken as one.                     *)
PickCandidate(w) ==
    /\ ~Serialized
    /\ work[w].pc = "idle"
    /\ \E r \in Candidates :
          Become(w, [Idle EXCEPT !.pc = "picked", !.run = r])
    /\ UNCHANGED <<store, history>>

CountRuns(w) ==
    /\ work[w].pc = "picked"
    /\ IF WithinLimits(work[w].run) THEN GoTo(w, "counted") ELSE LeaveRoom(w)
    /\ UNCHANGED <<store, history>>

CommitClaim(w) ==
    /\ work[w].pc = "counted"
    /\ state[work[w].run] = "queued"
    /\ MarkRunning(w, work[w].run)

-----------------------------------------------------------------------------
(* Executing: one iteration of execute's loop per step.                    *)

At(w, l) == work[w].pc = l
Room(w)  == work[w].run
Step(w)  == work[w].step

LoadNoSteps(w) ==   \* variant: the done map stays empty
    /\ At(w, "claimed")
    /\ GoTo(w, "loop")
    /\ UNCHANGED <<store, history>>

(* RunSteps builds the done map, once; then the shell factory may fail.    *)
LoadSteps(w) ==
    /\ At(w, "claimed")
    /\ LET r == Room(w)
           journal == {<<"step", k>> : k \in models[r]}
                        \cup {<<"shell", k>> : k \in {j \in Steps : shells[r][j] # 0}}
       IN  Become(w, [work[w] EXCEPT !.pc = "loop", !.done = journal])
    /\ UNCHANGED <<store, history>>

ShellFactoryFails(w) ==
    /\ At(w, "claimed")
    /\ FailRun(Room(w))
    /\ LeaveRoom(w)
    /\ UNCHANGED <<created, memory, models, shells, repeated, owed, forsaken, revived>>

BeginStepPastEnd(w) ==   \* variant: step <= MaxSteps
    /\ At(w, "loop")
    /\ TouchRunLease(w, [work[w] EXCEPT !.pc =
          IF <<"step", Step(w)>> \in work[w].done THEN "memory" ELSE "model"])
    /\ UNCHANGED <<state, created, memory, models, shells, history>>

(* Top of the loop: a recorded step goes straight to the work memory.      *)
BeginStep(w) ==
    /\ At(w, "loop")
    /\ Step(w) < MaxSteps
    /\ TouchRunLease(w, [work[w] EXCEPT !.pc =
          IF <<"step", Step(w)>> \in work[w].done THEN "memory" ELSE "model"])
    /\ UNCHANGED <<state, created, memory, models, shells, history>>

ReachMaxSteps(w) ==
    /\ At(w, "loop")
    /\ Step(w) = MaxSteps
    /\ FailRun(Room(w))
    /\ LeaveRoom(w)
    /\ UNCHANGED <<created, memory, models, shells, repeated, owed, forsaken, revived>>

(* The row step-k is written "done" before any of its shell calls has run. *)
RecordTurn(w) ==
    /\ ~Locked(Room(w))
    /\ models' = [models EXCEPT ![Room(w)] = @ \cup {Step(w)}]
    /\ repeated' = IF Step(w) \in models[Room(w)]
                    THEN repeated \cup {Room(w)} ELSE repeated

(* The answer brings n calls of the shell whose arguments parsed; others    *)
(* never reach the loop.                                                    *)
Owe(w, n) == owed' = [owed EXCEPT ![w][Room(w)] = @ + n]

(* The stop reason alone ends the room: calls that come with it, as nothing *)
(* keeps a provider from sending, are neither run nor answered for.         *)
ModelStops(w, n) ==
    /\ At(w, "model")
    /\ RecordTurn(w)
    /\ GoTo(w, "complete")
    /\ Owe(w, n)
    /\ forsaken' = IF n = 0 THEN forsaken ELSE forsaken \cup {Room(w)}
    /\ UNCHANGED <<state, created, lease, memory, shells, frontier, revived>>

ModelAsksUnrecorded(w, n) ==   \* variant: the turn is left out of the journal
    /\ At(w, "model")
    /\ Become(w, [work[w] EXCEPT !.pc = IF n = 0 THEN "memory" ELSE "shell",
                                 !.asked = n, !.call = 0])
    /\ Owe(w, n)
    /\ UNCHANGED <<store, repeated, forsaken, frontier, revived>>

ModelAsks(w, n) ==
    /\ At(w, "model")
    /\ RecordTurn(w)
    /\ LET asked == IF <<"shell", Step(w)>> \in work[w].done THEN 0 ELSE n IN
       /\ Become(w, [work[w] EXCEPT !.pc = IF asked = 0 THEN "memory" ELSE "shell",
                                    !.asked = asked, !.call = 0])
       /\ Owe(w, asked)
    /\ UNCHANGED <<state, created, lease, memory, shells, forsaken, frontier, revived>>

ModelFails(w) ==
    /\ At(w, "model")
    /\ FailRun(Room(w))
    /\ LeaveRoom(w)
    /\ UNCHANGED <<created, memory, models, shells, repeated, owed, forsaken, revived>>

StopRoom(w) ==
    /\ At(w, "complete")
    /\ CompleteRun(Room(w))
    /\ LeaveRoom(w)
    /\ UNCHANGED <<created, memory, models, shells, repeated, owed, forsaken, revived>>

RunShell(w) ==
    /\ At(w, "shell")
    /\ Owe(w, -1)
    /\ Become(w, [work[w] EXCEPT !.pc = "journal", !.call = @ + 1])
    /\ UNCHANGED <<store, repeated, forsaken, frontier, revived>>

(* FailRun answers for this call and for those that would have followed.   *)
ShellFails(w) ==
    /\ At(w, "shell")
    /\ FailRun(Room(w))
    /\ LeaveRoom(w)
    /\ Owe(w, work[w].call - work[w].asked)
    /\ UNCHANGED <<created, memory, models, shells, repeated, forsaken, revived>>

RecordShellTouching(w) ==   \* variant: the lease is renewed between two calls
    /\ At(w, "journal")
    /\ ~Locked(Room(w))
    /\ shells' = [shells EXCEPT ![Room(w)][Step(w)] = work[w].call]
    /\ TouchRunLease(w, [work[w] EXCEPT !.pc =
          IF work[w].call < work[w].asked THEN "shell" ELSE "memory"])
    /\ UNCHANGED <<state, created, memory, models, history>>

(* Every shell call of step k is recorded under the one key shell-k.       *)
RecordShell(w) ==
    /\ At(w, "journal")
    /\ ~Locked(Room(w))
    /\ shells' = [shells EXCEPT ![Room(w)][Step(w)] = work[w].call]
    /\ GoTo(w, IF work[w].call < work[w].asked THEN "shell" ELSE "memory")
    /\ UNCHANGED <<state, created, lease, memory, models, history>>

SaveWorkMemoryAlways(w) ==   \* variant: SET version = version + 1, no conflict
    /\ At(w, "memory")
    /\ memory' = [memory EXCEPT ![Room(w)] = IF @ = 0 THEN 2 ELSE @ + 1]
    /\ Become(w, [work[w] EXCEPT !.pc = "touch", !.version = @ + 1])
    /\ UNCHANGED <<state, created, lease, models, shells, history>>

(* INSERT version + 1, or UPDATE WHERE the stored version is the one       *)
(* passed; a conflict updates no row and makes execute return the error.   *)
SaveWorkMemory(w) ==
    LET r == Room(w)
        version == work[w].version + 1
    IN
    /\ At(w, "memory")
    /\ memory[r] = 0 => ~Locked(r)
    /\ \/ /\ memory[r] \in {0, version}
          /\ memory' = [memory EXCEPT ![r] = version + 1]
          /\ Become(w, [work[w] EXCEPT !.pc = "touch", !.version = version])
       \/ /\ memory[r] \notin {0, version}
          /\ LeaveRoom(w)
          /\ UNCHANGED memory
    /\ UNCHANGED <<state, created, lease, models, shells, history>>

EndStep(w) ==
    /\ At(w, "touch")
    /\ TouchRunLease(w, [work[w] EXCEPT !.pc = "loop", !.step = @ + 1,
                                        !.call = 0, !.asked = 0])
    /\ UNCHANGED <<state, created, memory, models, shells, history>>

-----------------------------------------------------------------------------
(* What goes wrong around the workers.                                     *)

(* The shell calls of the step in hand of a worker that have not run.      *)
CallsLeft(x) == IF x.pc \in {"shell", "journal"} THEN x.asked - x.call ELSE 0

(* A statement returns an error that execute passes on, or the FailRun that *)
(* answers for a failed model or shell call fails itself, as it does at     *)
(* shutdown, when its context is canceled.  The worker goes on to the next  *)
(* room and nothing is written.  An open claim rolls back.                  *)
Abandon(w) ==
    /\ ~At(w, "idle")
    /\ LeaveRoom(w)
    /\ forsaken' = IF CallsLeft(work[w]) = 0 THEN forsaken ELSE forsaken \cup {Room(w)}
    /\ UNCHANGED <<store, repeated, owed, frontier, revived>>

(* runLeaseDuration passes with no heartbeat.  Only the sweep looks.       *)
LeaseExpires(r) ==
    /\ SweepsLeases
    /\ lease[r] = "live"
    /\ lease' = [lease EXCEPT ![r] = "expired"]
    /\ UNCHANGED <<state, created, memory, models, shells, work, history>>

RequeueRuns ==   \* variant: an expired room goes back to the queue
    LET lost == {r \in InState({"running"}) : lease[r] = "expired"} IN
    /\ SweepsLeases
    /\ lost # {}
    /\ state' = [r \in Runs |-> IF r \in lost THEN "queued" ELSE state[r]]
    /\ lease' = [r \in Runs |-> IF r \in lost THEN "none" ELSE lease[r]]
    /\ UNCHANGED <<created, memory, models, shells, work, history>>

RecoverRuns ==
    LET lost == {r \in InState({"running"}) : lease[r] = "expired"} IN
    /\ SweepsLeases
    /\ lost # {}
    /\ state' = [r \in Runs |-> IF r \in lost THEN "failed" ELSE state[r]]
    /\ lease' = [r \in Runs |-> IF r \in lost THEN "none" ELSE lease[r]]
    /\ frontier' = [r \in Runs |-> IF r \in lost THEN Begun(r) ELSE frontier[r]]
    /\ UNCHANGED <<created, memory, models, shells, work, repeated, owed, forsaken, revived>>

(* The controller stops or dies and starts again: configure drops the table *)
(* agent_runs, the cascades of SQLite empty the journal and the memory, and *)
(* createRunTables begins anew.  On Postgres the two tables that refer to   *)
(* agent_runs make the DROP and with it the start fail.                     *)
Restart ==
    /\ Serialized
    /\ state' = [r \in Runs |-> "absent"]
    /\ created' = [r \in Runs |-> 0]
    /\ lease' = [r \in Runs |-> "none"]
    /\ memory' = [r \in Runs |-> 0]
    /\ models' = [r \in Runs |-> {}]
    /\ shells' = [r \in Runs |-> [k \in Steps |-> 0]]
    /\ work' = [w \in Workers |-> Idle]
    /\ repeated' = {}
    /\ owed' = [w \in Workers |-> [r \in Runs |-> 0]]
    /\ forsaken' = {}
    /\ frontier' = [r \in Runs |-> {}]
    /\ revived' = {}

-----------------------------------------------------------------------------
Claim(w) == ClaimSerialized(w) \/ PickCandidate(w) \/ CountRuns(w) \/ CommitClaim(w)

Execute(w) ==
    \/ LoadSteps(w) \/ ShellFactoryFails(w)
    \/ BeginStep(w) \/ ReachMaxSteps(w)
    \/ (\E n \in 0..MaxCalls : ModelStops(w, n) \/ ModelAsks(w, n)) \/ ModelFails(w)
    \/ StopRoom(w)
    \/ RunShell(w) \/ ShellFails(w) \/ RecordShell(w)
    \/ SaveWorkMemory(w) \/ EndStep(w)

WorkerStep(w) == Claim(w) \/ Execute(w)

(* Users stop rooms but never pause one; no worker gives up.               *)
Uninterrupted ==
    \/ \E w \in Workers : WorkerStep(w)
    \/ \E r \in Runs : EnqueueRun(r) \/ CancelRun(r)

Pausing == \E r \in Runs : SetRunWaitingUser(r) \/ ContinueRun(r)

Failing ==
    \/ \E w \in Workers : Abandon(w)
    \/ \E r \in Runs : LeaseExpires(r)
    \/ RecoverRuns

Next == Uninterrupted \/ Pausing \/ Failing \/ Restart

(* RunWorker is an endless loop and model and shell calls are bounded by   *)
(* their timeouts, so a worker that can move does.  Nothing obliges a user *)
(* to act, a statement to fail or a sweep to run: RecoverRuns has no       *)
(* caller in the program.                                                  *)
WorkersMove == \A w \in Workers : WF_vars(WorkerStep(w))

Spec      == Init /\ [][Next]_vars
FairSpec  == Spec /\ WorkersMove
QuietSpec == Init /\ [][Uninterrupted]_vars /\ WorkersMove
-----------------------------------------------------------------------------
(* Properties.                                                             *)

PhaseOf(s) == CASE s = "queued"  -> "waiting"
                [] s = "running" -> "active"
                [] OTHER -> "out"

Phase == [r \in Runs |-> PhaseOf(state[r])]

Admission == INSTANCE RoomAdmission WITH phase <- Phase

(* On a serialized store, claims, revocations and sweeps keep the promise  *)
(* of RoomAdmission: a room becomes running only from the queue, alone,    *)
(* and only into a free slot of its workspace and of the system.           *)
AdmissionSpec == Admission!Spec

(* No workspace and not the whole system ever has more running rooms than  *)
(* ClaimLimits allow, whatever claims, pauses, resumptions and failures    *)
(* come together (run_worker.go:69-89).                                    *)
SlotsRespected == Admission!WithinSlots

(* Two workers are inside one room only if a user continued it while a     *)
(* worker was still inside: claims alone, even the interleaved ones of     *)
(* Postgres, and errors never cause it (loop.go:11-13).                    *)
SoleExecutor ==
    \A r \in Runs \ revived : \A v, w \in Executors(r) : v = w

(* A room that was never continued under a worker gets at most one model   *)
(* answer per step, however often it is given up and claimed again: the    *)
(* done map of execute really skips what the journal holds.                *)
ReplayOnce == repeated \subseteq revived

(* The same for every room: no step of any room is taken twice.  It holds  *)
(* with one worker; runs.go:269-270 says it of every replay.               *)
NoStepTwice == repeated = {}

(* The journal of a room is a prefix of the loop: step k is recorded only  *)
(* after all earlier ones, and a shell row only under a recorded model     *)
(* turn, so that "resume after the last row" means what it says.           *)
JournalIsPrefix ==
    \A r \in Runs :
        /\ \A k \in models[r] : 0..k \subseteq models[r]
        /\ \A k \in Steps : shells[r][k] # 0 => k \in models[r]

(* The work memory never counts a step as completed that the journal does  *)
(* not hold, whichever workers wrote it and in whatever order.             *)
MemoryFollowsJournal ==
    \A r \in Runs : memory[r] # 0 => 0..(memory[r] - 2) \subseteq models[r]

(* A room that is stopped, paused, swept or failed under its worker gets   *)
(* no model turn beyond the step the worker was in at that moment.         *)
RevokedRoomStops ==
    \A r \in Runs : state[r] # "running" => models[r] \subseteq frontier[r]

(* Once nobody is inside a room, every shell command its model asked for   *)
(* has run or has failed the room, whether the room was stopped, paused,   *)
(* continued or swept between two commands and whoever took it over        *)
(* (loop.go:156-183).  Excepted are rooms forsaken by the code: a worker   *)
(* left on an error with calls to run, or calls came with the stop reason. *)
CallsAreRun ==
    \A r \in Runs \ forsaken :
        Executors(r) = {} => \A w \in Workers : owed[w][r] = 0

(* A running room no worker is inside any more is taken out of running, as *)
(* run_worker.go:280-282 says of RecoverRuns, which nothing calls.         *)
CrashedRoomReclaimed ==
    \A r \in Runs :
        (state[r] = "running" /\ Executors(r) = {}) ~> (state[r] # "running")

(* A queued room waits for the slot and gets it, as run_worker.go:70-71    *)
(* says; where nothing goes wrong it leaves the queue.  The count of line  *)
(* 65 takes the rooms that wait for the slot for rooms that hold one.      *)
QueuedRoomIsClaimed ==
    \A r \in Runs : state[r] = "queued" ~> state[r] # "queued"
=============================================================================
