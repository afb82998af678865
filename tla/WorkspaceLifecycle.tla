-------------------------- MODULE WorkspaceLifecycle --------------------------
(***************************************************************************)
(* The life of a workspace: the requests of internal/webapp/handlers.go,   *)
(* the jobs they enqueue (internal/workspace/jobs.go, job_worker.go), the  *)
(* preparation and the environment build the one job worker executes       *)
(* (preparation.go), deletion, archive and recovery at startup.            *)
(*                                                                         *)
(* One action is one statement of the store or one external command; what  *)
(* is computed in between belongs to the statement before it.  The store   *)
(* is SQLite, a workspace runs on the local runtime, whose Start, Stop and *)
(* Destroy do nothing.                                                     *)
(***************************************************************************)
EXTENDS Integers, Sequences, FiniteSets

CONSTANTS Workspaces,    \* the workspaces that may be created
          Requests,      \* the HTTP requests that may be under way at a time
          NoWorkspace,   \* what an idle request or worker works on
          NewBranch,     \* the workspaces created with a new working branch
          MaxQueue       \* bound on the jobs requests leave in the queue

ASSUME LifecycleAssumption ==
    /\ NoWorkspace \notin Workspaces
    /\ NewBranch \subseteq Workspaces
    /\ MaxQueue \in Nat \ {0}

VARIABLES
    row,        \* the workspaces table, with the state of the bound version
    tree,       \* the managed directory: what the clone left in it
    queue,      \* workspace_jobs in state queued, oldest first
    worker,     \* the job in state running and the locals of its execution
    request,    \* where each HTTP request stands
    reusable,   \* the project has an environment version in state ready
    overtaken,  \* history: workspaces a request changed when it no longer might
    contested   \* history: workspaces whose files a job may restore under a deletion

vars == <<row, tree, queue, worker, request, reusable, overtaken, contested>>

Statuses == {"absent", "creating", "initializing", "waiting_environment",
             "initialization_failed", "needs_configuration", "ready", "stopped",
             "deleting", "deletion_failed", "gone"}
Stages   == {"pending", "cloning", "analyzing", "installing", "verifying",
             "sealing", "needs_configuration", "ready", "failed"}
Versions == {"none", "pending", "ready", "failed"}
Trees    == {"none", "partial", "base", "branch"}
Kinds    == {"prepare", "build"}
Jobs     == [ws : Workspaces, kind : Kinds]

Row == [status : Statuses, stage : Stages, archived : BOOLEAN,
        chosen : BOOLEAN, version : Versions]

NoRow == [status |-> "absent", stage |-> "pending", archived |-> FALSE,
          chosen |-> FALSE, version |-> "none"]

(* A stage is entered by a statement of its own, before what it is for.    *)
StageWrites   == {"cloning", "analyzing", "installing", "verifying", "sealing"}
WorkerControl == {"idle", "open", "mark", "clone", "switch", "analyze", "find",
                  "bind", "wait", "enqueue", "check", "insert", "setup",
                  "verify", "complete", "finish"} \cup StageWrites

NoJob == [pc |-> "idle", ws |-> NoWorkspace, kind |-> "prepare",
          chosen |-> FALSE, fresh |-> FALSE, waiting |-> FALSE]

Execution == [pc : WorkerControl, ws : Workspaces \cup {NoWorkspace}, kind : Kinds,
              chosen : BOOLEAN,     \* a project root was selected when the job began
              fresh : BOOLEAN,      \* the bound version is new
              waiting : BOOLEAN]    \* the workspace waited for this build

Deleting       == {"delete", "remove", "erase"}
RequestControl == {"idle", "prepare", "get", "enqueue", "select", "check", "insert",
                   "stop", "resume", "halt", "archive", "restore"} \cup Deleting

NoRequest == [pc |-> "idle", ws |-> NoWorkspace]

TypeOK ==
    /\ row \in [Workspaces -> Row]
    /\ tree \in [Workspaces -> Trees]
    /\ queue \in Seq(Jobs)
    /\ worker \in Execution
    /\ request \in [Requests -> [pc : RequestControl, ws : Workspaces \cup {NoWorkspace}]]
    /\ reusable \in BOOLEAN
    /\ overtaken \in SUBSET Workspaces
    /\ contested \in SUBSET Workspaces

Init ==
    /\ row = [w \in Workspaces |-> NoRow]
    /\ tree = [w \in Workspaces |-> "none"]
    /\ queue = <<>>
    /\ worker = NoJob
    /\ request = [q \in Requests |-> NoRequest]
    /\ reusable = FALSE
    /\ overtaken = {}
    /\ contested = {}

-----------------------------------------------------------------------------
(* What statements read and write.                                         *)

Exists(w)    == row[w].status \notin {"absent", "gone"}
Status(w, S) == row[w].status \in S
Usable(w)    == Exists(w) /\ ~row[w].archived     \* Get and requireActiveWorkspace
Whole(w)     == tree[w] \in {"base", "branch"}    \* git can read the directory

(* UPDATE ... WHERE id = ?: no row, no change. *)
Update(w, r) == row' = IF Exists(w) THEN [row EXCEPT ![w] = r] ELSE row

FailPreparation(w) ==
    Update(w, [row[w] EXCEPT !.status = "initialization_failed", !.stage = "failed"])

Queued(w, k)  == {i \in DOMAIN queue : queue[i] = [ws |-> w, kind |-> k]}
Running(w, k) == worker.pc # "idle" /\ worker.ws = w /\ worker.kind = k

HasActiveJob(w, k) == Queued(w, k) # {} \/ Running(w, k)

(* The row a job refers to must exist.                                     *)
CreateJob(w, k) ==
    queue' = IF Exists(w) THEN Append(queue, [ws |-> w, kind |-> k]) ELSE queue

Roomy == Len(queue) < MaxQueue      \* a bound on what users pile up

(* What StartEnvironmentBuild asks of a workspace before it looks for jobs. *)
Buildable(w) == Usable(w) /\ row[w].version \notin {"none", "ready"}

-----------------------------------------------------------------------------
(* Requests.                                                               *)

At(q, l)    == request[q].pc = l
Target(q)   == request[q].ws
Start(q, w, l) == At(q, "idle") /\ request' = [request EXCEPT ![q] = [pc |-> l, ws |-> w]]
GoOn(q, l)  == request' = [request EXCEPT ![q].pc = l]
Answer(q)   == request' = [request EXCEPT ![q] = NoRequest]

OnlyRequest == UNCHANGED <<row, tree, queue, worker, reusable, overtaken, contested>>
OnlyRow     == UNCHANGED <<tree, queue, worker, reusable, overtaken, contested>>

(* What a request asks of the row it reads before it is at l, where it     *)
(* writes.  Nothing asks again at l.                                       *)
Allowed(w, l) ==
    CASE l = "select"           -> Usable(w) /\ Status(w, {"needs_configuration"})
      [] l \in {"stop", "halt"} -> Usable(w) /\ Status(w, {"ready"})
      [] l = "resume"           -> Usable(w) /\ Status(w, {"stopped"}) /\ row[w].stage = "ready"
      [] l = "archive"          -> Usable(w) /\ ~Status(w, {"creating", "initializing",
                                                           "deleting", "deletion_failed"})
      [] l = "restore"          -> row[w].archived /\ ~Status(w, {"deleting", "deletion_failed"})
      [] l = "delete"           -> Exists(w) /\ ~Status(w, {"creating", "initializing"})

Request(q, w, l) == Allowed(w, l) /\ Start(q, w, l) /\ OnlyRequest

HasJob(w)      == \E k \in Kinds : HasActiveJob(w, k)
BeingErased(w) == \E p \in Requests : request[p].pc \in {"remove", "erase"} /\ Target(p) = w

(* A request overtakes a workspace that it changes though the row no       *)
(* longer allows what it allowed when it was read; a deletion moreover     *)
(* one that a job is active on.                                            *)
Overtakes(q) ==
    \/ Exists(Target(q)) /\ ~Allowed(Target(q), request[q].pc)
    \/ At(q, "delete") /\ HasJob(Target(q))

(* The two writes after which a job may clone while files are removed: a   *)
(* deletion that begins under an active job, and the choice of a project   *)
(* root, which says creating again, while the deletion is under way.       *)
Contests(q) ==
    \/ At(q, "delete") /\ HasJob(Target(q))
    \/ At(q, "select") /\ BeingErased(Target(q))

(* A statement of a request on its row, which ends it when there is none.  *)
Write(q, r, l) ==
    /\ Update(Target(q), r)
    /\ overtaken' = overtaken \cup {w \in {Target(q)} : Overtakes(q)}
    /\ contested' = contested \cup {w \in {Target(q)} : Contests(q)}
    /\ IF l = "idle" \/ ~Exists(Target(q)) THEN Answer(q) ELSE GoOn(q, l)
    /\ UNCHANGED <<tree, queue, worker, reusable>>

CreateWorkspace(q, w) ==
    /\ Status(w, {"absent"})
    /\ Start(q, w, "prepare")
    /\ row' = [row EXCEPT ![w] = [NoRow EXCEPT !.status = "creating"]]
    /\ OnlyRow

(* StartPreparation, on its own or after Create and ConfigureProjectRoot.  *)
StartPreparation(q, w) == Exists(w) /\ Start(q, w, "prepare") /\ OnlyRequest

FindActive(q) ==
    /\ At(q, "prepare")
    /\ IF HasActiveJob(Target(q), "prepare") THEN Answer(q) ELSE GoOn(q, "get")
    /\ OnlyRequest

CheckStatus(q) ==
    /\ At(q, "get")
    /\ IF Status(Target(q), {"creating", "initialization_failed"})
       THEN GoOn(q, "enqueue") ELSE Answer(q)
    /\ OnlyRequest

EnqueuePreparation(q) ==
    /\ At(q, "enqueue") /\ Roomy
    /\ CreateJob(Target(q), "prepare")
    /\ Answer(q)
    /\ UNCHANGED <<row, tree, worker, reusable, overtaken, contested>>

ConfigureProjectRoot(q, w) == Request(q, w, "select")

SelectProjectRoot(q) ==
    /\ At(q, "select")
    /\ Write(q, [row[Target(q)] EXCEPT !.status = "creating", !.stage = "pending",
                                       !.chosen = TRUE], "prepare")

RebuildEnvironment(q, w) == Buildable(w) /\ Start(q, w, "check") /\ OnlyRequest

FindActiveBuild(q) ==
    /\ At(q, "check")
    /\ IF HasActiveJob(Target(q), "build") THEN Answer(q) ELSE GoOn(q, "insert")
    /\ OnlyRequest

EnqueueBuild(q) ==
    /\ At(q, "insert") /\ Roomy
    /\ CreateJob(Target(q), "build")
    /\ Answer(q)
    /\ UNCHANGED <<row, tree, worker, reusable, overtaken, contested>>

Stop(q, w) == Request(q, w, "stop")

MarkStopped(q) ==
    /\ At(q, "stop")
    /\ Write(q, [row[Target(q)] EXCEPT !.status = "stopped"], "idle")

Resume(q, w) == Request(q, w, "resume")

MarkReady(q) ==
    /\ At(q, "resume")
    /\ Write(q, [row[Target(q)] EXCEPT !.status = "ready"], "idle")

(* A ready workspace is stopped first. *)
Archive(q, w) == Request(q, w, IF Status(w, {"ready"}) THEN "halt" ELSE "archive")

StopToArchive(q) ==
    /\ At(q, "halt")
    /\ Write(q, [row[Target(q)] EXCEPT !.status = "stopped"], "archive")

SetArchived(q) ==
    /\ At(q, "archive")
    /\ Write(q, [row[Target(q)] EXCEPT !.archived = TRUE], "idle")

RestoreArchived(q, w) == Request(q, w, "restore")

ClearArchived(q) ==
    /\ At(q, "restore")
    /\ Write(q, [row[Target(q)] EXCEPT !.archived = FALSE], "idle")

(* Under deleteMu, which nothing else takes. *)
Delete(q, w) ==
    /\ \A p \in Requests : request[p].pc \notin Deleting
    /\ Request(q, w, "delete")

MarkDeleting(q) ==
    /\ At(q, "delete")
    /\ Write(q, [row[Target(q)] EXCEPT !.status = "deleting"], "remove")

RemoveFilesUnchecked(q) ==   \* variant: a removal that stops halfway passes
    /\ At(q, "remove")
    /\ \E t \in IF tree[Target(q)] = "none" THEN {"none"} ELSE {"partial", "none"} :
          tree' = [tree EXCEPT ![Target(q)] = t]
    /\ GoOn(q, "erase")
    /\ UNCHANGED <<row, queue, worker, reusable, overtaken, contested>>

RemoveFiles(q) ==
    /\ At(q, "remove")
    /\ tree' = [tree EXCEPT ![Target(q)] = "none"]
    /\ GoOn(q, "erase")
    /\ UNCHANGED <<row, queue, worker, reusable, overtaken, contested>>

(* failDeletion, after a removal that stopped halfway or a failed DELETE.  *)
DeletionFails(q) ==
    LET w == Target(q) IN
    /\ request[q].pc \in {"remove", "erase"}
    /\ Update(w, [row[w] EXCEPT !.status = "deletion_failed"])
    /\ \E t \in IF tree[w] = "none" THEN {"none"} ELSE {tree[w], "partial"} :
          tree' = [tree EXCEPT ![w] = t]
    /\ Answer(q)
    /\ UNCHANGED <<queue, worker, reusable, overtaken, contested>>

(* The row and, by cascade, the jobs that refer to it; the others keep     *)
(* their order.                                                            *)
EraseRow(q) ==
    LET w == Target(q)
        kept == {i \in DOMAIN queue : queue[i].ws # w}
        n == Cardinality(kept)
    IN
    /\ At(q, "erase")
    /\ row' = [row EXCEPT ![w] = [NoRow EXCEPT !.status = "gone"]]
    /\ \E from \in [1..n -> kept] :
          /\ \A i, j \in 1..n : i < j => from[i] < from[j]
          /\ queue' = [i \in 1..n |-> queue[from[i]]]
    /\ Answer(q)
    /\ UNCHANGED <<tree, worker, reusable, overtaken, contested>>

-----------------------------------------------------------------------------
(* The job worker.                                                         *)

Here        == worker.ws
On(k, l)    == worker.kind = k /\ worker.pc = l
Proceed(l)  == worker' = [worker EXCEPT !.pc = l]
OnlyWorker  == UNCHANGED <<row, tree, queue, request, reusable, overtaken, contested>>
RowByWorker == UNCHANGED <<tree, queue, request, reusable, overtaken, contested>>

(* A statement of a job on its workspace, which may be gone. *)
WriteRow(r, l) ==
    /\ Update(Here, r)
    /\ Proceed(IF Exists(Here) THEN l ELSE "finish")
    /\ RowByWorker

(* s.fail: record the failure and return it.                               *)
Fail == FailPreparation(Here) /\ Proceed("finish") /\ RowByWorker

ClaimLatestJob ==   \* variant: the newest job first
    /\ worker.pc = "idle"
    /\ queue # <<>>
    /\ worker' = [NoJob EXCEPT !.pc = "open", !.ws = queue[Len(queue)].ws,
                               !.kind = queue[Len(queue)].kind]
    /\ queue' = SubSeq(queue, 1, Len(queue) - 1)
    /\ UNCHANGED <<row, tree, request, reusable, overtaken, contested>>

ClaimNextJob ==
    /\ worker.pc = "idle"
    /\ queue # <<>>
    /\ worker' = [NoJob EXCEPT !.pc = "open", !.ws = Head(queue).ws,
                               !.kind = Head(queue).kind]
    /\ queue' = Tail(queue)
    /\ UNCHANGED <<row, tree, request, reusable, overtaken, contested>>

OpenAnyPreparation ==   \* variant: whatever the status is
    /\ On("prepare", "open")
    /\ IF Usable(Here)
       THEN worker' = [worker EXCEPT !.pc = "mark", !.chosen = row[Here].chosen]
       ELSE Proceed("finish")
    /\ OnlyWorker

OpenPreparation ==
    /\ On("prepare", "open")
    /\ IF Usable(Here) /\ Status(Here, {"creating", "initialization_failed"})
       THEN worker' = [worker EXCEPT !.pc = "mark", !.chosen = row[Here].chosen]
       ELSE Proceed("finish")
    /\ OnlyWorker

MarkInitializing ==
    /\ worker.pc = "mark"
    /\ WriteRow([row[Here] EXCEPT !.status = "initializing"], "cloning")

(* UpdatePreparation.                                                      *)
EnterStage ==
    /\ worker.pc \in StageWrites
    /\ WriteRow([row[Here] EXCEPT !.stage = worker.pc],
                CASE worker.pc = "cloning"    -> "clone"
                  [] worker.pc = "analyzing"  -> "analyze"
                  [] worker.pc = "installing" -> IF worker.fresh THEN "wait" ELSE "setup"
                  [] worker.pc = "verifying"  -> "verify"
                  [] worker.pc = "sealing"    -> "complete")

(* A directory with a .git in it is taken for a finished clone.            *)
CloneRepository ==
    /\ worker.pc = "clone"
    /\ \/ /\ tree[Here] # "none"
          /\ Proceed("analyzing")
          /\ OnlyWorker
       \/ /\ tree[Here] = "none"
          /\ tree' = [tree EXCEPT ![Here] = "base"]
          /\ Proceed(IF Here \in NewBranch THEN "switch" ELSE "analyzing")
          /\ UNCHANGED <<row, queue, request, reusable, overtaken, contested>>
       \/ tree[Here] \in {"none", "partial"} /\ Fail

SwitchBranch ==
    /\ worker.pc = "switch"
    /\ \/ /\ tree[Here] = "base"
          /\ tree' = [tree EXCEPT ![Here] = "branch"]
          /\ Proceed("analyzing")
          /\ UNCHANGED <<row, queue, request, reusable, overtaken, contested>>
       \/ Fail

AnalyzeUnrecorded ==   \* variant: an analysis that fails is only returned
    /\ worker.pc = "analyze"
    /\ \/ Whole(Here) /\ Proceed("find") /\ OnlyWorker
       \/ /\ tree[Here] # "none" /\ ~worker.chosen
          /\ WriteRow([row[Here] EXCEPT !.status = "needs_configuration",
                         !.stage = "needs_configuration", !.chosen = FALSE], "finish")
       \/ Proceed("finish") /\ OnlyWorker

AnalyzeRenamed ==   \* variant: a stage the package does not name
    /\ worker.pc = "analyze"
    /\ \/ Whole(Here) /\ Proceed("find") /\ OnlyWorker
       \/ /\ tree[Here] # "none" /\ ~worker.chosen
          /\ WriteRow([row[Here] EXCEPT !.status = "needs_configuration",
                         !.stage = "configuring", !.chosen = FALSE], "finish")
       \/ Fail

(* The project, then the Git baseline: several project roots and none yet  *)
(* selected, a project or a clone that cannot be read, or both fine.       *)
Analyze ==
    /\ worker.pc = "analyze"
    /\ \/ Whole(Here) /\ Proceed("find") /\ OnlyWorker
       \/ /\ tree[Here] # "none" /\ ~worker.chosen
          /\ WriteRow([row[Here] EXCEPT !.status = "needs_configuration",
                         !.stage = "needs_configuration", !.chosen = FALSE], "finish")
       \/ Fail

(* Reuse a ready version with this fingerprint, or create a pending one.   *)
FindVersion ==
    /\ worker.pc = "find"
    /\ \E found \in BOOLEAN :
          /\ found => reusable
          /\ worker' = [worker EXCEPT !.pc = "bind", !.fresh = ~found]
    /\ OnlyWorker

BindVersion ==
    /\ worker.pc = "bind"
    /\ WriteRow([row[Here] EXCEPT !.version = IF worker.fresh THEN "pending" ELSE "ready"],
                "installing")

WaitForBuild ==
    /\ worker.pc = "wait"
    /\ WriteRow([row[Here] EXCEPT !.status = "waiting_environment"], "enqueue")

(* StartEnvironmentBuild as the preparation calls it: an archived workspace *)
(* fails, and the new version with it.                                      *)
RequestBuild ==
    /\ worker.pc = "enqueue"
    /\ \/ Buildable(Here) /\ Proceed("check") /\ OnlyWorker
       \/ /\ ~Buildable(Here)
          /\ Update(Here, [row[Here] EXCEPT !.status = "initialization_failed",
                                            !.stage = "failed", !.version = "failed"])
          /\ Proceed("finish")
          /\ RowByWorker

RequestBuildUnlessBusy ==   \* variant: any job of the workspace will do
    /\ worker.pc = "check"
    /\ Proceed(IF HasJob(Here) THEN "finish" ELSE "insert")
    /\ OnlyWorker

RequestBuildOnce ==
    /\ worker.pc = "check"
    /\ Proceed(IF HasActiveJob(Here, "build") THEN "finish" ELSE "insert")
    /\ OnlyWorker

InsertBuild ==
    /\ worker.pc = "insert"
    /\ CreateJob(Here, "build")
    /\ Proceed("finish")
    /\ UNCHANGED <<row, tree, request, reusable, overtaken, contested>>

(* A snapshot is restored or the setup command runs. *)
SetUp ==
    /\ On("prepare", "setup")
    /\ \/ Proceed("verifying") /\ OnlyWorker
       \/ Fail

(* executeEnvironmentBuild: nothing to do for a version that is ready.     *)
OpenBuild ==
    /\ On("build", "open")
    /\ IF Buildable(Here)
       THEN worker' = [worker EXCEPT !.pc = "setup",
                                     !.waiting = Status(Here, {"waiting_environment"})]
       ELSE Proceed("finish")
    /\ OnlyWorker

BuildUnsealed ==   \* variant: the version is left as it was
    /\ On("build", "setup")
    /\ Whole(Here)
    /\ Proceed(IF worker.waiting THEN "verifying" ELSE "finish")
    /\ OnlyWorker

(* The setup passes and the version becomes ready.                         *)
Build ==
    /\ On("build", "setup")
    /\ Whole(Here)
    /\ Update(Here, [row[Here] EXCEPT !.version = "ready"])
    /\ reusable' = TRUE
    /\ Proceed(IF worker.waiting THEN "verifying" ELSE "finish")
    /\ UNCHANGED <<tree, queue, request, overtaken, contested>>

(* The setup fails, or a command before it does: that one nobody records.  *)
BuildFails ==
    /\ On("build", "setup")
    /\ \/ /\ Update(Here, [row[Here] EXCEPT !.version = "failed",
               !.status = IF worker.waiting THEN "initialization_failed" ELSE @,
               !.stage = IF worker.waiting THEN "failed" ELSE @])
          /\ Proceed("finish")
          /\ RowByWorker
       \/ Proceed("finish") /\ OnlyWorker

(* git status once more.  Only the inline path records that it failed.     *)
Verify ==
    /\ worker.pc = "verify"
    /\ \/ Whole(Here) /\ Proceed("sealing") /\ OnlyWorker
       \/ worker.kind = "prepare" /\ Fail
       \/ worker.kind = "build" /\ Proceed("finish") /\ OnlyWorker

CompletePreparation ==
    /\ worker.pc = "complete"
    /\ WriteRow([row[Here] EXCEPT !.status = "ready", !.stage = "ready"], "finish")

FinishJob ==
    /\ worker.pc = "finish"
    /\ worker' = NoJob
    /\ OnlyWorker

-----------------------------------------------------------------------------
(* Interruptions.                                                          *)

(* The client goes away: the context of the request is canceled and its    *)
(* next statement fails, the one that would record the failure with it.    *)
Disconnect(q) == ~At(q, "idle") /\ Answer(q) /\ OnlyRequest

(* What may be left of a directory that is being cloned or removed.        *)
Interrupted(w) ==
    {tree[w]}
      \cup (IF worker.pc = "clone" /\ Here = w /\ tree[w] = "none"
            THEN {"partial", "base"} ELSE {})
      \cup (IF (\E q \in Requests : At(q, "remove") /\ Target(q) = w) /\ tree[w] # "none"
            THEN {"partial", "none"} ELSE {})

(* recoverInterruptedWork. *)
RecoverMarked(w, S) ==
    IF Status(w, S)
    THEN [row[w] EXCEPT !.status = "initialization_failed", !.stage = "failed"]
    ELSE row[w]

RecoverCreating(w) == RecoverMarked(w, {"creating", "waiting_environment"})   \* variant
RecoverInterruptedWork(w) ==
    RecoverMarked(w, {"creating", "initializing", "waiting_environment"})

(* The process dies or stops and starts again.  RecoverJobs fails every    *)
(* active job; Recover deletes what was to be deleted, before anything is  *)
(* served, and leaves deletion_failed where that does not succeed.         *)
Restart ==
    LET doomed == {w \in Workspaces : Status(w, {"deleting", "deletion_failed"})} IN
    \E deleted \in SUBSET doomed, left \in [Workspaces -> Trees] :
       /\ \A w \in Workspaces : left[w] \in
             IF w \in deleted THEN {"none"}
             ELSE IF w \in doomed THEN
                     IF tree[w] = "none" THEN {"none"} ELSE {tree[w], "partial", "none"}
             ELSE Interrupted(w)
       /\ tree' = left
       /\ row' = [w \in Workspaces |->
             IF w \in deleted THEN [NoRow EXCEPT !.status = "gone"]
             ELSE IF w \in doomed THEN [row[w] EXCEPT !.status = "deletion_failed"]
             ELSE RecoverInterruptedWork(w)]
       /\ queue' = <<>>
       /\ worker' = NoJob
       /\ request' = [q \in Requests |-> NoRequest]
       /\ UNCHANGED <<reusable, overtaken, contested>>

-----------------------------------------------------------------------------
Arrives(q, w) ==
    \/ CreateWorkspace(q, w) \/ StartPreparation(q, w) \/ ConfigureProjectRoot(q, w)
    \/ RebuildEnvironment(q, w) \/ Stop(q, w) \/ Resume(q, w)
    \/ Archive(q, w) \/ RestoreArchived(q, w) \/ Delete(q, w)

Continues(q) ==
    \/ FindActive(q) \/ CheckStatus(q) \/ EnqueuePreparation(q)
    \/ SelectProjectRoot(q) \/ FindActiveBuild(q) \/ EnqueueBuild(q)
    \/ MarkStopped(q) \/ MarkReady(q)
    \/ StopToArchive(q) \/ SetArchived(q) \/ ClearArchived(q)
    \/ MarkDeleting(q) \/ RemoveFiles(q) \/ DeletionFails(q) \/ EraseRow(q)

Prepare ==
    \/ OpenPreparation \/ MarkInitializing \/ EnterStage
    \/ CloneRepository \/ SwitchBranch \/ Analyze \/ FindVersion \/ BindVersion
    \/ WaitForBuild \/ RequestBuild \/ RequestBuildOnce \/ InsertBuild \/ SetUp

WorkerStep ==
    \/ ClaimNextJob \/ Prepare
    \/ OpenBuild \/ Build \/ BuildFails
    \/ Verify \/ CompletePreparation \/ FinishJob

Serving == \/ \E q \in Requests : Continues(q) \/ \E w \in Workspaces : Arrives(q, w)
           \/ WorkerStep

Interrupting == Restart \/ \E q \in Requests : Disconnect(q)

Next == Serving \/ Interrupting

Spec == Init /\ [][Next]_vars

(* Where the worker's next statement waits for git: clone and checkout,    *)
(* rev-parse and status, the status before a build and the one after.      *)
AtGit == worker.pc \in {"clone", "switch", "analyze", "verify"} \/ On("build", "setup")

(* RunWorker loops for ever, its setup commands end at their timeouts and  *)
(* a handler runs to its answer.  Users, clients and crashes owe nothing.  *)
Progress ==
    /\ WF_vars(~AtGit /\ WorkerStep)
    /\ \A q \in Requests : WF_vars(Continues(q))

(* An assumption about the world that the code does nothing to enforce:    *)
(* git is given no timeout (git.go:38-66, its context is the server's), so *)
(* a remote that never answers keeps the only worker for good.             *)
GitReturns == WF_vars(AtGit /\ WorkerStep)

FairSpec == Spec /\ Progress /\ GitReturns

-----------------------------------------------------------------------------
(* Properties.                                                             *)

(* What still serves a workspace that waits for its environment.           *)
Served(w) ==
    \/ HasActiveJob(w, "build")
    \/ worker.ws = w /\ worker.pc \in {"enqueue", "check", "insert"}

Stranded(w) == Status(w, {"waiting_environment"}) /\ ~Served(w)

(* This step is the write of a request that read a row that was not yet    *)
(* to be deleted, and that looks at it no more.                            *)
HadRead(q) == MarkStopped(q) \/ MarkReady(q) \/ StopToArchive(q) \/ SelectProjectRoot(q)

(* A workspace that says initializing is in the hands of the job worker:   *)
(* no error path of the preparation, no user and no restart leaves it      *)
(* there alone (preparation.go:28-182, recovery.go:11-24).                 *)
InitializingIsServed ==
    \A w \in Workspaces :
        Status(w, {"initializing"}) =>
            Running(w, "prepare") /\ worker.pc \notin {"open", "mark", "finish"}

(* A workspace that says ready or stopped is prepared: its stage is ready, *)
(* its clone is whole and its version is ready, after any failures,        *)
(* retries, rebuilds, archives and restarts, unless a request or a         *)
(* deletion overtook it (preparation.go:276-295, service.go:113-138).      *)
ReadyIsPrepared ==
    \A w \in Workspaces \ overtaken :
        Status(w, {"ready", "stopped"}) =>
            row[w].stage = "ready" /\ row[w].version = "ready" /\ Whole(w)

(* No directory outlives its workspace, whatever a removal leaves behind   *)
(* when it fails or the process dies in it, whatever requests write on the *)
(* row meanwhile and whatever restarts come.  Excepted is a contested      *)
(* workspace: a job was active when its deletion began, or a project root  *)
(* was chosen while its files were removed (deletion.go:42-61).            *)
NoOrphanTree ==
    \A w \in Workspaces \ contested : Exists(w) \/ tree[w] = "none"

(* A prepared workspace is never prepared again: two requests may enqueue  *)
(* two preparations, since looking for a job and inserting one are two     *)
(* statements, but a job that comes late does no harm (job_worker.go:17-37,*)
(* preparation.go:25).  Excepted is a workspace that a request overtook:   *)
(* one whose row was written after it ceased to allow the request, or      *)
(* whose deletion began under an active job.                               *)
PreparedStays ==
    [][\A w \in Workspaces :
          Status(w, {"ready", "stopped"}) /\ w \notin overtaken' =>
              row'[w].status \in {"ready", "stopped", "deleting"}]_vars

(* Once the deletion of a workspace is under way no job, no archive or     *)
(* restore, no failure, no restart and no request that comes later makes   *)
(* its row say anything but gone or failed to delete.  What may still take *)
(* it out is the one write of a stop, resume, archive of a ready workspace *)
(* or choice of a project root that had read the row before: only the      *)
(* deletion holds deleteMu (deletion.go:32-61, service.go:89-138).         *)
(* Excepted is a contested workspace, as above.                            *)
QuietDeletionIsFinal ==
    [][\A w \in Workspaces :
          Status(w, {"deleting"}) /\ w \notin contested' =>
              \/ row'[w].status \in {"deleting", "deletion_failed", "gone"}
              \/ \E q \in Requests : Target(q) = w /\ HadRead(q)]_vars

(* Every queued job is taken, whatever else users enqueue meanwhile, if    *)
(* git always returns (jobs.go:176-178).                                   *)
QueuedJobIsTaken ==
    \A w \in Workspaces, k \in Kinds : (Queued(w, k) # {}) ~> (Queued(w, k) = {})

(* A workspace that waits for its environment keeps what serves it: until  *)
(* it leaves the state, its preparation is about to enqueue a build or one *)
(* is queued or running.  Only the end of a build leaves one behind: it    *)
(* records nothing when the workspace was archived or a git command failed *)
(* (preparation.go:145-155, 240-296).                                      *)
WaitingIsServed ==
    [][\A w \in Workspaces :
          Status(w, {"waiting_environment"}) /\ Served(w)
            /\ row'[w].status = "waiting_environment"
          => Served(w)' \/ (Running(w, "build") /\ worker.pc = "finish")]_vars

(* A preparation comes to an end that the row tells of, if git always      *)
(* returns: the workspace leaves both initializing and waiting_environment,*)
(* or it is stranded by a build as above (preparation.go:17-182, 240-296). *)
PreparationEnds ==
    \A w \in Workspaces :
        Status(w, {"initializing"}) ~>
            ~Status(w, {"initializing", "waiting_environment"}) \/ Stranded(w)

(* A deletion waits for the work on a workspace and is final from then on  *)
(* (deletion.go:32-42).                                                    *)
DeletionIsFinal ==
    [][\A w \in Workspaces :
          Status(w, {"deleting"}) =>
              row'[w].status \in {"deleting", "deletion_failed", "gone"}]_vars
=============================================================================
