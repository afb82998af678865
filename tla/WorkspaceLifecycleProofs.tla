----------------------- MODULE WorkspaceLifecycleProofs -----------------------
(***************************************************************************)
(* What holds of workspaces for every number of workspaces and requests.   *)
(***************************************************************************)
EXTENDS WorkspaceLifecycle, SequenceTheorems, FiniteSetTheorems, TLAPS

(* A request that is under way has a workspace.                            *)
RequestInv ==
    /\ request \in [Requests -> [pc : RequestControl, ws : Workspaces \cup {NoWorkspace}]]
    /\ \A q \in Requests : request[q].pc # "idle" => request[q].ws \in Workspaces

(* So has a worker that executes a job; a build never is where only a      *)
(* preparation goes.                                                       *)
BuildControl == {"open", "setup", "verifying", "verify", "sealing", "complete", "finish"}

WorkerInv ==
    /\ worker \in Execution
    /\ worker.pc # "idle" => worker.ws \in Workspaces
    /\ worker.pc # "idle" /\ worker.kind = "build" => worker.pc \in BuildControl

StoreInv ==
    /\ row \in [Workspaces -> Row]
    /\ tree \in [Workspaces -> Trees]
    /\ queue \in Seq(Jobs)
    /\ reusable \in BOOLEAN
    /\ overtaken \in SUBSET Workspaces
    /\ contested \in SUBSET Workspaces

(* Where a preparation stands while its workspace says initializing: from  *)
(* the statement that says so to the one that says something else.         *)
InHand == {"cloning", "clone", "switch", "analyzing", "analyze", "find", "bind",
           "installing", "wait", "setup", "verifying", "verify", "sealing", "complete"}

ServedInv ==
    \A w \in Workspaces :
        Status(w, {"initializing"}) =>
            worker.ws = w /\ worker.kind = "prepare" /\ worker.pc \in InHand

IInv == StoreInv /\ RequestInv /\ WorkerInv /\ ServedInv

-----------------------------------------------------------------------------
(* Types.                                                                  *)

(* A row after an assignment to one of its columns.                        *)
LEMMA RowFields ==
    ASSUME NEW r \in Row
    PROVE  /\ \A s \in Statuses : [r EXCEPT !.status = s] \in Row
           /\ \A t \in Stages : [r EXCEPT !.stage = t] \in Row
           /\ \A v \in Versions : [r EXCEPT !.version = v] \in Row
           /\ \A c \in BOOLEAN : [r EXCEPT !.chosen = c] \in Row
           /\ \A a \in BOOLEAN : [r EXCEPT !.archived = a] \in Row
<1>1. \A s \in Statuses : [r EXCEPT !.status = s] \in Row
  BY SMT DEF Row
<1>2. \A t \in Stages : [r EXCEPT !.stage = t] \in Row
  BY SMT DEF Row
<1>3. \A v \in Versions : [r EXCEPT !.version = v] \in Row
  BY SMT DEF Row
<1>4. \A c \in BOOLEAN : [r EXCEPT !.chosen = c] \in Row
  BY SMT DEF Row
<1>5. \A a \in BOOLEAN : [r EXCEPT !.archived = a] \in Row
  BY SMT DEF Row
<1>. QED  BY <1>1, <1>2, <1>3, <1>4, <1>5

(* A row after an assignment to several of its columns.                   *)
LEMMA RowColumns ==
    ASSUME NEW r \in Row, NEW s \in Statuses, NEW t \in Stages, NEW v \in Versions
    PROVE  /\ [r EXCEPT !.status = s, !.stage = t] \in Row
           /\ \A c \in BOOLEAN : [r EXCEPT !.status = s, !.stage = t, !.chosen = c] \in Row
           /\ [r EXCEPT !.status = s, !.stage = t, !.version = v] \in Row
           /\ [r EXCEPT !.version = v, !.status = s, !.stage = t] \in Row
<1>. DEFINE rs  == [r EXCEPT !.status = s]
            rst == [rs EXCEPT !.stage = t]
            rv  == [r EXCEPT !.version = v]
            rvs == [rv EXCEPT !.status = s]
<1>1. rst \in Row /\ [r EXCEPT !.status = s, !.stage = t] = rst
  <2>1. rs \in Row
    BY RowFields
  <2>2. rst \in Row
    BY <2>1, RowFields
  <2>. QED  BY <2>2, SMT DEF Row
<1>. HIDE DEF rs, rst, rv, rvs
<1>2. \A c \in BOOLEAN : [r EXCEPT !.status = s, !.stage = t, !.chosen = c] \in Row
  <2>. SUFFICES ASSUME NEW c \in BOOLEAN
                PROVE  [r EXCEPT !.status = s, !.stage = t, !.chosen = c] \in Row
    OBVIOUS
  <2>1. [rst EXCEPT !.chosen = c] \in Row
    BY <1>1, RowFields
  <2>2. [r EXCEPT !.status = s, !.stage = t, !.chosen = c] = [rst EXCEPT !.chosen = c]
    BY SMT DEF Row, rs, rst
  <2>. QED  BY <2>1, <2>2
<1>3. [r EXCEPT !.status = s, !.stage = t, !.version = v] \in Row
  <2>1. [rst EXCEPT !.version = v] \in Row
    BY <1>1, RowFields
  <2>2. [r EXCEPT !.status = s, !.stage = t, !.version = v] = [rst EXCEPT !.version = v]
    BY SMT DEF Row, rs, rst
  <2>. QED  BY <2>1, <2>2
<1>4. [r EXCEPT !.version = v, !.status = s, !.stage = t] \in Row
  <2>1. rvs \in Row
    <3>1. rv \in Row
      BY RowFields DEF rv
    <3>. QED  BY <3>1, RowFields DEF rvs
  <2>2. [rvs EXCEPT !.stage = t] \in Row
    BY <2>1, RowFields
  <2>3. [r EXCEPT !.version = v, !.status = s, !.stage = t] = [rvs EXCEPT !.stage = t]
    BY SMT DEF Row, rv, rvs
  <2>. QED  BY <2>2, <2>3
<1>. QED  BY <1>1, <1>2, <1>3, <1>4

(* The row of a workspace that does not exist, with any status.            *)
LEMMA NoRowStatus ==
    ASSUME NEW s \in Statuses
    PROVE  NoRow \in Row /\ [NoRow EXCEPT !.status = s] \in Row
<1>1. NoRow \in Row
  BY SMT DEF NoRow, Row, Statuses, Stages, Versions
<1>. QED  BY <1>1, RowFields

(* An update with a row keeps the type of the table.                       *)
LEMMA UpdateType ==
    ASSUME StoreInv, NEW w \in Workspaces, NEW r \in Row, Update(w, r)
    PROVE  row' \in [Workspaces -> Row]
BY SMT DEF StoreInv, Update

(* A job that is inserted keeps the type of the queue.                     *)
LEMMA CreateJobType ==
    ASSUME StoreInv, NEW w \in Workspaces, NEW k \in Kinds, CreateJob(w, k)
    PROVE  queue' \in Seq(Jobs)
<1>1. [ws |-> w, kind |-> k] \in Jobs
  BY SMT DEF Jobs
<1>. QED  BY <1>1, AppendProperties, SMT DEF CreateJob, StoreInv

-----------------------------------------------------------------------------
(* What a request does to itself.                                          *)

(* A request that arrives names a workspace.                              *)
LEMMA StartKeeps ==
    ASSUME RequestInv, NEW q \in Requests, NEW w \in Workspaces,
           NEW l \in RequestControl, Start(q, w, l)
    PROVE  RequestInv'
BY SMT DEF RequestInv, Start

(* One that goes on keeps it.                                             *)
LEMMA GoOnKeeps ==
    ASSUME RequestInv, NEW q \in Requests, request[q].pc # "idle",
           NEW l \in RequestControl, GoOn(q, l)
    PROVE  RequestInv'
BY SMT DEF RequestInv, GoOn

(* One that is answered is idle again.                                    *)
LEMMA AnswerKeeps ==
    ASSUME RequestInv, NEW q \in Requests, Answer(q)
    PROVE  RequestInv'
BY SMT DEF RequestInv, Answer, NoRequest, RequestControl

(* A step of a request that only moves itself.                             *)
LEMMA OnlyRequestKeeps ==
    ASSUME IInv, OnlyRequest, RequestInv'
    PROVE  IInv'
BY SMT DEF IInv, OnlyRequest, StoreInv, WorkerInv, ServedInv, Status

(* A row that a request writes, or that a job writes as a failure, does    *)
(* not begin to say initializing.                                          *)
LEMMA UpdateServed ==
    ASSUME StoreInv, ServedInv, NEW w \in Workspaces, NEW r \in Row,
           r.status \in {"initializing"} => row[w].status = "initializing",
           Update(w, r), worker' = worker
    PROVE  ServedInv'
BY SMT DEF StoreInv, ServedInv, Status, Update

(* A write of a request keeps the invariant.                               *)
LEMMA WriteKeeps ==
    ASSUME IInv, NEW q \in Requests, request[q].pc # "idle",
           NEW r \in Row, NEW l \in RequestControl,
           r.status \in {"initializing"} => row[Target(q)].status = "initializing",
           Write(q, r, l)
    PROVE  IInv'
<1>1. Target(q) \in Workspaces
  BY SMT DEF IInv, RequestInv, Target
<1>2. StoreInv'
  <2>1. row' \in [Workspaces -> Row]
    BY <1>1, UpdateType, Zenon DEF Write, IInv
  <2>2. overtaken' \in SUBSET Workspaces
    BY <1>1, SMT DEF Write, IInv, StoreInv
  <2>3. contested' \in SUBSET Workspaces
    BY <1>1, SMT DEF Write, IInv, StoreInv
  <2>. QED  BY <2>1, <2>2, <2>3, SMT DEF Write, IInv, StoreInv
<1>3. RequestInv'
  BY GoOnKeeps, AnswerKeeps, Zenon DEF Write, IInv
<1>4. WorkerInv'
  BY SMT DEF Write, IInv, WorkerInv
<1>5. ServedInv'
  BY <1>1, UpdateServed, Zenon DEF Write, IInv
<1>. QED  BY <1>2, <1>3, <1>4, <1>5 DEF IInv

-----------------------------------------------------------------------------
(* What the worker does to itself.                                         *)

(* The worker after it moved along and assigned one of its locals.         *)
LEMMA JobFields ==
    ASSUME worker \in Execution, NEW l \in WorkerControl, NEW b \in BOOLEAN
    PROVE  \A f \in {[worker EXCEPT !.pc = l, !.chosen = b],
                     [worker EXCEPT !.pc = l, !.fresh = b],
                     [worker EXCEPT !.pc = l, !.waiting = b]} :
               f \in Execution /\ f.pc = l /\ f.ws = worker.ws /\ f.kind = worker.kind
<1>. DEFINE moved == [worker EXCEPT !.pc = l]
<1>1. moved \in Execution /\ moved.pc = l /\ moved.ws = worker.ws /\ moved.kind = worker.kind
  BY SMT DEF Execution
<1>2. /\ [worker EXCEPT !.pc = l, !.chosen = b] = [moved EXCEPT !.chosen = b]
      /\ [worker EXCEPT !.pc = l, !.fresh = b] = [moved EXCEPT !.fresh = b]
      /\ [worker EXCEPT !.pc = l, !.waiting = b] = [moved EXCEPT !.waiting = b]
  BY SMT DEF Execution
<1>. HIDE DEF moved
<1>3. \A f \in {[moved EXCEPT !.chosen = b], [moved EXCEPT !.fresh = b],
               [moved EXCEPT !.waiting = b]} :
          f \in Execution /\ f.pc = moved.pc /\ f.ws = moved.ws /\ f.kind = moved.kind
  BY <1>1, SMT DEF Execution
<1>. QED  BY <1>1, <1>2, <1>3

(* The worker as it takes a job.                                          *)
LEMMA NewJob ==
    ASSUME NEW w \in Workspaces, NEW k \in Kinds
    PROVE  LET j == [NoJob EXCEPT !.pc = "open", !.ws = w, !.kind = k] IN
           j \in Execution /\ j.pc = "open" /\ j.ws = w
<1>. DEFINE open == [NoJob EXCEPT !.pc = "open"]
            bound == [open EXCEPT !.ws = w]
            j == [bound EXCEPT !.kind = k]
<1>1. NoJob \in Execution
  BY SMT DEF NoJob, Execution, WorkerControl, Kinds
<1>2. open \in Execution /\ open.pc = "open"
  BY <1>1, SMT DEF Execution, WorkerControl
<1>3. [NoJob EXCEPT !.pc = "open", !.ws = w, !.kind = k] = j
  BY <1>1, SMT DEF Execution
<1>. HIDE DEF open
<1>4. bound \in Execution /\ bound.pc = "open" /\ bound.ws = w
  BY <1>2, SMT DEF Execution
<1>. HIDE DEF bound
<1>5. j \in Execution /\ j.pc = "open" /\ j.ws = w
  BY <1>4, SMT DEF Execution
<1>. HIDE DEF j
<1>. QED  BY <1>3, <1>5

(* A step of the worker that moves it along, and leaves the row alone.     *)
LEMMA ProceedKeeps ==
    ASSUME WorkerInv, worker.pc # "idle", NEW l \in WorkerControl,
           worker.kind = "build" => l \in BuildControl,
           Proceed(l)
    PROVE  WorkerInv'
BY SMT DEF WorkerInv, Execution, Proceed

(* A worker that keeps its job keeps serving the workspaces it served,     *)
(* when it stays in hand or they do not say initializing.                  *)
LEMMA SameJobServed ==
    ASSUME ServedInv, UNCHANGED row, worker'.ws = worker.ws, worker'.kind = worker.kind,
           \/ worker'.pc \in InHand
           \/ worker.pc \notin InHand
           \/ worker.kind # "prepare"
    PROVE  ServedInv'
BY SMT DEF ServedInv, Status

(* A write of the worker on its row.                                       *)
LEMMA WriteRowKeeps ==
    ASSUME IInv, worker.pc # "idle", NEW r \in Row, NEW l \in WorkerControl,
           worker.kind = "build" => l \in BuildControl,
           \/ r.status # "initializing"
           \/ worker.kind = "prepare" /\ l \in InHand
           \/ worker.kind = "build" /\ r.status = row[Here].status,
           WriteRow(r, l)
    PROVE  IInv'
<1>1. Here \in Workspaces
  BY SMT DEF IInv, WorkerInv, Here
<1>2. StoreInv'
  <2>1. row' \in [Workspaces -> Row]
    BY <1>1, UpdateType, Zenon DEF WriteRow, IInv
  <2>. QED  BY <2>1, SMT DEF WriteRow, RowByWorker, IInv, StoreInv
<1>3. RequestInv'
  BY SMT DEF WriteRow, RowByWorker, IInv, RequestInv
<1>4. WorkerInv'
  BY ProceedKeeps, SMT DEF WriteRow, IInv, WorkerControl, BuildControl
<1>5. ServedInv'
  BY <1>1, SMT DEF WriteRow, Proceed, Update, Exists, Status, Here,
                   IInv, StoreInv, WorkerInv, Execution, ServedInv, InHand
<1>. QED  BY <1>2, <1>3, <1>4, <1>5 DEF IInv

(* The worker records a failure.                                           *)
LEMMA FailKeeps ==
    ASSUME IInv, worker.pc # "idle", Fail
    PROVE  IInv'
<1>. DEFINE r == [row[Here] EXCEPT !.status = "initialization_failed", !.stage = "failed"]
<1>1. Here \in Workspaces
  BY SMT DEF IInv, WorkerInv, Here
<1>2. r \in Row /\ r.status # "initializing"
  <2>1. row[Here] \in Row
    BY <1>1 DEF IInv, StoreInv
  <2>2. r \in Row
    BY <2>1, RowColumns, Zenon DEF Statuses, Stages, Versions
  <2>. QED  BY <2>1, <2>2, SMT DEF Row
<1>3. WriteRow(r, "finish")
  BY SMT DEF Fail, FailPreparation, WriteRow
<1>4. "finish" \in WorkerControl /\ "finish" \in BuildControl
  BY DEF WorkerControl, BuildControl
<1>. HIDE DEF r
<1>. QED  BY <1>2, <1>3, <1>4, WriteRowKeeps

-----------------------------------------------------------------------------
(* Requests keep the invariant.                                            *)

(* A request that arrives writes no row that says initializing.           *)
LEMMA ArrivesKeeps ==
    ASSUME IInv, NEW q \in Requests, NEW w \in Workspaces, Arrives(q, w)
    PROVE  IInv'
<1>1. ASSUME NEW l \in RequestControl, Start(q, w, l), OnlyRequest
      PROVE  IInv'
  BY <1>1, StartKeeps, OnlyRequestKeeps DEF IInv
<1>2. ASSUME NEW l \in RequestControl, Request(q, w, l)
      PROVE  IInv'
  BY <1>1, <1>2 DEF Request
<1>3. CASE CreateWorkspace(q, w)
  <2>1. StoreInv'
    <3>1. [NoRow EXCEPT !.status = "creating"] \in Row
      BY NoRowStatus DEF Statuses
    <3>. QED  BY <1>3, <3>1, SMT DEF CreateWorkspace, OnlyRow, IInv, StoreInv
  <2>2. RequestInv'
    BY <1>3, StartKeeps DEF CreateWorkspace, IInv, RequestControl
  <2>3. WorkerInv' /\ ServedInv'
    BY <1>3, SMT DEF CreateWorkspace, OnlyRow, NoRow, IInv, StoreInv, WorkerInv, ServedInv, Status
  <2>. QED  BY <2>1, <2>2, <2>3 DEF IInv
<1>4. CASE StartPreparation(q, w)
  BY <1>1, <1>4 DEF StartPreparation, RequestControl
<1>5. CASE RebuildEnvironment(q, w)
  BY <1>1, <1>5 DEF RebuildEnvironment, RequestControl
<1>6. CASE ConfigureProjectRoot(q, w)
  BY <1>2, <1>6 DEF ConfigureProjectRoot, RequestControl
<1>7. CASE Stop(q, w)
  BY <1>2, <1>7 DEF Stop, RequestControl
<1>8. CASE Resume(q, w)
  BY <1>2, <1>8 DEF Resume, RequestControl
<1>9. CASE Archive(q, w)
  BY <1>2, <1>9 DEF Archive, RequestControl
<1>10. CASE RestoreArchived(q, w)
  BY <1>2, <1>10 DEF RestoreArchived, RequestControl
<1>11. CASE Delete(q, w)
  BY <1>2, <1>11 DEF Delete, RequestControl, Deleting
<1>. QED  BY <1>3, <1>4, <1>5, <1>6, <1>7, <1>8, <1>9, <1>10, <1>11 DEF Arrives

(* Nor does one that goes on, and a deletion writes over one that does.   *)
LEMMA ContinuesKeeps ==
    ASSUME IInv, NEW q \in Requests, Continues(q)
    PROVE  IInv'
<1>. DEFINE w == Target(q)
<1>1. request[q].pc # "idle"
  BY SMT DEF Continues, At, FindActive, CheckStatus, EnqueuePreparation, SelectProjectRoot,
             FindActiveBuild, EnqueueBuild, MarkStopped, MarkReady, StopToArchive, SetArchived,
             ClearArchived, MarkDeleting, RemoveFiles, DeletionFails, EraseRow
<1>2. w \in Workspaces /\ row[w] \in Row
  BY <1>1, SMT DEF IInv, RequestInv, StoreInv, Target
<1>3. ASSUME OnlyRequest, Answer(q) \/ \E l \in RequestControl : GoOn(q, l)
      PROVE  IInv'
  BY <1>1, <1>3, AnswerKeeps, GoOnKeeps, OnlyRequestKeeps DEF IInv
<1>4. ASSUME NEW k \in Kinds, CreateJob(w, k), Answer(q),
             UNCHANGED <<row, tree, worker, reusable, overtaken, contested>>
      PROVE  IInv'
  <2>1. StoreInv'
    BY <1>2, <1>4, CreateJobType, SMT DEF IInv, StoreInv
  <2>2. RequestInv'
    BY <1>4, AnswerKeeps DEF IInv
  <2>3. WorkerInv' /\ ServedInv'
    BY <1>4, SMT DEF IInv, WorkerInv, ServedInv, Status
  <2>. QED  BY <2>1, <2>2, <2>3 DEF IInv
<1>5. ASSUME NEW s \in Statuses, s # "initializing", NEW l \in RequestControl,
             Write(q, [row[w] EXCEPT !.status = s], l)
      PROVE  IInv'
  <2>1. [row[w] EXCEPT !.status = s] \in Row /\ [row[w] EXCEPT !.status = s].status = s
    BY <1>2, RowFields, SMT DEF Row
  <2>. QED  BY <1>1, <1>5, <2>1, WriteKeeps
<1>6. ASSUME NEW a \in BOOLEAN, NEW l \in RequestControl,
             Write(q, [row[w] EXCEPT !.archived = a], l)
      PROVE  IInv'
  <2>1. /\ [row[w] EXCEPT !.archived = a] \in Row
        /\ [row[w] EXCEPT !.archived = a].status = row[w].status
    BY <1>2, RowFields, SMT DEF Row
  <2>. QED  BY <1>1, <1>6, <2>1, WriteKeeps
<1>7. CASE FindActive(q)
  BY <1>3, <1>7 DEF FindActive, RequestControl
<1>8. CASE CheckStatus(q)
  BY <1>3, <1>8 DEF CheckStatus, RequestControl
<1>9. CASE EnqueuePreparation(q)
  BY <1>4, <1>9 DEF EnqueuePreparation, Kinds
<1>10. CASE SelectProjectRoot(q)
  <2>. DEFINE r == [row[w] EXCEPT !.status = "creating", !.stage = "pending", !.chosen = TRUE]
  <2>1. r \in Row
    BY <1>2, RowColumns, Zenon DEF Statuses, Stages, Versions
  <2>2. r.status = "creating"
    BY <1>2, SMT DEF Row
  <2>3. Write(q, r, "prepare") /\ "prepare" \in RequestControl
    BY <1>10 DEF SelectProjectRoot, RequestControl
  <2>. HIDE DEF r
  <2>. QED  BY <1>1, <2>1, <2>2, <2>3, WriteKeeps
<1>11. CASE FindActiveBuild(q)
  BY <1>3, <1>11 DEF FindActiveBuild, RequestControl
<1>12. CASE EnqueueBuild(q)
  BY <1>4, <1>12 DEF EnqueueBuild, Kinds
<1>13. CASE MarkStopped(q)
  BY <1>5, <1>13 DEF MarkStopped, RequestControl, Statuses
<1>14. CASE MarkReady(q)
  BY <1>5, <1>14 DEF MarkReady, RequestControl, Statuses
<1>15. CASE StopToArchive(q)
  BY <1>5, <1>15 DEF StopToArchive, RequestControl, Statuses
<1>16. CASE SetArchived(q)
  BY <1>6, <1>16 DEF SetArchived, RequestControl
<1>17. CASE ClearArchived(q)
  BY <1>6, <1>17 DEF ClearArchived, RequestControl
<1>18. CASE MarkDeleting(q)
  BY <1>5, <1>18 DEF MarkDeleting, RequestControl, Statuses, Deleting
<1>19. CASE RemoveFiles(q)
  <2>1. RequestInv'
    BY <1>1, <1>19, GoOnKeeps DEF RemoveFiles, IInv, RequestControl, Deleting
  <2>2. StoreInv'
    BY <1>2, <1>19, SMT DEF RemoveFiles, IInv, StoreInv, Trees
  <2>3. WorkerInv' /\ ServedInv'
    BY <1>19, SMT DEF RemoveFiles, IInv, WorkerInv, ServedInv, Status
  <2>. QED  BY <2>1, <2>2, <2>3 DEF IInv
<1>20. CASE DeletionFails(q)
  <2>. DEFINE r == [row[w] EXCEPT !.status = "deletion_failed"]
  <2>1. r \in Row /\ r.status = "deletion_failed"
    <3>1. "deletion_failed" \in Statuses
      BY DEF Statuses
    <3>2. r \in Row
      BY <1>2, <3>1, RowFields
    <3>. QED  BY <1>2, <3>2, SMT DEF Row
  <2>2. Update(w, r) /\ worker' = worker
    BY <1>20 DEF DeletionFails
  <2>3. StoreInv'
    <3>1. row' \in [Workspaces -> Row]
      BY <1>2, <2>1, <2>2, UpdateType DEF IInv
    <3>2. tree' \in [Workspaces -> Trees]
      BY <1>2, <1>20, SMT DEF DeletionFails, IInv, StoreInv, Trees
    <3>. QED  BY <1>20, <3>1, <3>2, SMT DEF DeletionFails, IInv, StoreInv
  <2>4. RequestInv'
    BY <1>20, AnswerKeeps DEF DeletionFails, IInv
  <2>5. ServedInv'
    <3>. HIDE DEF r
    <3>. QED  BY <1>2, <2>1, <2>2, UpdateServed DEF IInv
  <2>. QED  BY <2>2, <2>3, <2>4, <2>5, SMT DEF IInv, WorkerInv
<1>21. CASE EraseRow(q)
  <2>. DEFINE kept == {i \in DOMAIN queue : queue[i].ws # w}
              n == Cardinality(kept)
  <2>1. n \in Nat
    <3>1. IsFiniteSet(DOMAIN queue)
      BY FS_Interval, SMT DEF IInv, StoreInv
    <3>2. IsFiniteSet(kept)
      BY <3>1, FS_Subset
    <3>. QED  BY <3>2, FS_CardinalityType
  <2>2. queue' \in Seq(Jobs)
    <3>1. PICK from \in [1..n -> kept] : queue' = [i \in 1..n |-> queue[from[i]]]
      BY <1>21, Zenon DEF EraseRow
    <3>2. \A i \in 1..n : queue[from[i]] \in Jobs
      BY SMT DEF IInv, StoreInv
    <3>. HIDE DEF n
    <3>. QED  BY <2>1, <3>1, <3>2, SMT
  <2>3. [NoRow EXCEPT !.status = "gone"] \in Row
    BY NoRowStatus DEF Statuses
  <2>4. /\ row' = [row EXCEPT ![w] = [NoRow EXCEPT !.status = "gone"]]
        /\ Answer(q)
        /\ UNCHANGED <<tree, worker, reusable, overtaken, contested>>
    BY <1>21, Zenon DEF EraseRow
  <2>5. StoreInv'
    BY <1>2, <2>2, <2>3, <2>4, SMT DEF IInv, StoreInv
  <2>6. RequestInv'
    BY <2>4, AnswerKeeps DEF IInv
  <2>7. WorkerInv' /\ ServedInv'
    BY <1>2, <2>4, SMT DEF IInv, StoreInv, WorkerInv, ServedInv, Status, NoRow
  <2>. QED  BY <2>5, <2>6, <2>7 DEF IInv
<1>. QED  BY <1>7, <1>8, <1>9, <1>10, <1>11, <1>12, <1>13, <1>14, <1>15, <1>16,
             <1>17, <1>18, <1>19, <1>20, <1>21 DEF Continues

-----------------------------------------------------------------------------
(* The job worker keeps the invariant.                                     *)

(* A step along the preparation or the build that writes no row.           *)
LEMMA OnlyWorkerKeeps ==
    ASSUME IInv, worker.pc # "idle", NEW l \in WorkerControl,
           worker.kind = "build" => l \in BuildControl,
           \/ l \in InHand
           \/ worker.pc \notin InHand
           \/ worker.kind # "prepare",
           Proceed(l), OnlyWorker
    PROVE  IInv'
<1>1. WorkerInv'
  BY ProceedKeeps DEF IInv
<1>2. ServedInv'
  BY SameJobServed, SMT DEF IInv, WorkerInv, Execution, Proceed, OnlyWorker
<1>3. StoreInv' /\ RequestInv'
  BY SMT DEF IInv, StoreInv, RequestInv, OnlyWorker
<1>. QED  BY <1>1, <1>2, <1>3 DEF IInv

(* The same when the directory changes with it.                            *)
LEMMA TreeStepKeeps ==
    ASSUME IInv, worker.pc # "idle", NEW l \in WorkerControl, l \in InHand,
           worker.kind = "build" => l \in BuildControl,
           Proceed(l), tree' \in [Workspaces -> Trees],
           UNCHANGED <<row, queue, request, reusable, overtaken, contested>>
    PROVE  IInv'
<1>1. WorkerInv'
  BY ProceedKeeps DEF IInv
<1>2. ServedInv'
  BY SameJobServed, SMT DEF IInv, WorkerInv, Execution, Proceed
<1>3. StoreInv' /\ RequestInv'
  BY SMT DEF IInv, StoreInv, RequestInv
<1>. QED  BY <1>1, <1>2, <1>3 DEF IInv

(* The worker takes the oldest job: none of them is in hand yet.           *)
LEMMA ClaimKeeps ==
    ASSUME IInv, ClaimNextJob
    PROVE  IInv'
<1>1. Head(queue) \in Jobs /\ Tail(queue) \in Seq(Jobs)
  BY HeadTailProperties, SMT DEF IInv, StoreInv, ClaimNextJob
<1>2. StoreInv' /\ RequestInv'
  BY <1>1, SMT DEF IInv, StoreInv, RequestInv, ClaimNextJob
<1>3. WorkerInv'
  <2>. DEFINE w == Head(queue).ws
              k == Head(queue).kind
  <2>1. w \in Workspaces /\ k \in Kinds
    BY <1>1, SMT DEF Jobs
  <2>2. worker' \in Execution /\ worker'.pc = "open" /\ worker'.ws = w
    BY <2>1, NewJob DEF ClaimNextJob
  <2>. HIDE DEF w, k
  <2>. QED  BY <2>1, <2>2 DEF WorkerInv, BuildControl
<1>4. ServedInv'
  BY SMT DEF IInv, ServedInv, InHand, Status, ClaimNextJob
<1>. QED  BY <1>2, <1>3, <1>4 DEF IInv

(* The worker is done with a job, which was not in hand any more.         *)
LEMMA FinishKeeps ==
    ASSUME IInv, FinishJob
    PROVE  IInv'
<1>1. StoreInv' /\ RequestInv'
  BY SMT DEF IInv, StoreInv, RequestInv, FinishJob, OnlyWorker
<1>2. WorkerInv'
  BY SMT DEF FinishJob, WorkerInv, Execution, NoJob, Kinds, WorkerControl
<1>3. ServedInv'
  BY SMT DEF IInv, ServedInv, InHand, Status, FinishJob, OnlyWorker
<1>. QED  BY <1>1, <1>2, <1>3 DEF IInv

(* A preparation says initializing and stays in hand until it says        *)
(* something else.                                                        *)
LEMMA PrepareKeeps ==
    ASSUME IInv, Prepare
    PROVE  IInv'
<1>. DEFINE rw == row[Here]
<1>1. worker.pc # "idle"
  <2>1. \/ worker.pc \in {"open", "mark", "clone", "switch", "analyze", "find", "bind",
                          "wait", "enqueue", "check", "insert", "setup"}
        \/ worker.pc \in StageWrites
    BY DEF Prepare, On, OpenPreparation, MarkInitializing, EnterStage, CloneRepository,
           SwitchBranch, Analyze, FindVersion, BindVersion, WaitForBuild, RequestBuild,
           RequestBuildOnce, InsertBuild, SetUp
  <2>. QED  BY <2>1 DEF StageWrites
<1>2. Here \in Workspaces /\ rw \in Row
  BY <1>1, SMT DEF IInv, WorkerInv, StoreInv, Here
<1>3. worker.kind \in {"prepare", "build"} /\ (worker.kind = "build" => worker.pc \in BuildControl)
  BY <1>1, SMT DEF IInv, WorkerInv, Execution, Kinds
<1>4. CASE OpenPreparation
  <2>1. worker.kind = "prepare" /\ worker.pc = "open"
    BY <1>4 DEF OpenPreparation, On
  <2>2. CASE worker' = [worker EXCEPT !.pc = "mark", !.chosen = row[Here].chosen]
    <3>1. WorkerInv'
      <4>1. row[Here].chosen \in BOOLEAN /\ "mark" \in WorkerControl
        BY <1>2, SMT DEF Row, WorkerControl
      <4>2. worker' \in Execution /\ worker'.ws = worker.ws /\ worker'.kind = worker.kind
        BY <2>2, <4>1, JobFields DEF IInv, WorkerInv
      <4>. QED  BY <1>1, <2>1, <4>2, SMT DEF IInv, WorkerInv
    <3>2. ServedInv'
      BY <1>4, <2>1, SMT DEF IInv, ServedInv, InHand, Status, OpenPreparation, OnlyWorker
    <3>3. StoreInv' /\ RequestInv'
      BY <1>4, SMT DEF IInv, StoreInv, RequestInv, OpenPreparation, OnlyWorker
    <3>. QED  BY <3>1, <3>2, <3>3 DEF IInv
  <2>3. CASE Proceed("finish")
    BY <1>1, <1>4, <2>1, <2>3, OnlyWorkerKeeps DEF OpenPreparation, InHand, WorkerControl, BuildControl
  <2>. QED  BY <1>4, <2>2, <2>3 DEF OpenPreparation
<1>5. CASE MarkInitializing
  <2>. DEFINE r == [rw EXCEPT !.status = "initializing"]
  <2>1. r \in Row
    BY <1>2, RowFields DEF Statuses
  <2>2. worker.kind = "prepare" /\ WriteRow(r, "cloning")
    BY <1>3, <1>5 DEF MarkInitializing, BuildControl
  <2>. HIDE DEF r
  <2>. QED  BY <1>1, <2>1, <2>2, WriteRowKeeps DEF InHand, WorkerControl, StageWrites
<1>6. CASE EnterStage
  <2>. DEFINE r == [rw EXCEPT !.stage = worker.pc]
              l == CASE worker.pc = "cloning"    -> "clone"
                     [] worker.pc = "analyzing"  -> "analyze"
                     [] worker.pc = "installing" -> IF worker.fresh THEN "wait" ELSE "setup"
                     [] worker.pc = "verifying"  -> "verify"
                     [] worker.pc = "sealing"    -> "complete"
  <2>1. worker.pc \in {"cloning", "analyzing", "installing", "verifying", "sealing"}
    BY <1>6 DEF EnterStage, StageWrites
  <2>2. r \in Row
    BY <1>2, <2>1, RowFields DEF Stages
  <2>3. r.status = rw.status
    BY <1>2, SMT DEF Row
  <2>4. /\ l \in {"clone", "analyze", "wait", "setup", "verify", "complete"}
        /\ worker.kind = "build" => l \in {"verify", "complete"}
    BY <1>3, <2>1, SMT DEF BuildControl
  <2>5. WriteRow(r, l)
    BY <1>6 DEF EnterStage
  <2>. HIDE DEF r, l
  <2>. QED  BY <1>1, <1>3, <2>2, <2>3, <2>4, <2>5, WriteRowKeeps DEF InHand, WorkerControl, BuildControl
<1>7. CASE CloneRepository
  <2>1. worker.kind = "prepare"
    BY <1>3, <1>7 DEF CloneRepository, BuildControl
  <2>2. CASE Proceed("analyzing") /\ OnlyWorker
    BY <1>1, <2>1, <2>2, OnlyWorkerKeeps DEF InHand, WorkerControl, StageWrites
  <2>3. CASE /\ tree' = [tree EXCEPT ![Here] = "base"]
             /\ Proceed(IF Here \in NewBranch THEN "switch" ELSE "analyzing")
             /\ UNCHANGED <<row, queue, request, reusable, overtaken, contested>>
    <3>1. tree' \in [Workspaces -> Trees]
      BY <1>2, <2>3, SMT DEF IInv, StoreInv, Trees
    <3>. QED  BY <1>1, <2>1, <2>3, <3>1, TreeStepKeeps DEF InHand, WorkerControl, StageWrites
  <2>4. CASE Fail
    BY <1>1, <2>4, FailKeeps
  <2>. QED  BY <1>7, <2>2, <2>3, <2>4 DEF CloneRepository
<1>8. CASE SwitchBranch
  <2>1. worker.kind = "prepare"
    BY <1>3, <1>8 DEF SwitchBranch, BuildControl
  <2>2. CASE /\ tree' = [tree EXCEPT ![Here] = "branch"]
             /\ Proceed("analyzing")
             /\ UNCHANGED <<row, queue, request, reusable, overtaken, contested>>
    <3>1. tree' \in [Workspaces -> Trees]
      BY <1>2, <2>2, SMT DEF IInv, StoreInv, Trees
    <3>. QED  BY <1>1, <2>1, <2>2, <3>1, TreeStepKeeps DEF InHand, WorkerControl, StageWrites
  <2>3. CASE Fail
    BY <1>1, <2>3, FailKeeps
  <2>. QED  BY <1>8, <2>2, <2>3 DEF SwitchBranch
<1>9. CASE Analyze
  <2>1. worker.kind = "prepare"
    BY <1>3, <1>9 DEF Analyze, BuildControl
  <2>2. CASE Proceed("find") /\ OnlyWorker
    BY <1>1, <2>1, <2>2, OnlyWorkerKeeps DEF InHand, WorkerControl
  <2>3. CASE WriteRow([rw EXCEPT !.status = "needs_configuration",
                         !.stage = "needs_configuration", !.chosen = FALSE], "finish")
    <3>. DEFINE r == [rw EXCEPT !.status = "needs_configuration",
                         !.stage = "needs_configuration", !.chosen = FALSE]
    <3>1. r \in Row
      BY <1>2, RowColumns, Zenon DEF Statuses, Stages, Versions
    <3>2. r.status # "initializing"
      BY <1>2, SMT DEF Row
    <3>. HIDE DEF r
    <3>3. WriteRow(r, "finish")
      BY <2>3 DEF r
    <3>. QED  BY <1>1, <3>1, <3>2, <3>3, WriteRowKeeps DEF WorkerControl, BuildControl
  <2>4. CASE Fail
    BY <1>1, <2>4, FailKeeps
  <2>. QED  BY <1>9, <2>2, <2>3, <2>4 DEF Analyze
<1>10. CASE FindVersion
  <2>1. worker.kind = "prepare"
    BY <1>3, <1>10 DEF FindVersion, BuildControl
  <2>2. PICK found \in BOOLEAN : worker' = [worker EXCEPT !.pc = "bind", !.fresh = ~found]
    BY <1>10 DEF FindVersion
  <2>6. /\ worker' \in Execution
        /\ worker'.pc = "bind" /\ worker'.ws = worker.ws /\ worker'.kind = worker.kind
    <3>1. "bind" \in WorkerControl /\ (~found) \in BOOLEAN
      BY DEF WorkerControl
    <3>. QED  BY <2>2, <3>1, JobFields DEF IInv, WorkerInv
  <2>3. WorkerInv'
    BY <1>1, <2>1, <2>6, SMT DEF IInv, WorkerInv
  <2>4. ServedInv'
    BY <1>10, <2>6, SameJobServed DEF IInv, FindVersion, OnlyWorker, InHand
  <2>5. StoreInv' /\ RequestInv'
    BY <1>10, SMT DEF IInv, StoreInv, RequestInv, FindVersion, OnlyWorker
  <2>. QED  BY <2>3, <2>4, <2>5 DEF IInv
<1>11. CASE BindVersion
  <2>. DEFINE v == IF worker.fresh THEN "pending" ELSE "ready"
              r == [rw EXCEPT !.version = v]
  <2>1. r \in Row
    BY <1>2, RowFields DEF Versions
  <2>2. worker.kind = "prepare" /\ WriteRow(r, "installing")
    BY <1>3, <1>11 DEF BindVersion, BuildControl
  <2>. HIDE DEF r
  <2>. QED  BY <1>1, <2>1, <2>2, WriteRowKeeps DEF InHand, WorkerControl, StageWrites
<1>12. CASE WaitForBuild
  <2>. DEFINE r == [rw EXCEPT !.status = "waiting_environment"]
  <2>1. r \in Row
    BY <1>2, RowFields DEF Statuses
  <2>2. r.status # "initializing"
    BY <1>2, SMT DEF Row
  <2>3. worker.kind = "prepare" /\ WriteRow(r, "enqueue")
    BY <1>3, <1>12 DEF WaitForBuild, BuildControl
  <2>. HIDE DEF r
  <2>. QED  BY <1>1, <2>1, <2>2, <2>3, WriteRowKeeps DEF WorkerControl
<1>13. CASE RequestBuild
  <2>1. worker.kind = "prepare" /\ worker.pc \notin InHand
    BY <1>3, <1>13 DEF RequestBuild, BuildControl, InHand
  <2>2. CASE Proceed("check") /\ OnlyWorker
    BY <1>1, <2>1, <2>2, OnlyWorkerKeeps DEF WorkerControl
  <2>3. CASE /\ Update(Here, [rw EXCEPT !.status = "initialization_failed",
                                         !.stage = "failed", !.version = "failed"])
             /\ Proceed("finish")
             /\ RowByWorker
    <3>. DEFINE r == [rw EXCEPT !.status = "initialization_failed",
                                !.stage = "failed", !.version = "failed"]
    <3>1. r \in Row
      BY <1>2, RowColumns, Zenon DEF Statuses, Stages, Versions
    <3>2. r.status # "initializing"
      BY <1>2, SMT DEF Row
    <3>. HIDE DEF r
    <3>3. WriteRow(r, "finish")
      BY <2>3 DEF r, WriteRow
    <3>. QED  BY <1>1, <3>1, <3>2, <3>3, WriteRowKeeps DEF WorkerControl, BuildControl
  <2>. QED  BY <1>13, <2>2, <2>3 DEF RequestBuild
<1>14. CASE RequestBuildOnce
  <2>1. worker.kind = "prepare" /\ worker.pc \notin InHand
    BY <1>3, <1>14 DEF RequestBuildOnce, BuildControl, InHand
  <2>. QED  BY <1>1, <1>14, <2>1, OnlyWorkerKeeps DEF RequestBuildOnce, WorkerControl
<1>15. CASE InsertBuild
  <2>1. worker.kind = "prepare" /\ worker.pc \notin InHand
    BY <1>3, <1>15 DEF InsertBuild, BuildControl, InHand
  <2>2. StoreInv' /\ RequestInv'
    <3>1. queue' \in Seq(Jobs)
      BY <1>2, <1>15, CreateJobType DEF InsertBuild, IInv, Kinds
    <3>. QED  BY <1>15, <3>1, SMT DEF InsertBuild, IInv, StoreInv, RequestInv
  <2>3. WorkerInv'
    BY <1>1, <1>15, <2>1, ProceedKeeps DEF InsertBuild, IInv, WorkerControl
  <2>4. ServedInv'
    BY <1>15, <2>1, SMT DEF InsertBuild, IInv, ServedInv, Status
  <2>. QED  BY <2>2, <2>3, <2>4 DEF IInv
<1>16. CASE SetUp
  <2>1. worker.kind = "prepare"
    BY <1>16 DEF SetUp, On
  <2>2. CASE Proceed("verifying") /\ OnlyWorker
    BY <1>1, <2>1, <2>2, OnlyWorkerKeeps DEF InHand, WorkerControl, StageWrites
  <2>3. CASE Fail
    BY <1>1, <2>3, FailKeeps
  <2>. QED  BY <1>16, <2>2, <2>3 DEF SetUp
<1>. QED  BY <1>4, <1>5, <1>6, <1>7, <1>8, <1>9, <1>10, <1>11, <1>12, <1>13, <1>14, <1>15, <1>16
          DEF Prepare

(* A write of a build on the row of its workspace, which does not say      *)
(* initializing while a build is what the worker executes.                 *)
LEMMA BuildWriteKeeps ==
    ASSUME IInv, worker.pc # "idle", worker.kind = "build",
           NEW r \in Row, r.status \in {"initializing"} => r.status = row[Here].status,
           NEW l \in BuildControl,
           Update(Here, r), Proceed(l), reusable' \in BOOLEAN,
           UNCHANGED <<tree, queue, request, overtaken, contested>>
    PROVE  IInv'
<1>1. Here \in Workspaces
  BY SMT DEF IInv, WorkerInv, Here
<1>2. StoreInv'
  <2>1. row' \in [Workspaces -> Row]
    BY <1>1, UpdateType, Zenon DEF IInv
  <2>. QED  BY <2>1, SMT DEF IInv, StoreInv
<1>3. RequestInv'
  BY SMT DEF IInv, RequestInv
<1>4. WorkerInv'
  BY ProceedKeeps, SMT DEF IInv, WorkerControl, BuildControl, StageWrites
<1>5. ServedInv'
  BY <1>1, SMT DEF Update, Status, IInv, StoreInv, ServedInv, Here
<1>. QED  BY <1>2, <1>3, <1>4, <1>5 DEF IInv

(* The build and what it shares with the preparation keep the invariant.   *)
LEMMA WorkerStepKeeps ==
    ASSUME IInv, WorkerStep
    PROVE  IInv'
<1>. DEFINE rw == row[Here]
<1>0. ASSUME worker.pc # "idle"
      PROVE  /\ Here \in Workspaces /\ rw \in Row
             /\ worker.kind \in {"prepare", "build"}
             /\ worker.kind = "build" => worker.pc \in BuildControl
  BY <1>0, SMT DEF IInv, WorkerInv, StoreInv, Here, Execution, Kinds
<1>1. CASE ClaimNextJob
  BY <1>1, ClaimKeeps
<1>2. CASE Prepare
  BY <1>2, PrepareKeeps
<1>3. CASE OpenBuild
  <2>1. worker.kind = "build" /\ worker.pc = "open"
    BY <1>3 DEF OpenBuild, On
  <2>2. CASE worker' = [worker EXCEPT !.pc = "setup",
                           !.waiting = Status(Here, {"waiting_environment"})]
    <3>1. "setup" \in WorkerControl /\ Status(Here, {"waiting_environment"}) \in BOOLEAN
      BY DEF WorkerControl, Status
    <3>2. /\ worker' \in Execution /\ worker'.pc = "setup"
          /\ worker'.ws = worker.ws /\ worker'.kind = worker.kind
      BY <2>2, <3>1, JobFields DEF IInv, WorkerInv
    <3>3. WorkerInv'
      BY <2>1, <3>2, SMT DEF IInv, WorkerInv, BuildControl
    <3>4. ServedInv'
      BY <1>3, <2>1, <3>2, SameJobServed DEF IInv, OpenBuild, OnlyWorker
    <3>5. StoreInv' /\ RequestInv'
      BY <1>3, SMT DEF IInv, StoreInv, RequestInv, OpenBuild, OnlyWorker
    <3>. QED  BY <3>3, <3>4, <3>5 DEF IInv
  <2>3. CASE Proceed("finish")
    BY <1>3, <2>1, <2>3, OnlyWorkerKeeps DEF OpenBuild, WorkerControl, BuildControl
  <2>. QED  BY <1>3, <2>2, <2>3 DEF OpenBuild
<1>4. CASE Build
  <2>. DEFINE r == [rw EXCEPT !.version = "ready"]
              l == IF worker.waiting THEN "verifying" ELSE "finish"
  <2>1. worker.kind = "build" /\ worker.pc = "setup"
    BY <1>4 DEF Build, On
  <2>2. r \in Row /\ r.status = rw.status
    <3>1. r \in Row
      BY <1>0, <2>1, RowFields DEF Versions
    <3>. QED  BY <1>0, <2>1, <3>1, SMT DEF Row
  <2>3. l \in BuildControl
    BY DEF BuildControl
  <2>4. /\ Update(Here, r) /\ Proceed(l) /\ reusable' \in BOOLEAN
        /\ UNCHANGED <<tree, queue, request, overtaken, contested>>
    BY <1>4 DEF Build
  <2>. HIDE DEF r, l
  <2>. QED  BY <2>1, <2>2, <2>3, <2>4, BuildWriteKeeps
<1>5. CASE BuildFails
  <2>1. worker.kind = "build" /\ worker.pc = "setup"
    BY <1>5 DEF BuildFails, On
  <2>2. CASE Proceed("finish") /\ OnlyWorker
    BY <2>1, <2>2, OnlyWorkerKeeps DEF WorkerControl, BuildControl
  <2>3. CASE ~(Proceed("finish") /\ OnlyWorker)
    <3>. DEFINE s == IF worker.waiting THEN "initialization_failed" ELSE rw.status
                t == IF worker.waiting THEN "failed" ELSE rw.stage
                r == [rw EXCEPT !.version = "failed", !.status = s, !.stage = t]
    <3>1. s \in Statuses /\ t \in Stages
      BY <1>0, <2>1, SMT DEF Row, Statuses, Stages
    <3>2. Update(Here, r) /\ Proceed("finish") /\ RowByWorker
      BY <1>5, <2>3 DEF BuildFails
    <3>. HIDE DEF s, t
    <3>3. r \in Row
      BY <1>0, <2>1, <3>1, RowColumns DEF Versions
    <3>4. r.status = s
      BY <1>0, <2>1, SMT DEF Row
    <3>. HIDE DEF r
    <3>5. r.status \in {"initializing"} => r.status = rw.status
      BY <3>4 DEF s
    <3>6. reusable' \in BOOLEAN /\ UNCHANGED <<tree, queue, request, overtaken, contested>>
      BY <3>2 DEF RowByWorker, IInv, StoreInv
    <3>. QED  BY <2>1, <3>2, <3>3, <3>5, <3>6, BuildWriteKeeps DEF BuildControl
  <2>. QED  BY <2>2, <2>3
<1>6. CASE Verify
  <2>1. worker.pc = "verify"
    BY <1>6 DEF Verify
  <2>2. CASE Proceed("sealing") /\ OnlyWorker
    BY <2>1, <2>2, OnlyWorkerKeeps DEF InHand, WorkerControl, BuildControl, StageWrites
  <2>3. CASE Fail
    BY <2>1, <2>3, FailKeeps
  <2>4. CASE worker.kind = "build" /\ Proceed("finish") /\ OnlyWorker
    BY <2>1, <2>4, OnlyWorkerKeeps DEF WorkerControl, BuildControl
  <2>. QED  BY <1>6, <2>2, <2>3, <2>4 DEF Verify
<1>7. CASE CompletePreparation
  <2>. DEFINE r == [rw EXCEPT !.status = "ready", !.stage = "ready"]
  <2>1. worker.pc = "complete" /\ WriteRow(r, "finish")
    BY <1>7 DEF CompletePreparation
  <2>2. r \in Row
    BY <1>0, <2>1, RowColumns DEF Statuses, Stages, Versions
  <2>3. r.status # "initializing"
    BY <1>0, <2>1, SMT DEF Row
  <2>. HIDE DEF r
  <2>. QED  BY <2>1, <2>2, <2>3, WriteRowKeeps DEF WorkerControl, BuildControl
<1>8. CASE FinishJob
  BY <1>8, FinishKeeps
<1>. QED  BY <1>1, <1>2, <1>3, <1>4, <1>5, <1>6, <1>7, <1>8 DEF WorkerStep

-----------------------------------------------------------------------------
(* A restart recovers every workspace, so that none says initializing.     *)
LEMMA RestartKeeps ==
    ASSUME IInv, Restart
    PROVE  IInv'
<1>. DEFINE doomed == {w \in Workspaces : Status(w, {"deleting", "deletion_failed"})}
            R(w, deleted) ==
               IF w \in deleted THEN [NoRow EXCEPT !.status = "gone"]
               ELSE IF w \in doomed THEN [row[w] EXCEPT !.status = "deletion_failed"]
               ELSE RecoverInterruptedWork(w)
<1>1. PICK deleted \in SUBSET doomed :
         /\ tree' \in [Workspaces -> Trees]
         /\ row' = [w \in Workspaces |-> R(w, deleted)]
         /\ queue' = <<>> /\ worker' = NoJob
         /\ request' = [q \in Requests |-> NoRequest]
         /\ UNCHANGED <<reusable, overtaken, contested>>
  BY DEF Restart
<1>2. ASSUME NEW w \in Workspaces
      PROVE  R(w, deleted) \in Row /\ R(w, deleted).status # "initializing"
  <2>1. row[w] \in Row
    BY DEF IInv, StoreInv
  <2>2. CASE w \in deleted
    <3>1. [NoRow EXCEPT !.status = "gone"] \in Row
      BY NoRowStatus DEF Statuses
    <3>2. [NoRow EXCEPT !.status = "gone"].status = "gone"
      BY SMT DEF NoRow
    <3>. QED  BY <2>2, <3>1, <3>2
  <2>3. CASE w \notin deleted /\ w \in doomed
    <3>1. [row[w] EXCEPT !.status = "deletion_failed"] \in Row
      BY <2>1, RowFields DEF Statuses
    <3>2. [row[w] EXCEPT !.status = "deletion_failed"].status = "deletion_failed"
      BY <2>1, SMT DEF Row
    <3>. QED  BY <2>3, <3>1, <3>2
  <2>4. CASE w \notin deleted /\ w \notin doomed
    <3>. DEFINE failed == [row[w] EXCEPT !.status = "initialization_failed", !.stage = "failed"]
    <3>1. failed \in Row
      BY <2>1, RowColumns DEF Statuses, Stages, Versions
    <3>2. failed.status = "initialization_failed"
      BY <2>1, SMT DEF Row
    <3>3. RecoverInterruptedWork(w)
            = IF row[w].status \in {"creating", "initializing", "waiting_environment"}
              THEN failed ELSE row[w]
      BY DEF RecoverInterruptedWork, RecoverMarked, Status
    <3>. HIDE DEF failed
    <3>. QED  BY <2>1, <2>4, <3>1, <3>2, <3>3
  <2>. QED  BY <2>2, <2>3, <2>4
<1>. HIDE DEF R
<1>3. StoreInv'
  <2>1. row' \in [Workspaces -> Row]
    BY <1>1, <1>2, SMT
  <2>2. queue' \in Seq(Jobs)
    BY <1>1, EmptySeq
  <2>. QED  BY <1>1, <2>1, <2>2 DEF IInv, StoreInv
<1>4. RequestInv'
  BY <1>1, SMT DEF RequestInv, NoRequest, RequestControl
<1>5. WorkerInv'
  BY <1>1, SMT DEF WorkerInv, Execution, NoJob, Kinds, WorkerControl
<1>6. ServedInv'
  BY <1>1, <1>2, SMT DEF ServedInv, Status
<1>. QED  BY <1>3, <1>4, <1>5, <1>6 DEF IInv

(* The invariant is inductive.                                             *)
LEMMA Inductive == IInv /\ [Next]_vars => IInv'
<1>. SUFFICES ASSUME IInv, [Next]_vars PROVE IInv'
  OBVIOUS
<1>1. CASE \E q \in Requests : Continues(q)
  BY <1>1, ContinuesKeeps
<1>2. CASE \E q \in Requests, w \in Workspaces : Arrives(q, w)
  BY <1>2, ArrivesKeeps
<1>3. CASE WorkerStep
  BY <1>3, WorkerStepKeeps
<1>4. CASE Restart
  BY <1>4, RestartKeeps
<1>5. CASE \E q \in Requests : Disconnect(q)
  BY <1>5, AnswerKeeps, OnlyRequestKeeps DEF Disconnect, IInv
<1>6. CASE UNCHANGED vars
  BY <1>6, SMT DEF vars, IInv, StoreInv, RequestInv, WorkerInv, ServedInv, Status
<1>. QED  BY <1>1, <1>2, <1>3, <1>4, <1>5, <1>6 DEF Next, Serving, Interrupting

(* It holds at first.                                                      *)
LEMMA Initial == Init => IInv
<1>. SUFFICES ASSUME Init PROVE IInv
  OBVIOUS
<1>1. StoreInv
  <2>1. NoRow \in Row
    BY NoRowStatus DEF Statuses
  <2>2. queue \in Seq(Jobs)
    BY EmptySeq DEF Init
  <2>3. row \in [Workspaces -> Row]
    BY <2>1, SMT DEF Init
  <2>4. tree \in [Workspaces -> Trees]
    BY SMT DEF Init, Trees
  <2>. QED  BY <2>2, <2>3, <2>4 DEF Init, StoreInv
<1>2. RequestInv
  BY SMT DEF Init, RequestInv, NoRequest, RequestControl
<1>3. WorkerInv
  BY SMT DEF Init, WorkerInv, Execution, NoJob, Kinds, WorkerControl
<1>4. ServedInv
  BY SMT DEF Init, ServedInv, Status, NoRow
<1>. QED  BY <1>1, <1>2, <1>3, <1>4 DEF IInv

(* And it holds for ever.                                                  *)
THEOREM LifecycleInvariant == Spec => []IInv
BY Initial, Inductive, PTL DEF Spec

(* Tables, queue, directories, worker and requests stay within their types *)
(* whatever users, the job worker and restarts do: a row holds one of the  *)
(* statuses and stages the package names, though the table checks neither  *)
(* (store.go:17-26, readiness.go).                                         *)
THEOREM LifecycleTypeCorrect == Spec => []TypeOK
<1>1. IInv => TypeOK
  BY SMT DEF IInv, StoreInv, RequestInv, WorkerInv, TypeOK
<1>. QED  BY <1>1, LifecycleInvariant, PTL

(* For any number of workspaces and requests, a workspace that says        *)
(* initializing is one the job worker is preparing: no failure, deletion,  *)
(* user or restart leaves it so alone (preparation.go:28-182,              *)
(* recovery.go:11-24).                                                     *)
THEOREM InitializingServed == Spec => []InitializingIsServed
<1>1. IInv => InitializingIsServed
  BY SMT DEF IInv, ServedInv, InitializingIsServed, Status, Running, InHand
<1>. QED  BY <1>1, LifecycleInvariant, PTL
-----------------------------------------------------------------------------
(* What the status of a workspace promises, and what no late job or        *)
(* request takes back, unless a request or a deletion overtook it.         *)

Prepared == {"ready", "stopped"}

(* Where a job stands from its last look at the clone to the end.          *)
Ending == {"verifying", "verify", "sealing", "complete"}

(* The status of the workspace of a job under way: nobody else writes it   *)
(* between two statements of the job.                                      *)
StatusFits(job, s) ==
    IF job.kind = "prepare"
    THEN /\ job.pc = "mark" => s \in {"creating", "initialization_failed"}
         /\ job.pc \in InHand => s = "initializing"
         /\ job.pc \in {"enqueue", "check", "insert"} => s = "waiting_environment"
    ELSE /\ job.pc \in Ending => s = "waiting_environment"
         /\ job.pc = "setup" => s \notin Prepared
         /\ job.pc = "setup" /\ job.waiting => s = "waiting_environment"

(* Where the version is ready: a preparation reuses one, a build made it.  *)
Built(job) ==
    \/ job.pc \in Ending
    \/ job.kind = "prepare" /\ job.pc = "setup"
    \/ job.pc = "installing" /\ ~job.fresh

WorkFits(job, r) == StatusFits(job, r.status) /\ (Built(job) => r.version = "ready")

(* The job also read the clone just before it seals.                       *)
WorkSound(w) ==
    worker.pc # "idle" /\ worker.ws = w =>
        WorkFits(worker, row[w]) /\ (worker.pc \in {"sealing", "complete"} => Whole(w))

RowSound(w) ==
    /\ row[w].status \in Prepared =>
          row[w].stage = "ready" /\ row[w].version = "ready" /\ Whole(w)
    /\ Exists(w) \/ tree[w] = "none"

(* A deletion under way: the status says so, and before the row goes the   *)
(* directory has gone.                                                     *)
DeletionSound(w) ==
    \A q \in Requests : request[q].ws = w =>
        /\ request[q].pc \in {"remove", "erase"} => row[w].status = "deleting"
        /\ request[q].pc = "erase" => tree[w] = "none"

Sound(w) == WorkSound(w) /\ RowSound(w) /\ DeletionSound(w)

(* Jobs and requests are about workspaces that have been created; one that *)
(* has not been has no directory, and only an existing one is archived.    *)
Born(w) == row[w].status # "absent"
BornInv ==
    /\ \A i \in DOMAIN queue : Born(queue[i].ws)
    /\ worker.pc # "idle" => Born(worker.ws)
    /\ \A q \in Requests : request[q].pc # "idle" => Born(request[q].ws)
    /\ \A w \in Workspaces : row[w].archived => Exists(w)
    /\ \A w \in Workspaces : Born(w) \/ tree[w] = "none"

(* deleteMu. *)
OneDeletion ==
    \A p, q \in Requests : request[p].pc \in Deleting /\ request[q].pc \in Deleting => p = q

SInv == /\ IInv /\ BornInv /\ OneDeletion
        /\ \A w \in Workspaces \ overtaken : Sound(w)

(* What a step leaves of a status that is to stay.                         *)
Steady(w) ==
    /\ row[w].status \in Prepared => row'[w].status \in Prepared \cup {"deleting"}
    /\ row[w].status = "deleting" => row'[w].status \in {"deleting", "deletion_failed", "gone"}

(* What is to be shown of every step.                                      *)
Kept == SInv' /\ \A w \in Workspaces \ overtaken' : Steady(w)

(* A row that may take the place of the one w has.                         *)
RowFits(w, r) ==
    /\ r.status \notin {"absent", "gone"}
    /\ r.status \in Prepared => r.stage = "ready" /\ r.version = "ready" /\ Whole(w)
    /\ row[w].status \in Prepared => r.status \in Prepared \cup {"deleting"}
    /\ row[w].status = "deleting" => r.status = "deleting"

(* The part of a workspace that a step does not touch.                     *)
LEMMA UntouchedSound ==
    ASSUME NEW w \in Workspaces, Sound(w),
           row'[w] = row[w], tree'[w] = tree[w],
           \/ worker' = worker
           \/ worker'.pc = "idle"
           \/ worker'.ws # w,
           \A q \in Requests : request'[q].ws = w /\ request'[q].pc \in {"remove", "erase"} =>
                                  request'[q] = request[q]
    PROVE  Sound(w)' /\ Steady(w)
<1>1. WorkSound(w)'
  BY SMT DEF Sound, WorkSound, Whole
<1>2. RowSound(w)'
  BY SMT DEF Sound, RowSound, Whole, Exists
<1>3. DeletionSound(w)'
  BY SMT DEF Sound, DeletionSound
<1>4. Steady(w)
  BY SMT DEF Steady
<1>. QED  BY <1>1, <1>2, <1>3, <1>4 DEF Sound

(* A step that writes no row keeps what has been created created, and the  *)
(* directories that are not there away.                                    *)
LEMMA BornKeeps ==
    ASSUME BornInv, UNCHANGED <<row, tree>>,
           \A i \in DOMAIN queue' : Born(queue'[i].ws),
           worker'.pc # "idle" => Born(worker'.ws),
           \A q \in Requests : request'[q].pc # "idle" => Born(request'[q].ws)
    PROVE  BornInv'
BY SMT DEF BornInv, Born, Exists

(* Away from the few statuses a job leaves its workspace in while it works *)
(* on it, the job only looks for what it has to do.                        *)
LEMMA IdleWork ==
    ASSUME WorkerInv, worker.pc # "idle", WorkFits(worker, row[worker.ws]),
           row[worker.ws].status \notin {"creating", "initialization_failed",
                                         "initializing", "waiting_environment"},
           NEW r, r.status \in Prepared => row[worker.ws].status \in Prepared
    PROVE  WorkFits(worker, r) /\ worker.pc \notin {"sealing", "complete"}
BY SMT DEF WorkerInv, Execution, Kinds, WorkFits, StatusFits, Built, Ending, InHand, BuildControl

(* A queued job is about a workspace.                                     *)
LEMMA QueuedWorkspaces ==
    ASSUME StoreInv
    PROVE  \A i \in DOMAIN queue : queue[i].ws \in Workspaces
<1>1. \A i \in DOMAIN queue : queue[i] \in Jobs
  BY SMT DEF StoreInv
<1>. QED  BY <1>1, SMT DEF Jobs

(* A job is inserted for a workspace that was created.                     *)
LEMMA CreateJobBorn ==
    ASSUME StoreInv, BornInv, NEW w \in Workspaces, NEW k \in Kinds, Born(w), CreateJob(w, k)
    PROVE  \A i \in DOMAIN queue' : Born(queue'[i].ws)
<1>. DEFINE job == [ws |-> w, kind |-> k]
<1>1. CASE Exists(w)
  <2>1. job \in Jobs /\ job.ws = w
    BY SMT DEF Jobs
  <2>2. queue' = Append(queue, job)
    BY <1>1 DEF CreateJob
  <2>. HIDE DEF job
  <2>3. /\ DOMAIN queue = 1..Len(queue) /\ DOMAIN queue' = 1..Len(queue) + 1
        /\ \A i \in 1..Len(queue) : queue'[i] = queue[i]
        /\ queue'[Len(queue) + 1] = job
        /\ Len(queue) \in Nat
    BY <2>1, <2>2, AppendProperties, SMT DEF StoreInv
  <2>. QED  BY <2>1, <2>3, SMT DEF BornInv
<1>2. CASE ~Exists(w)
  BY <1>2 DEF CreateJob, BornInv
<1>. QED  BY <1>1, <1>2

-----------------------------------------------------------------------------
(* Requests.                                                               *)

(* A request that goes on changes only where it stands, and one that is    *)
(* answered leaves the others alone.                                       *)
LEMMA GoOnMoves ==
    ASSUME RequestInv, NEW q \in Requests, NEW l \in RequestControl, GoOn(q, l)
    PROVE  /\ request'[q].pc = l /\ request'[q].ws = Target(q)
           /\ \A p \in Requests \ {q} : request'[p] = request[p]
BY SMT DEF RequestInv, GoOn, Target

(* One that is answered is idle again.                                     *)
LEMMA AnswerEnds ==
    ASSUME RequestInv, NEW q \in Requests, Answer(q)
    PROVE  /\ request'[q] = NoRequest
           /\ \A p \in Requests \ {q} : request'[p] = request[p]
BY SMT DEF RequestInv, Answer

(* A step of a request that only moves itself.                             *)
LEMMA OnlyRequestSound ==
    ASSUME SInv, IInv', OnlyRequest, NEW q \in Requests,
           \A p \in Requests \ {q} : request'[p] = request[p],
           request'[q].pc # "idle" => Born(request'[q].ws),
           request'[q].pc \notin {"remove", "erase"},
           request'[q].pc \in Deleting => \A p \in Requests : request[p].pc \notin Deleting
    PROVE  Kept
<1>1. BornInv'
  BY BornKeeps DEF SInv, BornInv, OnlyRequest
<1>2. OneDeletion'
  BY SMT DEF SInv, OneDeletion, OnlyRequest
<1>3. ASSUME NEW w \in Workspaces \ overtaken'
      PROVE  Sound(w)' /\ Steady(w)
  <2>1. Sound(w)
    BY DEF SInv, OnlyRequest
  <2>. QED  BY <2>1, UntouchedSound DEF OnlyRequest
<1>. QED  BY <1>1, <1>2, <1>3 DEF Kept, SInv

(* A write of a request on its row.                                        *)
LEMMA WriteSound ==
    ASSUME SInv, IInv', NEW q \in Requests, request[q].pc # "idle",
           NEW r \in Row, r.status \notin {"absent", "gone"},
           NEW l \in RequestControl, Write(q, r, l),
           l \in Deleting => At(q, "delete") /\ l = "remove" /\ r.status = "deleting",
           Exists(Target(q)) /\ Target(q) \notin overtaken' =>
               /\ RowFits(Target(q), r)
               /\ worker.pc # "idle" /\ Here = Target(q) => WorkFits(worker, r)
    PROVE  Kept
<1>. DEFINE w == Target(q)
<1>1. w \in Workspaces /\ Born(w)
  BY SMT DEF SInv, IInv, RequestInv, Target, BornInv
<1>2. /\ row' = IF Exists(w) THEN [row EXCEPT ![w] = r] ELSE row
      /\ UNCHANGED <<tree, queue, worker, reusable>>
      /\ overtaken \subseteq overtaken'
  <2>1. overtaken \subseteq overtaken'
    BY DEF Write
  <2>. QED  BY <2>1, Zenon DEF Write, Update
<1>3. \/ request'[q] = NoRequest
      \/ Exists(w) /\ request'[q].pc = l /\ request'[q].ws = w
  BY GoOnMoves, AnswerEnds DEF Write, SInv, IInv
<1>4. \A v \in Workspaces : /\ v # w \/ ~Exists(w) => row'[v] = row[v]
                            /\ Exists(w) => row'[w] = r
                            /\ Born(v) => Born(v)'
                            /\ row'[v].archived => Exists(v)'
                            /\ Born(v)' => Born(v)
  <2>1. \A v \in Workspaces : /\ v # w \/ ~Exists(w) => row'[v] = row[v]
                              /\ Exists(w) => row'[w] = r
    BY <1>1, <1>2, SMT DEF SInv, IInv, StoreInv
  <2>. QED  BY <1>1, <2>1, SMT DEF SInv, BornInv, Born, Exists
<1>5. \A p \in Requests \ {q} : request'[p] = request[p]
  BY GoOnMoves, AnswerEnds DEF Write, SInv, IInv
<1>6. BornInv'
  <2>1. (\A i \in DOMAIN queue : Born(queue[i].ws))'
    BY <1>2, <1>4, QueuedWorkspaces DEF SInv, IInv, BornInv
  <2>2. (worker.pc # "idle" => Born(worker.ws))'
    BY <1>2, <1>4, SMT DEF SInv, IInv, WorkerInv, BornInv
  <2>3. (\A p \in Requests : request[p].pc # "idle" => Born(request[p].ws))'
    BY <1>1, <1>3, <1>4, <1>5, SMT DEF SInv, IInv, RequestInv, BornInv, NoRequest
  <2>4. \A v \in Workspaces : (row[v].archived => Exists(v))' /\ (Born(v) \/ tree[v] = "none")'
    BY <1>2, <1>4, SMT DEF SInv, BornInv
  <2>. QED  BY <2>1, <2>2, <2>3, <2>4 DEF BornInv
<1>7. OneDeletion'
  BY <1>3, <1>5, SMT DEF SInv, OneDeletion, NoRequest, Deleting, At
<1>8. ASSUME NEW v \in Workspaces \ overtaken'
      PROVE  Sound(v)' /\ Steady(v)
  <2>1. Sound(v)
    BY <1>2 DEF SInv
  <2>2. CASE v # w \/ ~Exists(w)
    <3>1. row'[v] = row[v] /\ tree'[v] = tree[v] /\ worker' = worker
      BY <1>2, <1>4, <2>2
    <3>2. \A p \in Requests : request'[p].ws = v /\ request'[p].pc \in {"remove", "erase"} =>
                                 request'[p] = request[p]
      BY <1>3, <1>5, <2>2, SMT DEF NoRequest
    <3>. QED  BY <2>1, <3>1, <3>2, UntouchedSound
  <2>3. CASE v = w /\ Exists(w)
    <3>1. /\ row'[v] = r /\ tree' = tree /\ worker' = worker
          /\ RowFits(v, r)
          /\ worker.pc # "idle" /\ Here = v => WorkFits(worker, r)
      BY <1>2, <1>4, <2>3
    <3>2. WorkSound(v)'
      BY <2>1, <3>1, SMT DEF Sound, WorkSound, Here, Whole
    <3>3. RowSound(v)'
      BY <3>1, SMT DEF RowSound, RowFits, Whole, Exists
    <3>4. DeletionSound(v)'
      <4>. SUFFICES ASSUME NEW p \in Requests, request'[p].ws = v,
                           request'[p].pc \in {"remove", "erase"}
                    PROVE  /\ r.status = "deleting"
                           /\ request'[p].pc = "erase" => tree[v] = "none"
        BY <3>1, SMT DEF DeletionSound
      <4>1. CASE p = q
        BY <1>3, <4>1, SMT DEF NoRequest, Deleting
      <4>2. CASE p # q
        BY <1>5, <2>1, <3>1, <4>2, SMT DEF Sound, DeletionSound, RowFits
      <4>. QED  BY <4>1, <4>2
    <3>5. Steady(v)
      BY <3>1, SMT DEF Steady, RowFits
    <3>. QED  BY <3>2, <3>3, <3>4, <3>5 DEF Sound
  <2>. QED  BY <2>2, <2>3
<1>. QED  BY <1>6, <1>7, <1>8 DEF Kept, SInv

(* A request that arrives.                                                 *)
LEMMA StartMoves ==
    ASSUME RequestInv, NEW q \in Requests, NEW w \in Workspaces, NEW l \in RequestControl,
           Start(q, w, l)
    PROVE  /\ request'[q].pc = l /\ request'[q].ws = w
           /\ \A p \in Requests \ {q} : request'[p] = request[p]
BY SMT DEF RequestInv, Start

(* Requests are made for workspaces that were created, and deletions one at *)
(* a time.                                                                 *)
LEMMA ArrivesSound ==
    ASSUME SInv, IInv', NEW q \in Requests, NEW w \in Workspaces, Arrives(q, w)
    PROVE  Kept
<1>1. ASSUME NEW l \in RequestControl \ Deleting, Born(w), Start(q, w, l), OnlyRequest
      PROVE  Kept
  <2>1. /\ request'[q].pc = l /\ request'[q].ws = w
        /\ \A p \in Requests \ {q} : request'[p] = request[p]
    BY <1>1, StartMoves DEF SInv, IInv
  <2>. QED  BY <1>1, <2>1, OnlyRequestSound DEF Deleting
<1>2. ASSUME NEW l \in {"select", "stop", "halt", "resume", "archive", "restore", "delete"},
             Allowed(w, l)
      PROVE  Born(w)
  <2>1. Exists(w) \/ row[w].archived
    BY <1>2 DEF Allowed, Usable
  <2>. QED  BY <2>1 DEF SInv, BornInv, Born, Exists
<1>3. ASSUME NEW l \in {"select", "stop", "halt", "resume", "archive", "restore"},
             Request(q, w, l)
      PROVE  Kept
  BY <1>1, <1>2, <1>3 DEF Request, RequestControl, Deleting
<1>4. CASE CreateWorkspace(q, w)
  <2>. DEFINE r == [NoRow EXCEPT !.status = "creating"]
  <2>1. /\ request'[q].pc = "prepare" /\ request'[q].ws = w
        /\ \A p \in Requests \ {q} : request'[p] = request[p]
    BY <1>4, StartMoves DEF SInv, IInv, CreateWorkspace, RequestControl
  <2>2. /\ row[w].status = "absent"
        /\ UNCHANGED <<tree, queue, worker, overtaken, contested>>
    BY <1>4 DEF CreateWorkspace, Status, OnlyRow
  <2>3. /\ row'[w] = r /\ r.status = "creating" /\ r.archived = FALSE
        /\ \A v \in Workspaces \ {w} : row'[v] = row[v]
    BY <1>4, SMT DEF CreateWorkspace, SInv, IInv, StoreInv, NoRow
  <2>. HIDE DEF r
  <2>4. Born(w)' /\ \A v \in Workspaces : Born(v) => Born(v)'
    BY <2>2, <2>3 DEF Born
  <2>5. BornInv'
    <3>1. (\A i \in DOMAIN queue : Born(queue[i].ws))'
      BY <2>2, <2>4, QueuedWorkspaces DEF SInv, IInv, BornInv
    <3>2. (worker.pc # "idle" => Born(worker.ws))'
      BY <2>2, <2>4 DEF SInv, IInv, WorkerInv, BornInv
    <3>3. (\A p \in Requests : request[p].pc # "idle" => Born(request[p].ws))'
      BY <2>1, <2>4 DEF SInv, IInv, RequestInv, BornInv
    <3>4. \A v \in Workspaces : (row[v].archived => Exists(v))' /\ (Born(v) \/ tree[v] = "none")'
      BY <2>2, <2>3, <2>4, SMT DEF SInv, BornInv, Born, Exists
    <3>. QED  BY <3>1, <3>2, <3>3, <3>4 DEF BornInv
  <2>6. OneDeletion'
    BY <2>1, SMT DEF SInv, OneDeletion, Deleting
  <2>7. ASSUME NEW v \in Workspaces \ overtaken'
        PROVE  Sound(v)' /\ Steady(v)
    <3>1. Sound(v)
      BY <2>2 DEF SInv
    <3>2. CASE v # w
      BY <2>1, <2>2, <2>3, <3>1, <3>2, UntouchedSound
    <3>3. CASE v = w
      <4>1. ~(worker'.pc # "idle" /\ worker'.ws = v)
        BY <2>2, <3>3 DEF SInv, BornInv, Born
      <4>2. \A p \in Requests : ~(request'[p].ws = v /\ request'[p].pc \in {"remove", "erase"})
        BY <2>1, <2>2, <3>3, SMT DEF SInv, BornInv, Born
      <4>3. WorkSound(v)' /\ DeletionSound(v)'
        BY <4>1, <4>2 DEF WorkSound, DeletionSound
      <4>4. RowSound(v)' /\ Steady(v)
        BY <2>2, <2>3, <3>3 DEF RowSound, Steady, Exists, Prepared
      <4>. QED  BY <4>3, <4>4 DEF Sound
    <3>. QED  BY <3>2, <3>3
  <2>. QED  BY <2>5, <2>6, <2>7 DEF Kept, SInv
<1>5. CASE StartPreparation(q, w)
  BY <1>1, <1>5 DEF StartPreparation, RequestControl, Deleting, Exists, Born
<1>6. CASE RebuildEnvironment(q, w)
  BY <1>1, <1>6 DEF RebuildEnvironment, RequestControl, Deleting, Buildable, Usable, Exists, Born
<1>7. CASE ConfigureProjectRoot(q, w) \/ Stop(q, w) \/ Resume(q, w) \/ Archive(q, w)
              \/ RestoreArchived(q, w)
  BY <1>3, <1>7 DEF ConfigureProjectRoot, Stop, Resume, Archive, RestoreArchived
<1>8. CASE Delete(q, w)
  <2>1. /\ Born(w) /\ OnlyRequest /\ Start(q, w, "delete")
        /\ \A p \in Requests : request[p].pc \notin Deleting
    BY <1>2, <1>8 DEF Delete, Request
  <2>2. /\ request'[q].pc = "delete" /\ request'[q].ws = w
        /\ \A p \in Requests \ {q} : request'[p] = request[p]
    BY <2>1, StartMoves DEF SInv, IInv, RequestControl, Deleting
  <2>. QED  BY <2>1, <2>2, OnlyRequestSound
<1>. QED  BY <1>4, <1>5, <1>6, <1>7, <1>8 DEF Arrives

(* A request that leaves what it is about alone, or is given up.           *)
LEMMA MovesSound ==
    ASSUME SInv, IInv', NEW q \in Requests, request[q].pc # "idle", OnlyRequest,
           Answer(q) \/ \E l \in RequestControl \ Deleting : GoOn(q, l)
    PROVE  Kept
<1>1. \A p \in Requests \ {q} : request'[p] = request[p]
  BY GoOnMoves, AnswerEnds DEF SInv, IInv
<1>2. \/ request'[q] = NoRequest
      \/ request'[q].pc \notin Deleting /\ request'[q].ws = Target(q)
  BY GoOnMoves, AnswerEnds DEF SInv, IInv
<1>3. /\ request'[q].pc # "idle" => Born(request'[q].ws)
      /\ request'[q].pc \notin Deleting
  BY <1>2, SMT DEF SInv, BornInv, Target, NoRequest, Deleting
<1>. QED  BY <1>1, <1>3, OnlyRequestSound DEF Deleting

(* A request that inserts a job.                                           *)
LEMMA EnqueueSound ==
    ASSUME SInv, IInv', NEW q \in Requests, NEW k \in Kinds, request[q].pc # "idle",
           CreateJob(Target(q), k), Answer(q),
           UNCHANGED <<row, tree, worker, reusable, overtaken, contested>>
    PROVE  Kept
<1>1. /\ request'[q] = NoRequest
      /\ \A p \in Requests \ {q} : request'[p] = request[p]
  BY AnswerEnds DEF SInv, IInv
<1>2. (\A i \in DOMAIN queue : Born(queue[i].ws))'
  <2>1. Target(q) \in Workspaces /\ Born(Target(q))
    BY DEF SInv, IInv, RequestInv, BornInv, Target
  <2>2. \A i \in DOMAIN queue' : Born(queue'[i].ws)
    BY <2>1, CreateJobBorn DEF SInv, IInv
  <2>. QED  BY <2>2 DEF Born
<1>3. BornInv'
  BY <1>1, <1>2, BornKeeps, SMT DEF SInv, BornInv, NoRequest, Born
<1>4. OneDeletion'
  BY <1>1, SMT DEF SInv, OneDeletion, NoRequest, Deleting
<1>5. ASSUME NEW w \in Workspaces \ overtaken'
      PROVE  Sound(w)' /\ Steady(w)
  <2>1. Sound(w)
    BY DEF SInv
  <2>2. \A p \in Requests : request'[p].ws = w /\ request'[p].pc \in {"remove", "erase"} =>
                               request'[p] = request[p]
    BY <1>1, SMT DEF NoRequest
  <2>. QED  BY <2>1, <2>2, UntouchedSound
<1>. QED  BY <1>3, <1>4, <1>5 DEF Kept, SInv

(* What a write relies on when it overtakes nothing.                       *)
LEMMA NotOvertaken ==
    ASSUME SInv, NEW q \in Requests, request[q].pc # "idle", NEW r, NEW l, Write(q, r, l),
           Exists(Target(q)), Target(q) \notin overtaken'
    PROVE  /\ Target(q) \in Workspaces /\ row[Target(q)] \in Row /\ Sound(Target(q))
           /\ Allowed(Target(q), request[q].pc)
           /\ At(q, "delete") => ~(worker.pc # "idle" /\ Here = Target(q))
<1>1. overtaken' = overtaken \cup {w \in {Target(q)} : Overtakes(q)}
  BY DEF Write
<1>2. Target(q) \notin overtaken /\ ~Overtakes(q)
  BY <1>1
<1>3. Target(q) \in Workspaces
  BY DEF SInv, IInv, RequestInv, Target
<1>4. At(q, "delete") => \A k \in Kinds : ~Running(Target(q), k)
  BY <1>2 DEF Overtakes, HasJob, HasActiveJob
<1>5. worker.kind \in Kinds
  BY SMT DEF SInv, IInv, WorkerInv, Execution
<1>. QED  BY <1>2, <1>3, <1>4, <1>5 DEF Overtakes, SInv, IInv, StoreInv, Running, Here

(* A request that sets the status, of a row that lets it.                  *)
LEMMA StatusWriteSound ==
    ASSUME SInv, IInv', NEW q \in Requests, request[q].pc # "idle",
           NEW s \in {"ready", "stopped", "deleting"},
           NEW l \in {"idle", "archive", "remove"},
           l = "remove" => At(q, "delete") /\ s = "deleting",
           s # "deleting" => request[q].pc \in {"stop", "halt", "resume"},
           s = "deleting" => At(q, "delete"),
           Write(q, [row[Target(q)] EXCEPT !.status = s], l)
    PROVE  Kept
<1>. DEFINE w == Target(q)
            r == [row[w] EXCEPT !.status = s]
<1>1. w \in Workspaces /\ row[w] \in Row
  BY SMT DEF SInv, IInv, RequestInv, StoreInv, Target
<1>2. /\ r \in Row /\ r.status = s
      /\ r.stage = row[w].stage /\ r.version = row[w].version
  <2>1. s \in Statuses
    BY DEF Statuses
  <2>2. r \in Row
    BY <1>1, <2>1, RowFields
  <2>. QED  BY <1>1, <2>2, SMT DEF Row
<1>3. Write(q, r, l)
  OBVIOUS
<1>. HIDE DEF r
<1>4. ASSUME Exists(w), w \notin overtaken'
      PROVE  /\ RowFits(w, r)
             /\ worker.pc # "idle" /\ Here = w => WorkFits(worker, r)
  <2>1. /\ Sound(w) /\ Allowed(w, request[q].pc)
        /\ At(q, "delete") => ~(worker.pc # "idle" /\ Here = w)
    BY <1>3, <1>4, NotOvertaken
  <2>2. s # "deleting" => row[w].status \in Prepared
    <3>1. Allowed(w, "stop") \/ Allowed(w, "halt") => row[w].status = "ready"
      BY DEF Allowed, Status
    <3>2. Allowed(w, "resume") => row[w].status = "stopped"
      BY DEF Allowed, Status
    <3>. QED  BY <2>1, <3>1, <3>2 DEF Prepared
  <2>3. RowFits(w, r)
    <3>1. CASE s = "deleting"
      BY <1>2, <3>1 DEF RowFits, Prepared
    <3>2. CASE s # "deleting"
      BY <1>2, <2>1, <2>2, <3>2 DEF Sound, RowSound, RowFits, Prepared
    <3>. QED  BY <3>1, <3>2
  <2>4. ASSUME worker.pc # "idle", Here = w
        PROVE  WorkFits(worker, r)
    <3>1. WorkFits(worker, row[w]) /\ row[w].status \in Prepared
      BY <2>1, <2>2, <2>4 DEF Sound, WorkSound, Here
    <3>. QED  BY <2>4, <3>1, IdleWork DEF SInv, IInv, Here, Prepared
  <2>. QED  BY <2>3, <2>4
<1>5. /\ l \in RequestControl
      /\ l \in Deleting => At(q, "delete") /\ l = "remove" /\ r.status = "deleting"
  BY <1>2 DEF RequestControl, Deleting
<1>6. r.status \notin {"absent", "gone"}
  BY <1>2
<1>. QED  BY <1>2, <1>3, <1>4, <1>5, <1>6, WriteSound

(* One that archives or restores.                                          *)
LEMMA ArchiveWriteSound ==
    ASSUME SInv, IInv', NEW q \in Requests, request[q].pc \in {"archive", "restore"},
           NEW a \in BOOLEAN, Write(q, [row[Target(q)] EXCEPT !.archived = a], "idle")
    PROVE  Kept
<1>. DEFINE w == Target(q)
            r == [row[w] EXCEPT !.archived = a]
<1>1. w \in Workspaces /\ row[w] \in Row
  BY SMT DEF SInv, IInv, RequestInv, StoreInv, Target
<1>2. /\ r \in Row /\ r.status = row[w].status
      /\ r.stage = row[w].stage /\ r.version = row[w].version
  BY <1>1, RowFields, SMT DEF Row
<1>3. Write(q, r, "idle")
  OBVIOUS
<1>. HIDE DEF r
<1>4. CASE Exists(w)
  <2>1. ASSUME w \notin overtaken'
        PROVE  /\ RowFits(w, r)
               /\ worker.pc # "idle" /\ Here = w => WorkFits(worker, r)
    <3>1. Sound(w)
      BY <1>3, <1>4, <2>1, NotOvertaken
    <3>2. RowFits(w, r)
      BY <1>2, <1>4, <3>1, SMT DEF Sound, RowSound, RowFits, Prepared, Exists
    <3>3. worker.pc # "idle" /\ Here = w => WorkFits(worker, r)
      BY <1>2, <3>1 DEF Sound, WorkSound, WorkFits, Here
    <3>. QED  BY <3>2, <3>3
  <2>2. r.status \notin {"absent", "gone"}
    BY <1>2, <1>4 DEF Exists
  <2>. QED  BY <1>2, <1>3, <2>1, <2>2, WriteSound DEF RequestControl, Deleting
<1>5. CASE ~Exists(w)
  <2>1. /\ OnlyRequest /\ Answer(q)
    <3>1. At(q, "archive") \/ At(q, "restore")
      BY DEF At
    <3>2. ~Overtakes(q) /\ ~Contests(q)
      BY <1>5, <3>1 DEF Overtakes, Contests, At
    <3>3. overtaken' = overtaken /\ contested' = contested /\ Answer(q)
      BY <1>3, <1>5, <3>2 DEF Write
    <3>. QED  BY <1>3, <1>5, <3>3 DEF Write, Update, OnlyRequest
  <2>. QED  BY <2>1, MovesSound
<1>. QED  BY <1>4, <1>5

(* Selecting a root starts a preparation over.                             *)
LEMMA SelectSound ==
    ASSUME SInv, IInv', NEW q \in Requests, SelectProjectRoot(q)
    PROVE  Kept
<1>. DEFINE w == Target(q)
            r == [row[w] EXCEPT !.status = "creating", !.stage = "pending", !.chosen = TRUE]
<1>1. w \in Workspaces /\ row[w] \in Row
  BY SMT DEF SInv, IInv, RequestInv, StoreInv, Target, SelectProjectRoot, At
<1>2. r \in Row /\ r.status = "creating"
  <2>1. r \in Row
    BY <1>1, RowColumns, Zenon DEF Statuses, Stages, Versions
  <2>. QED  BY <1>1, <2>1, SMT DEF Row
<1>3. Write(q, r, "prepare") /\ request[q].pc = "select"
  BY DEF SelectProjectRoot, At
<1>. HIDE DEF r
<1>4. ASSUME Exists(w), w \notin overtaken'
      PROVE  /\ RowFits(w, r)
             /\ worker.pc # "idle" /\ Here = w => WorkFits(worker, r)
  <2>1. Sound(w) /\ row[w].status = "needs_configuration"
    <3>1. Sound(w) /\ Allowed(w, "select")
      BY <1>3, <1>4, NotOvertaken
    <3>. QED  BY <3>1 DEF Allowed, Status
  <2>2. RowFits(w, r)
    BY <1>2, <2>1 DEF RowFits, Prepared
  <2>3. ASSUME worker.pc # "idle", Here = w
        PROVE  WorkFits(worker, r)
    <3>1. WorkFits(worker, row[w])
      BY <2>1, <2>3 DEF Sound, WorkSound, Here
    <3>. QED  BY <1>2, <2>1, <2>3, <3>1, IdleWork DEF SInv, IInv, Here, Prepared
  <2>. QED  BY <2>2, <2>3
<1>. QED  BY <1>2, <1>3, <1>4, WriteSound DEF RequestControl, Deleting

(* The directory goes, and the row says deleting.                          *)
LEMMA RemoveFilesSound ==
    ASSUME SInv, IInv', NEW q \in Requests, RemoveFiles(q)
    PROVE  Kept
<1>. DEFINE w == Target(q)
<1>1. w \in Workspaces /\ request[q].pc = "remove"
  BY DEF SInv, IInv, RequestInv, Target, RemoveFiles, At
<1>2. /\ request'[q].pc = "erase" /\ request'[q].ws = w
      /\ \A p \in Requests \ {q} : request'[p] = request[p]
  BY GoOnMoves DEF SInv, IInv, RemoveFiles, RequestControl, Deleting
<1>3. /\ UNCHANGED <<row, queue, worker, reusable, overtaken, contested>>
      /\ tree'[w] = "none" /\ \A v \in Workspaces \ {w} : tree'[v] = tree[v]
  BY <1>1, SMT DEF RemoveFiles, SInv, IInv, StoreInv
<1>4. BornInv'
  <2>1. (\A p \in Requests : request[p].pc # "idle" => Born(request[p].ws))'
    BY <1>1, <1>2, <1>3 DEF SInv, BornInv, Born, Target
  <2>2. \A v \in Workspaces : (row[v].archived => Exists(v))' /\ (Born(v) \/ tree[v] = "none")'
    BY <1>3, SMT DEF SInv, BornInv, Born, Exists
  <2>3. (\A i \in DOMAIN queue : Born(queue[i].ws))' /\ (worker.pc # "idle" => Born(worker.ws))'
    BY <1>3 DEF SInv, BornInv, Born
  <2>. QED  BY <2>1, <2>2, <2>3 DEF BornInv
<1>5. OneDeletion'
  BY <1>1, <1>2, SMT DEF SInv, OneDeletion, Deleting
<1>6. ASSUME NEW v \in Workspaces \ overtaken'
      PROVE  Sound(v)' /\ Steady(v)
  <2>1. Sound(v)
    BY <1>3 DEF SInv
  <2>2. CASE v # w
    <3>1. \A p \in Requests : request'[p].ws = v /\ request'[p].pc \in {"remove", "erase"} =>
                                 request'[p] = request[p]
      BY <1>2, <2>2
    <3>. QED  BY <1>3, <2>1, <2>2, <3>1, UntouchedSound
  <2>3. CASE v = w
    <3>1. row[v].status = "deleting"
      BY <1>1, <2>1, <2>3 DEF Sound, DeletionSound, Target
    <3>2. WorkSound(v)'
      <4>. SUFFICES ASSUME worker.pc # "idle", worker.ws = v
                    PROVE  WorkFits(worker, row[v]) /\ worker.pc \notin {"sealing", "complete"}
        BY <1>3 DEF WorkSound, WorkFits
      <4>1. WorkFits(worker, row[v])
        BY <2>1 DEF Sound, WorkSound
      <4>. QED  BY <3>1, <4>1, IdleWork DEF SInv, IInv
    <3>3. RowSound(v)' /\ Steady(v)
      BY <1>3, <2>3, <3>1 DEF RowSound, Steady, Exists, Prepared
    <3>4. DeletionSound(v)'
      BY <1>3, <2>3, <3>1 DEF DeletionSound
    <3>. QED  BY <3>2, <3>3, <3>4 DEF Sound
  <2>. QED  BY <2>2, <2>3
<1>. QED  BY <1>4, <1>5, <1>6 DEF Kept, SInv

(* A deletion that ends, with the row gone or saying that it failed.       *)
LEMMA DeletionEndSound ==
    ASSUME SInv, IInv', NEW q \in Requests, request[q].pc \in {"remove", "erase"},
           NEW r, r.status \in {"deletion_failed", "gone"},
           r.archived => r.status = "deletion_failed",
           Exists(Target(q)) \/ r.status = "gone" => row'[Target(q)] = r,
           ~Exists(Target(q)) /\ r.status # "gone" => row'[Target(q)] = row[Target(q)],
           \A v \in Workspaces \ {Target(q)} : row'[v] = row[v] /\ tree'[v] = tree[v],
           tree[Target(q)] = "none" => tree'[Target(q)] = "none",
           r.status = "gone" => At(q, "erase"),
           \A i \in DOMAIN queue' : \E j \in DOMAIN queue : queue'[i] = queue[j],
           Answer(q), UNCHANGED <<worker, overtaken, contested>>
    PROVE  Kept
<1>. DEFINE w == Target(q)
<1>1. w \in Workspaces /\ Born(w)
  BY DEF SInv, IInv, RequestInv, BornInv, Target
<1>2. /\ request'[q] = NoRequest
      /\ \A p \in Requests \ {q} : request'[p] = request[p]
  BY AnswerEnds DEF SInv, IInv
<1>3. \A v \in Workspaces : Born(v) => Born(v)'
  BY <1>1, SMT DEF Born
<1>4. BornInv'
  <2>1. (\A i \in DOMAIN queue : Born(queue[i].ws))'
    BY <1>3, QueuedWorkspaces DEF SInv, IInv, BornInv
  <2>2. (worker.pc # "idle" => Born(worker.ws))'
    BY <1>3 DEF SInv, IInv, WorkerInv, BornInv
  <2>3. (\A p \in Requests : request[p].pc # "idle" => Born(request[p].ws))'
    BY <1>2, <1>3 DEF SInv, IInv, RequestInv, BornInv, NoRequest
  <2>4. ASSUME NEW v \in Workspaces
        PROVE  (row[v].archived => Exists(v))' /\ (Born(v) \/ tree[v] = "none")'
    <3>1. (row[v].archived => Exists(v)) /\ (Born(v) \/ tree[v] = "none")
      BY DEF SInv, BornInv
    <3>2. CASE v # w
      BY <3>1, <3>2 DEF Born, Exists
    <3>3. CASE v = w
      BY <1>1, <1>3, <3>1, <3>3 DEF Exists
    <3>. QED  BY <3>2, <3>3
  <2>. QED  BY <2>1, <2>2, <2>3, <2>4 DEF BornInv
<1>5. OneDeletion'
  BY <1>2, SMT DEF SInv, OneDeletion, NoRequest, Deleting
<1>6. ASSUME NEW v \in Workspaces \ overtaken'
      PROVE  Sound(v)' /\ Steady(v)
  <2>1. Sound(v)
    BY DEF SInv
  <2>2. CASE v # w
    <3>1. \A p \in Requests : request'[p].ws = v /\ request'[p].pc \in {"remove", "erase"} =>
                                 request'[p] = request[p]
      BY <1>2 DEF NoRequest
    <3>. QED  BY <2>1, <2>2, <3>1, UntouchedSound
  <2>3. CASE v = w
    <3>1. /\ row[v].status = "deleting"
          /\ At(q, "erase") => tree[v] = "none"
      BY <2>1, <2>3 DEF Sound, DeletionSound, Target, At
    <3>2. row'[v] = r
      BY <2>3, <3>1 DEF Exists
    <3>3. WorkSound(v)'
      <4>. SUFFICES ASSUME worker.pc # "idle", worker.ws = v
                    PROVE  WorkFits(worker, r) /\ worker.pc \notin {"sealing", "complete"}
        BY <3>2 DEF WorkSound
      <4>1. WorkFits(worker, row[v])
        BY <2>1 DEF Sound, WorkSound
      <4>. QED  BY <3>1, <4>1, IdleWork DEF SInv, IInv, Prepared
    <3>4. RowSound(v)'
      <4>1. r.status = "deletion_failed" \/ tree'[v] = "none"
        BY <2>3, <3>1
      <4>. QED  BY <3>2, <4>1 DEF RowSound, Exists, Prepared
    <3>5. DeletionSound(v)'
      <4>. SUFFICES ASSUME NEW p \in Requests, request'[p].pc \in {"remove", "erase"}
                    PROVE  FALSE
        BY DEF DeletionSound
      <4>. QED  BY <1>2 DEF SInv, OneDeletion, NoRequest, Deleting
    <3>6. Steady(v)
      BY <3>1, <3>2 DEF Steady, Prepared
    <3>. QED  BY <3>3, <3>4, <3>5, <3>6 DEF Sound
  <2>. QED  BY <2>2, <2>3
<1>. QED  BY <1>4, <1>5, <1>6 DEF Kept, SInv

(* It failed: the row says so, whatever is left of the directory.          *)
LEMMA DeletionFailsSound ==
    ASSUME SInv, IInv', NEW q \in Requests, DeletionFails(q)
    PROVE  Kept
<1>. DEFINE w == Target(q)
            r == [row[w] EXCEPT !.status = "deletion_failed"]
<1>1. w \in Workspaces /\ row[w] \in Row
  BY SMT DEF SInv, IInv, RequestInv, StoreInv, Target, DeletionFails
<1>2. r.status = "deletion_failed"
  BY <1>1, SMT DEF Row
<1>3. /\ request[q].pc \in {"remove", "erase"}
      /\ Update(w, r) /\ Answer(q) /\ UNCHANGED <<queue, worker, overtaken, contested>>
  BY DEF DeletionFails
<1>4. PICK t \in IF tree[w] = "none" THEN {"none"} ELSE {tree[w], "partial"} :
         tree' = [tree EXCEPT ![w] = t]
  BY DEF DeletionFails
<1>. HIDE DEF r
<1>5. /\ Exists(w) => row'[w] = r
      /\ ~Exists(w) => row'[w] = row[w]
      /\ \A v \in Workspaces \ {w} : row'[v] = row[v]
  BY <1>1, <1>3, SMT DEF SInv, IInv, StoreInv, Update
<1>6. /\ \A v \in Workspaces \ {w} : tree'[v] = tree[v]
      /\ tree[w] = "none" => tree'[w] = "none"
  BY <1>1, <1>4, SMT DEF SInv, IInv, StoreInv
<1>. QED  BY <1>2, <1>3, <1>5, <1>6, DeletionEndSound

(* It is done: the row goes, and the jobs that refer to it.                *)
LEMMA EraseRowSound ==
    ASSUME SInv, IInv', NEW q \in Requests, EraseRow(q)
    PROVE  Kept
<1>. DEFINE w == Target(q)
            r == [NoRow EXCEPT !.status = "gone"]
            kept == {i \in DOMAIN queue : queue[i].ws # w}
            n == Cardinality(kept)
<1>1. w \in Workspaces /\ request[q].pc = "erase"
  BY DEF SInv, IInv, RequestInv, Target, EraseRow, At
<1>2. r.status = "gone" /\ r.archived = FALSE
  BY SMT DEF NoRow
<1>3. /\ row' = [row EXCEPT ![w] = r]
      /\ Answer(q) /\ UNCHANGED <<tree, worker, overtaken, contested>>
  BY Zenon DEF EraseRow
<1>4. \A i \in DOMAIN queue' : \E j \in DOMAIN queue : queue'[i] = queue[j]
  <2>1. PICK from \in [1..n -> kept] : queue' = [i \in 1..n |-> queue[from[i]]]
    BY Zenon DEF EraseRow
  <2>. HIDE DEF n
  <2>2. \A i \in 1..n : from[i] \in DOMAIN queue
    OBVIOUS
  <2>. QED  BY <2>1, <2>2
<1>. HIDE DEF r
<1>5. row'[w] = r /\ \A v \in Workspaces \ {w} : row'[v] = row[v]
  BY <1>1, <1>3, SMT DEF SInv, IInv, StoreInv
<1>. QED  BY <1>1, <1>2, <1>3, <1>4, <1>5, DeletionEndSound DEF At

(* Requests go on.                                                         *)
LEMMA ContinuesSound ==
    ASSUME SInv, IInv', NEW q \in Requests, Continues(q)
    PROVE  Kept
<1>1. CASE FindActive(q) \/ CheckStatus(q) \/ FindActiveBuild(q)
  <2>1. /\ request[q].pc # "idle" /\ OnlyRequest
        /\ Answer(q) \/ \E l \in RequestControl \ Deleting : GoOn(q, l)
    BY <1>1 DEF FindActive, CheckStatus, FindActiveBuild, At, RequestControl, Deleting
  <2>. QED  BY <2>1, MovesSound
<1>2. CASE EnqueuePreparation(q) \/ EnqueueBuild(q)
  BY <1>2, EnqueueSound DEF EnqueuePreparation, EnqueueBuild, At, Kinds
<1>3. CASE SelectProjectRoot(q)
  BY <1>3, SelectSound
<1>4. CASE MarkStopped(q) \/ MarkReady(q) \/ StopToArchive(q)
  BY <1>4, StatusWriteSound DEF MarkStopped, MarkReady, StopToArchive, At
<1>5. CASE MarkDeleting(q)
  BY <1>5, StatusWriteSound DEF MarkDeleting, At
<1>6. CASE SetArchived(q) \/ ClearArchived(q)
  BY <1>6, ArchiveWriteSound DEF SetArchived, ClearArchived, At
<1>7. CASE RemoveFiles(q)
  BY <1>7, RemoveFilesSound
<1>8. CASE DeletionFails(q)
  BY <1>8, DeletionFailsSound
<1>9. CASE EraseRow(q)
  BY <1>9, EraseRowSound
<1>. QED  BY <1>1, <1>2, <1>3, <1>4, <1>5, <1>6, <1>7, <1>8, <1>9 DEF Continues

-----------------------------------------------------------------------------
(* The job worker.                                                         *)

(* The worker after it moved along.                                        *)
LEMMA ProceedMoves ==
    ASSUME worker \in Execution, NEW l \in WorkerControl, Proceed(l)
    PROVE  /\ worker'.pc = l /\ worker'.ws = worker.ws /\ worker'.kind = worker.kind
           /\ worker'.fresh = worker.fresh /\ worker'.waiting = worker.waiting
BY SMT DEF Execution, Proceed

(* A step of the worker that only moves it, or has it take a job.          *)
LEMMA OnlyWorkerSound ==
    ASSUME SInv, IInv', UNCHANGED <<row, tree, request, overtaken, contested>>,
           \A i \in DOMAIN queue' : Born(queue'[i].ws),
           worker'.pc # "idle" => Born(worker'.ws),
           worker'.pc # "idle" /\ worker'.ws \notin overtaken =>
               /\ WorkFits(worker', row[worker'.ws])
               /\ worker'.pc \in {"sealing", "complete"} => Whole(worker'.ws)
    PROVE  Kept
<1>1. BornInv'
  BY BornKeeps DEF SInv, BornInv, Born
<1>2. OneDeletion'
  BY DEF SInv, OneDeletion
<1>3. ASSUME NEW w \in Workspaces \ overtaken'
      PROVE  Sound(w)' /\ Steady(w)
  <2>1. Sound(w)
    BY DEF SInv
  <2>2. WorkSound(w)'
    BY DEF WorkSound, WorkFits, StatusFits, Built, Whole
  <2>3. RowSound(w)' /\ DeletionSound(w)'
    BY <2>1 DEF Sound, RowSound, DeletionSound, Exists, Whole
  <2>4. Steady(w)
    BY DEF Steady
  <2>. QED  BY <2>2, <2>3, <2>4 DEF Sound
<1>. QED  BY <1>1, <1>2, <1>3 DEF Kept, SInv

(* A write of a job on the row and the directory of its workspace, if the   *)
(* workspace is still there.                                               *)
LEMMA JobWriteSound ==
    ASSUME SInv, IInv', worker.pc # "idle", worker'.ws = worker.ws,
           NEW r, r.archived = row[Here].archived,
           Exists(Here) => r.status \notin {"absent", "gone"},
           Exists(Here) => row'[Here] = r,
           ~Exists(Here) => row'[Here] = row[Here],
           \A v \in Workspaces \ {Here} : row'[v] = row[v] /\ tree'[v] = tree[v],
           UNCHANGED <<queue, request, overtaken, contested>>,
           Here \notin overtaken =>
               \/ worker'.pc = "finish" /\ ~Exists(Here) /\ tree' = tree
               \/ /\ Exists(Here) /\ RowFits(Here, r) /\ WorkFits(worker', r)
                  /\ \/ tree'[Here] = tree[Here]
                     \/ row[Here].status = "initializing" /\ r.status \notin Prepared
                  /\ worker'.pc \in {"sealing", "complete"} =>
                        tree'[Here] \in {"base", "branch"}
    PROVE  Kept
<1>. DEFINE w == Here
<1>1. w \in Workspaces /\ Born(w)
  BY DEF SInv, IInv, WorkerInv, BornInv, Here
<1>2. \A v \in Workspaces : Born(v) => Born(v)'
  BY <1>1 DEF Born
<1>3. BornInv'
  <2>1. (\A i \in DOMAIN queue : Born(queue[i].ws))'
    BY <1>2, QueuedWorkspaces DEF SInv, IInv, BornInv
  <2>2. (worker.pc # "idle" => Born(worker.ws))'
    BY <1>1, <1>2 DEF Here
  <2>3. (\A p \in Requests : request[p].pc # "idle" => Born(request[p].ws))'
    BY <1>2 DEF SInv, IInv, RequestInv, BornInv
  <2>4. ASSUME NEW v \in Workspaces
        PROVE  (row[v].archived => Exists(v))' /\ (Born(v) \/ tree[v] = "none")'
    <3>1. (row[v].archived => Exists(v)) /\ (Born(v) \/ tree[v] = "none")
      BY DEF SInv, BornInv
    <3>2. CASE v # w
      BY <3>1, <3>2 DEF Born, Exists
    <3>3. CASE v = w
      BY <1>1, <1>2, <3>1, <3>3 DEF Exists
    <3>. QED  BY <3>2, <3>3
  <2>. QED  BY <2>1, <2>2, <2>3, <2>4 DEF BornInv
<1>4. OneDeletion'
  BY DEF SInv, OneDeletion
<1>5. ASSUME NEW v \in Workspaces \ overtaken'
      PROVE  Sound(v)' /\ Steady(v)
  <2>1. Sound(v)
    BY DEF SInv
  <2>2. CASE v # w
    BY <2>1, <2>2, UntouchedSound DEF Here
  <2>3. CASE v = w /\ ~Exists(w)
    <3>1. worker'.pc = "finish" /\ row'[v] = row[v] /\ tree' = tree
      BY <2>3
    <3>2. WorkSound(v)'
      BY <3>1 DEF WorkSound, WorkFits, StatusFits, Built, Ending, InHand
    <3>3. RowSound(v)' /\ DeletionSound(v)' /\ Steady(v)
      BY <2>1, <3>1 DEF Sound, RowSound, DeletionSound, Exists, Whole, Steady
    <3>. QED  BY <3>2, <3>3 DEF Sound
  <2>4. CASE v = w /\ Exists(w)
    <3>1. /\ row'[v] = r /\ RowFits(v, r) /\ WorkFits(worker', r)
          /\ \/ tree'[v] = tree[v]
             \/ row[v].status = "initializing" /\ r.status \notin Prepared
          /\ worker'.pc \in {"sealing", "complete"} => tree'[v] \in {"base", "branch"}
      BY <2>4
    <3>2. WorkSound(v)'
      BY <3>1 DEF WorkSound, WorkFits, StatusFits, Built, Whole
    <3>3. RowSound(v)'
      BY <3>1 DEF RowSound, RowFits, Exists, Whole
    <3>4. DeletionSound(v)'
      <4>. SUFFICES ASSUME NEW p \in Requests, request[p].ws = v,
                           request[p].pc \in {"remove", "erase"}
                    PROVE  /\ r.status = "deleting"
                           /\ request[p].pc = "erase" => tree'[v] = "none"
        BY <3>1 DEF DeletionSound
      <4>1. /\ row[v].status = "deleting"
            /\ request[p].pc = "erase" => tree[v] = "none"
        BY <2>1 DEF Sound, DeletionSound
      <4>. QED  BY <2>4, <3>1, <4>1 DEF RowFits
    <3>5. Steady(v)
      BY <3>1 DEF Steady, RowFits
    <3>. QED  BY <3>2, <3>3, <3>4, <3>5 DEF Sound
  <2>. QED  BY <2>2, <2>3, <2>4
<1>. QED  BY <1>3, <1>4, <1>5 DEF Kept, SInv

(* Where the worker is.                                                    *)
LEMMA AtWork ==
    ASSUME SInv, worker.pc # "idle"
    PROVE  /\ Here \in Workspaces /\ row[Here] \in Row /\ Born(Here)
           /\ worker \in Execution /\ worker.kind \in {"prepare", "build"}
           /\ worker.kind = "build" => worker.pc \in BuildControl
           /\ Here \notin overtaken =>
                 /\ WorkFits(worker, row[Here]) /\ RowSound(Here)
                 /\ worker.pc \in {"sealing", "complete"} => Whole(Here)
<1>1. /\ Here \in Workspaces /\ worker \in Execution
      /\ worker.kind = "build" => worker.pc \in BuildControl
  BY DEF SInv, IInv, WorkerInv, Here
<1>2. row[Here] \in Row
  BY <1>1, SMT DEF SInv, IInv, StoreInv
<1>3. worker.kind \in {"prepare", "build"}
  BY <1>1, SMT DEF Execution, Kinds
<1>. QED  BY <1>1, <1>2, <1>3 DEF SInv, BornInv, Here, Sound, WorkSound

(* A write of the worker through WriteRow.                                 *)
LEMMA WriteRowSound ==
    ASSUME SInv, IInv', worker.pc # "idle", NEW r \in Row, NEW l \in WorkerControl,
           r.archived = row[Here].archived,
           Exists(Here) => r.status \notin {"absent", "gone"},
           WriteRow(r, l),
           Here \notin overtaken /\ Exists(Here) =>
               /\ RowFits(Here, r)
               /\ \A job \in Execution :
                     job.pc = l /\ job.kind = worker.kind /\ job.fresh = worker.fresh
                       /\ job.waiting = worker.waiting => WorkFits(job, r)
               /\ l \in {"sealing", "complete"} => Whole(Here)
    PROVE  Kept
<1>1. Here \in Workspaces /\ worker \in Execution
  BY AtWork
<1>2. UNCHANGED <<tree, queue, request, reusable, overtaken, contested>>
  BY DEF WriteRow, RowByWorker
<1>3. /\ Exists(Here) => row'[Here] = r
      /\ ~Exists(Here) => row'[Here] = row[Here]
      /\ \A v \in Workspaces \ {Here} : row'[v] = row[v]
  BY <1>1, SMT DEF SInv, IInv, StoreInv, WriteRow, Update
<1>4. /\ worker'.pc = IF Exists(Here) THEN l ELSE "finish"
      /\ worker'.ws = worker.ws /\ worker'.kind = worker.kind
      /\ worker'.fresh = worker.fresh /\ worker'.waiting = worker.waiting
  BY <1>1, ProceedMoves DEF WriteRow, WorkerControl
<1>5. worker' \in Execution
  BY DEF IInv, WorkerInv
<1>. QED  BY <1>2, <1>3, <1>4, <1>5, JobWriteSound DEF Whole

(* The worker records a failure of a preparation it has in hand, or that it *)
(* could not go on waiting.                                                *)
LEMMA FailSound ==
    ASSUME SInv, IInv', worker.pc # "idle", NEW r \in Row, WriteRow(r, "finish"),
           r.archived = row[Here].archived, r.status = "initialization_failed",
           Here \notin overtaken => row[Here].status \in {"initializing", "waiting_environment"}
    PROVE  Kept
<1>1. Here \notin overtaken => RowFits(Here, r)
  BY DEF RowFits, Prepared
<1>2. \A job \in Execution : job.pc = "finish" => WorkFits(job, r)
  BY DEF WorkFits, StatusFits, Built, Ending, InHand
<1>. QED  BY <1>1, <1>2, WriteRowSound DEF WorkerControl

(* s.fail, from where a preparation is in hand.                            *)
LEMMA FailInHand ==
    ASSUME SInv, IInv', worker.kind = "prepare", worker.pc \in InHand, Fail
    PROVE  Kept
<1>. DEFINE r == [row[Here] EXCEPT !.status = "initialization_failed", !.stage = "failed"]
<1>1. worker.pc # "idle"
  BY DEF InHand
<1>2. /\ row[Here] \in Row
      /\ Here \notin overtaken => row[Here].status = "initializing"
  BY <1>1, AtWork DEF WorkFits, StatusFits
<1>3. r \in Row
  BY <1>2, RowColumns, Zenon DEF Statuses, Stages, Versions
<1>4. r.status = "initialization_failed" /\ r.archived = row[Here].archived
  BY <1>2, SMT DEF Row
<1>5. WriteRow(r, "finish")
  BY DEF Fail, FailPreparation, WriteRow
<1>. HIDE DEF r
<1>. QED  BY <1>1, <1>2, <1>3, <1>4, <1>5, FailSound

(* A step that only moves the worker along.                                *)
LEMMA ProceedSound ==
    ASSUME SInv, IInv', worker.pc # "idle", NEW l \in WorkerControl,
           Proceed(l), OnlyWorker,
           Here \notin overtaken =>
               /\ \A job \in Execution :
                     job.pc = l /\ job.kind = worker.kind /\ job.fresh = worker.fresh
                       /\ job.waiting = worker.waiting => WorkFits(job, row[Here])
               /\ l \in {"sealing", "complete"} => Whole(Here)
    PROVE  Kept
<1>1. Here \in Workspaces /\ worker \in Execution /\ Born(Here)
  BY AtWork
<1>2. /\ worker'.pc = l /\ worker'.ws = worker.ws /\ worker'.kind = worker.kind
      /\ worker'.fresh = worker.fresh /\ worker'.waiting = worker.waiting
  BY <1>1, ProceedMoves
<1>3. worker' \in Execution
  BY DEF IInv, WorkerInv
<1>4. \A i \in DOMAIN queue' : Born(queue'[i].ws)
  BY DEF SInv, BornInv, OnlyWorker
<1>. QED  BY <1>1, <1>2, <1>3, <1>4, OnlyWorkerSound DEF OnlyWorker, Here

(* A job that finds nothing to do, or ends without a record, is done.      *)
LEMMA LeaveSound ==
    ASSUME SInv, IInv', worker.pc # "idle", Proceed("finish"), OnlyWorker
    PROVE  Kept
<1>1. \A job \in Execution : job.pc = "finish" => WorkFits(job, row[Here])
  BY DEF WorkFits, StatusFits, Built, Ending, InHand
<1>. QED  BY <1>1, ProceedSound DEF WorkerControl

(* A step along a preparation in hand.                                     *)
LEMMA InHandSound ==
    ASSUME SInv, IInv', worker.kind = "prepare", worker.pc \in InHand,
           NEW l \in {"analyzing", "find", "verifying"}, Proceed(l), OnlyWorker,
           l = "verifying" /\ Here \notin overtaken => row[Here].version = "ready"
    PROVE  Kept
<1>1. worker.pc # "idle"
  BY DEF InHand
<1>2. Here \notin overtaken => row[Here].status = "initializing"
  BY <1>1, AtWork DEF WorkFits, StatusFits
<1>3. ASSUME Here \notin overtaken, NEW job \in Execution, job.pc = l, job.kind = "prepare"
      PROVE  WorkFits(job, row[Here])
  BY <1>2, <1>3 DEF WorkFits, StatusFits, Built, Ending, InHand
<1>4. l \in WorkerControl
  BY DEF WorkerControl, StageWrites
<1>. QED  BY <1>1, <1>3, <1>4, ProceedSound

(* One that changes the directory.                                         *)
LEMMA TreeSound ==
    ASSUME SInv, IInv', worker.kind = "prepare", worker.pc \in {"clone", "switch"},
           NEW t, tree' = [tree EXCEPT ![Here] = t],
           NEW l \in {"switch", "analyzing"}, Proceed(l),
           UNCHANGED <<row, queue, request, reusable, overtaken, contested>>
    PROVE  Kept
<1>1. /\ Here \in Workspaces /\ worker \in Execution /\ Born(Here)
      /\ Here \notin overtaken => row[Here].status = "initializing"
  BY AtWork DEF WorkFits, StatusFits, InHand
<1>2. worker'.pc = l /\ worker'.ws = worker.ws /\ worker'.kind = "prepare"
  BY <1>1, ProceedMoves DEF WorkerControl, StageWrites
<1>3. \A v \in Workspaces \ {Here} : tree'[v] = tree[v]
  BY <1>1, SMT DEF SInv, IInv, StoreInv
<1>4. Here \notin overtaken => RowFits(Here, row[Here]) /\ WorkFits(worker', row[Here])
  BY <1>1, <1>2 DEF RowFits, WorkFits, StatusFits, Built, Ending, InHand, Prepared
<1>. QED  BY <1>1, <1>2, <1>3, <1>4, JobWriteSound DEF Prepared, Exists

(* The preparation.  In hand, its workspace says initializing.             *)
LEMMA PrepareSound ==
    ASSUME SInv, IInv', Prepare
    PROVE  Kept
<1>. DEFINE rw == row[Here]
<1>1. worker.pc # "idle"
  <2>1. \/ worker.pc \in {"open", "mark", "clone", "switch", "analyze", "find", "bind",
                          "wait", "enqueue", "check", "insert", "setup"}
        \/ worker.pc \in StageWrites
    BY DEF Prepare, On, OpenPreparation, MarkInitializing, EnterStage, CloneRepository,
           SwitchBranch, Analyze, FindVersion, BindVersion, WaitForBuild, RequestBuild,
           RequestBuildOnce, InsertBuild, SetUp
  <2>. QED  BY <2>1 DEF StageWrites
<1>2. /\ Here \in Workspaces /\ rw \in Row /\ Born(Here)
      /\ worker \in Execution /\ worker.kind \in {"prepare", "build"}
      /\ worker.kind = "build" => worker.pc \in BuildControl
      /\ Here \notin overtaken => WorkFits(worker, rw) /\ RowSound(Here)
  BY <1>1, AtWork
<1>3. worker.pc \in {"mark", "clone", "switch", "analyze", "find", "bind", "wait",
                     "enqueue", "check", "insert"} => worker.kind = "prepare"
  BY <1>2 DEF BuildControl
<1>4. Here \notin overtaken /\ worker.kind = "prepare" /\ worker.pc \in InHand =>
         rw.status = "initializing"
  BY <1>2 DEF WorkFits, StatusFits
<1>5. Here \notin overtaken /\ worker.kind = "prepare"
        /\ worker.pc \in {"enqueue", "check", "insert"} => rw.status = "waiting_environment"
  BY <1>2 DEF WorkFits, StatusFits
<1>6. CASE OpenPreparation
  <2>1. worker.kind = "prepare" /\ OnlyWorker
    BY <1>6 DEF OpenPreparation, On
  <2>2. CASE Proceed("finish")
    BY <1>1, <2>1, <2>2, LeaveSound
  <2>3. CASE ~Proceed("finish")
    <3>1. /\ worker' = [worker EXCEPT !.pc = "mark", !.chosen = rw.chosen]
          /\ rw.status \in {"creating", "initialization_failed"}
      BY <1>6, <2>3 DEF OpenPreparation, Status
    <3>2. rw.chosen \in BOOLEAN /\ "mark" \in WorkerControl
      BY <1>2, SMT DEF Row, WorkerControl
    <3>3. worker'.pc = "mark" /\ worker'.ws = Here /\ worker'.kind = "prepare"
      BY <1>2, <2>1, <3>1, <3>2, JobFields DEF Here
    <3>4. WorkFits(worker', rw)
      BY <3>1, <3>3 DEF WorkFits, StatusFits, Built, Ending, InHand
    <3>5. \A i \in DOMAIN queue' : Born(queue'[i].ws)
      BY <2>1 DEF SInv, BornInv, OnlyWorker
    <3>. QED  BY <1>2, <2>1, <3>3, <3>4, <3>5, OnlyWorkerSound DEF OnlyWorker
  <2>. QED  BY <2>2, <2>3
<1>7. CASE MarkInitializing
  <2>. DEFINE r == [rw EXCEPT !.status = "initializing"]
  <2>1. r \in Row
    BY <1>2, RowFields DEF Statuses
  <2>2. r.status = "initializing" /\ r.archived = rw.archived
    BY <1>2, SMT DEF Row
  <2>3. worker.kind = "prepare" /\ worker.pc = "mark" /\ WriteRow(r, "cloning")
    BY <1>3, <1>7 DEF MarkInitializing
  <2>. HIDE DEF r
  <2>4. Here \notin overtaken => RowFits(Here, r)
    BY <1>2, <2>2, <2>3 DEF WorkFits, StatusFits, RowFits, Prepared
  <2>5. \A job \in Execution : job.pc = "cloning" /\ job.kind = "prepare" => WorkFits(job, r)
    BY <2>2 DEF WorkFits, StatusFits, Built, Ending, InHand
  <2>. QED  BY <1>1, <2>1, <2>2, <2>3, <2>4, <2>5, WriteRowSound DEF WorkerControl, StageWrites
<1>8. CASE EnterStage
  <2>. DEFINE r == [rw EXCEPT !.stage = worker.pc]
              l == CASE worker.pc = "cloning"    -> "clone"
                     [] worker.pc = "analyzing"  -> "analyze"
                     [] worker.pc = "installing" -> IF worker.fresh THEN "wait" ELSE "setup"
                     [] worker.pc = "verifying"  -> "verify"
                     [] worker.pc = "sealing"    -> "complete"
  <2>1. worker.pc \in {"cloning", "analyzing", "installing", "verifying", "sealing"}
    BY <1>8 DEF EnterStage, StageWrites
  <2>2. r \in Row
    BY <1>2, <2>1, RowFields DEF Stages
  <2>3. r.status = rw.status /\ r.version = rw.version /\ r.archived = rw.archived
    BY <1>2, SMT DEF Row
  <2>4. /\ worker.pc = "cloning" => l = "clone"
        /\ worker.pc = "analyzing" => l = "analyze"
        /\ worker.pc = "installing" => l = IF worker.fresh THEN "wait" ELSE "setup"
        /\ worker.pc = "verifying" => l = "verify"
        /\ worker.pc = "sealing" => l = "complete"
    OBVIOUS
  <2>5. WriteRow(r, l)
    BY <1>8 DEF EnterStage
  <2>. HIDE DEF r, l
  <2>6. l \in {"clone", "analyze", "wait", "setup", "verify", "complete"}
    BY <2>1, <2>4
  <2>7. ASSUME Here \notin overtaken
        PROVE  /\ rw.status \in {"initializing", "waiting_environment"}
               /\ WorkFits(worker, rw)
    <3>1. WorkFits(worker, rw)
      BY <1>2, <2>7
    <3>2. worker.kind = "build" => worker.pc \in {"verifying", "sealing"}
      BY <1>2, <2>1 DEF BuildControl
    <3>. QED  BY <1>2, <2>1, <3>1, <3>2 DEF WorkFits, StatusFits, InHand, Ending
  <2>8. ASSUME Here \notin overtaken, NEW job \in Execution, job.pc = l,
               job.kind = worker.kind, job.fresh = worker.fresh, job.waiting = worker.waiting
        PROVE  WorkFits(job, r)
    <3>1. worker.kind = "build" => worker.pc \in {"verifying", "sealing"}
      BY <1>2, <2>1 DEF BuildControl
    <3>2. StatusFits(job, r.status)
      BY <1>2, <2>1, <2>3, <2>4, <2>6, <2>7, <2>8, <3>1 DEF WorkFits, StatusFits, InHand, Ending
    <3>3. Built(job) => r.version = "ready"
      BY <1>2, <2>1, <2>3, <2>4, <2>7, <2>8, <3>1 DEF WorkFits, Built, Ending
    <3>. QED  BY <3>2, <3>3 DEF WorkFits
  <2>9. Here \notin overtaken => RowFits(Here, r)
    BY <2>3, <2>7 DEF RowFits, Prepared
  <2>10. Here \notin overtaken /\ l \in {"sealing", "complete"} => Whole(Here)
    BY <1>1, <2>1, <2>4, AtWork
  <2>11. Exists(Here) => r.status \notin {"absent", "gone"}
    BY <2>3 DEF Exists
  <2>12. l \in WorkerControl
    BY <2>6 DEF WorkerControl
  <2>. QED  BY <1>1, <2>2, <2>3, <2>5, <2>8, <2>9, <2>10, <2>11, <2>12, WriteRowSound
<1>9. CASE CloneRepository
  <2>1. worker.kind = "prepare" /\ worker.pc = "clone"
    BY <1>3, <1>9 DEF CloneRepository
  <2>2. CASE Proceed("analyzing") /\ OnlyWorker
    BY <1>1, <1>4, <2>1, <2>2, InHandSound DEF InHand, Ending
  <2>3. CASE /\ tree' = [tree EXCEPT ![Here] = "base"]
             /\ Proceed(IF Here \in NewBranch THEN "switch" ELSE "analyzing")
             /\ UNCHANGED <<row, queue, request, reusable, overtaken, contested>>
    BY <2>1, <2>3, TreeSound
  <2>4. CASE Fail
    BY <2>1, <2>4, FailInHand DEF InHand
  <2>. QED  BY <1>9, <2>2, <2>3, <2>4 DEF CloneRepository
<1>10. CASE SwitchBranch
  <2>1. worker.kind = "prepare" /\ worker.pc = "switch"
    BY <1>3, <1>10 DEF SwitchBranch
  <2>2. CASE /\ tree' = [tree EXCEPT ![Here] = "branch"]
             /\ Proceed("analyzing")
             /\ UNCHANGED <<row, queue, request, reusable, overtaken, contested>>
    BY <2>1, <2>2, TreeSound
  <2>3. CASE Fail
    BY <2>1, <2>3, FailInHand DEF InHand
  <2>. QED  BY <1>10, <2>2, <2>3 DEF SwitchBranch
<1>11. CASE Analyze
  <2>1. worker.kind = "prepare" /\ worker.pc = "analyze"
    BY <1>3, <1>11 DEF Analyze
  <2>2. CASE Proceed("find") /\ OnlyWorker
    BY <1>1, <1>4, <2>1, <2>2, InHandSound DEF InHand, Ending
  <2>3. CASE WriteRow([rw EXCEPT !.status = "needs_configuration",
                         !.stage = "needs_configuration", !.chosen = FALSE], "finish")
    <3>. DEFINE r == [rw EXCEPT !.status = "needs_configuration",
                         !.stage = "needs_configuration", !.chosen = FALSE]
    <3>1. r \in Row
      BY <1>2, RowColumns, Zenon DEF Statuses, Stages, Versions
    <3>2. r.status = "needs_configuration" /\ r.archived = rw.archived
      BY <1>2, SMT DEF Row
    <3>3. WriteRow(r, "finish")
      BY <2>3
    <3>. HIDE DEF r
    <3>4. Here \notin overtaken => RowFits(Here, r)
      BY <1>4, <2>1, <3>2 DEF RowFits, Prepared, InHand
    <3>5. \A job \in Execution : job.pc = "finish" => WorkFits(job, r)
      BY DEF WorkFits, StatusFits, Built, Ending, InHand
    <3>. QED  BY <1>1, <3>1, <3>2, <3>3, <3>4, <3>5, WriteRowSound DEF WorkerControl
  <2>4. CASE Fail
    BY <2>1, <2>4, FailInHand DEF InHand
  <2>. QED  BY <1>11, <2>2, <2>3, <2>4 DEF Analyze
<1>12. CASE FindVersion
  <2>1. worker.kind = "prepare" /\ worker.pc = "find" /\ OnlyWorker
    BY <1>3, <1>12 DEF FindVersion
  <2>2. PICK found \in BOOLEAN : worker' = [worker EXCEPT !.pc = "bind", !.fresh = ~found]
    BY <1>12 DEF FindVersion
  <2>3. "bind" \in WorkerControl /\ (~found) \in BOOLEAN
    BY DEF WorkerControl
  <2>4. worker'.pc = "bind" /\ worker'.ws = Here /\ worker'.kind = "prepare"
    BY <1>2, <2>1, <2>2, <2>3, JobFields DEF Here
  <2>5. Here \notin overtaken => WorkFits(worker', rw)
    BY <1>4, <2>1, <2>4 DEF WorkFits, StatusFits, Built, Ending, InHand
  <2>6. \A i \in DOMAIN queue' : Born(queue'[i].ws)
    BY <2>1 DEF SInv, BornInv, OnlyWorker
  <2>. QED  BY <1>2, <2>1, <2>4, <2>5, <2>6, OnlyWorkerSound DEF OnlyWorker
<1>13. CASE BindVersion
  <2>. DEFINE v == IF worker.fresh THEN "pending" ELSE "ready"
              r == [rw EXCEPT !.version = v]
  <2>1. r \in Row
    BY <1>2, RowFields DEF Versions
  <2>2. r.status = rw.status /\ r.version = v /\ r.archived = rw.archived
    BY <1>2, SMT DEF Row
  <2>3. worker.kind = "prepare" /\ worker.pc = "bind" /\ WriteRow(r, "installing")
    BY <1>3, <1>13 DEF BindVersion
  <2>. HIDE DEF r
  <2>4. Here \notin overtaken => RowFits(Here, r)
    BY <1>4, <2>2, <2>3 DEF RowFits, Prepared, InHand
  <2>5. ASSUME Here \notin overtaken, NEW job \in Execution, job.pc = "installing",
               job.kind = "prepare", job.fresh = worker.fresh
        PROVE  WorkFits(job, r)
    BY <1>4, <2>2, <2>3, <2>5 DEF WorkFits, StatusFits, Built, Ending, InHand
  <2>. QED  BY <1>1, <2>1, <2>2, <2>3, <2>4, <2>5, WriteRowSound
            DEF WorkerControl, StageWrites, Exists
<1>14. CASE WaitForBuild
  <2>. DEFINE r == [rw EXCEPT !.status = "waiting_environment"]
  <2>1. r \in Row
    BY <1>2, RowFields DEF Statuses
  <2>2. r.status = "waiting_environment" /\ r.archived = rw.archived
    BY <1>2, SMT DEF Row
  <2>3. worker.kind = "prepare" /\ worker.pc = "wait" /\ WriteRow(r, "enqueue")
    BY <1>3, <1>14 DEF WaitForBuild
  <2>. HIDE DEF r
  <2>4. Here \notin overtaken => RowFits(Here, r)
    BY <1>4, <2>2, <2>3 DEF RowFits, Prepared, InHand
  <2>5. \A job \in Execution : job.pc = "enqueue" /\ job.kind = "prepare" => WorkFits(job, r)
    BY <2>2 DEF WorkFits, StatusFits, Built, Ending, InHand
  <2>. QED  BY <1>1, <2>1, <2>2, <2>3, <2>4, <2>5, WriteRowSound DEF WorkerControl
<1>15. CASE RequestBuild
  <2>1. worker.kind = "prepare" /\ worker.pc = "enqueue"
    BY <1>3, <1>15 DEF RequestBuild
  <2>2. CASE Proceed("check") /\ OnlyWorker
    <3>1. ASSUME Here \notin overtaken, NEW job \in Execution, job.pc = "check",
                 job.kind = worker.kind
          PROVE  WorkFits(job, rw)
      BY <1>5, <2>1, <3>1 DEF WorkFits, StatusFits, Built, Ending, InHand
    <3>. QED  BY <1>1, <2>2, <3>1, ProceedSound DEF WorkerControl
  <2>3. CASE /\ Update(Here, [rw EXCEPT !.status = "initialization_failed",
                                         !.stage = "failed", !.version = "failed"])
             /\ Proceed("finish")
             /\ RowByWorker
    <3>. DEFINE r == [rw EXCEPT !.status = "initialization_failed",
                                !.stage = "failed", !.version = "failed"]
    <3>1. r \in Row
      BY <1>2, RowColumns, Zenon DEF Statuses, Stages, Versions
    <3>2. r.status = "initialization_failed" /\ r.archived = rw.archived
      BY <1>2, SMT DEF Row
    <3>3. WriteRow(r, "finish")
      BY <2>3 DEF WriteRow
    <3>. HIDE DEF r
    <3>. QED  BY <1>1, <1>5, <2>1, <3>1, <3>2, <3>3, FailSound
  <2>. QED  BY <1>15, <2>2, <2>3 DEF RequestBuild
<1>16. CASE RequestBuildOnce
  <2>1. worker.kind = "prepare" /\ worker.pc = "check" /\ OnlyWorker
    BY <1>3, <1>16 DEF RequestBuildOnce
  <2>2. CASE Proceed("finish")
    BY <1>1, <2>1, <2>2, LeaveSound
  <2>3. CASE Proceed("insert")
    <3>1. ASSUME Here \notin overtaken, NEW job \in Execution, job.pc = "insert",
                 job.kind = worker.kind
          PROVE  WorkFits(job, rw)
      BY <1>5, <2>1, <3>1 DEF WorkFits, StatusFits, Built, Ending, InHand
    <3>. QED  BY <1>1, <2>1, <2>3, <3>1, ProceedSound DEF WorkerControl
  <2>. QED  BY <1>16, <2>2, <2>3 DEF RequestBuildOnce
<1>17. CASE InsertBuild
  <2>1. /\ CreateJob(Here, "build") /\ Proceed("finish")
        /\ UNCHANGED <<row, tree, request, reusable, overtaken, contested>>
    BY <1>17 DEF InsertBuild
  <2>2. \A i \in DOMAIN queue' : Born(queue'[i].ws)
    BY <1>2, <2>1, CreateJobBorn DEF SInv, IInv, Kinds
  <2>3. worker'.pc = "finish" /\ worker'.ws = Here
    BY <1>2, <2>1, ProceedMoves DEF WorkerControl, Here
  <2>4. WorkFits(worker', rw)
    BY <2>3 DEF WorkFits, StatusFits, Built, Ending, InHand
  <2>. QED  BY <1>2, <2>1, <2>2, <2>3, <2>4, OnlyWorkerSound
<1>18. CASE SetUp
  <2>1. worker.kind = "prepare" /\ worker.pc = "setup"
    BY <1>18 DEF SetUp, On
  <2>2. CASE Proceed("verifying") /\ OnlyWorker
    <3>1. Here \notin overtaken => rw.version = "ready"
      BY <1>2, <2>1 DEF WorkFits, Built
    <3>. QED  BY <1>1, <1>4, <2>1, <2>2, <3>1, InHandSound DEF InHand, Ending
  <2>3. CASE Fail
    BY <2>1, <2>3, FailInHand DEF InHand
  <2>. QED  BY <1>18, <2>2, <2>3 DEF SetUp
<1>. QED  BY <1>6, <1>7, <1>8, <1>9, <1>10, <1>11, <1>12, <1>13, <1>14, <1>15, <1>16, <1>17, <1>18
          DEF Prepare

(* The build, and what both kinds of jobs share.                           *)
LEMMA WorkerStepSound ==
    ASSUME SInv, IInv', WorkerStep
    PROVE  Kept
<1>. DEFINE rw == row[Here]
<1>0. ASSUME worker.pc # "idle"
      PROVE  /\ Here \in Workspaces /\ rw \in Row /\ Born(Here)
             /\ worker \in Execution /\ worker.kind \in {"prepare", "build"}
             /\ Here \notin overtaken =>
                   /\ WorkFits(worker, rw) /\ RowSound(Here)
                   /\ worker.pc \in {"sealing", "complete"} => Whole(Here)
  BY <1>0, AtWork
<1>1. CASE ClaimNextJob
  <2>1. /\ Head(queue) = queue[1] /\ 1 \in DOMAIN queue
        /\ \A i \in DOMAIN queue' : \E j \in DOMAIN queue : queue'[i] = queue[j]
    <3>1. queue \in Seq(Jobs) /\ queue # <<>> /\ queue' = Tail(queue)
      BY <1>1 DEF ClaimNextJob, SInv, IInv, StoreInv
    <3>2. /\ Len(queue) \in Nat \ {0} /\ DOMAIN queue = 1..Len(queue)
          /\ Head(queue) = queue[1]
          /\ DOMAIN queue' = 1..(Len(queue) - 1)
          /\ \A i \in 1..(Len(queue) - 1) : queue'[i] = queue[i + 1]
      BY <3>1, HeadTailProperties, SMT
    <3>3. \A i \in 1..(Len(queue) - 1) : i + 1 \in 1..Len(queue)
      BY <3>2, SMT
    <3>4. 1 \in DOMAIN queue
      BY <3>2, SMT
    <3>. QED  BY <3>2, <3>3, <3>4
  <2>2. Head(queue).ws \in Workspaces /\ Head(queue).kind \in Kinds
    <3>1. Head(queue) \in Jobs
      BY <1>1, HeadTailProperties DEF ClaimNextJob, SInv, IInv, StoreInv
    <3>. QED  BY <3>1, SMT DEF Jobs
  <2>3. worker'.pc = "open" /\ worker'.ws = Head(queue).ws
    BY <1>1, <2>2, NewJob DEF ClaimNextJob
  <2>4. \A i \in DOMAIN queue' : Born(queue'[i].ws)
    BY <2>1 DEF SInv, BornInv
  <2>5. Born(worker'.ws)
    BY <2>1, <2>3 DEF SInv, BornInv
  <2>6. WorkFits(worker', row[worker'.ws])
    BY <2>3 DEF WorkFits, StatusFits, Built, Ending, InHand
  <2>. QED  BY <1>1, <2>3, <2>4, <2>5, <2>6, OnlyWorkerSound DEF ClaimNextJob
<1>2. CASE Prepare
  BY <1>2, PrepareSound
<1>3. CASE OpenBuild
  <2>1. worker.kind = "build" /\ worker.pc = "open" /\ OnlyWorker
    BY <1>3 DEF OpenBuild, On
  <2>2. CASE Proceed("finish")
    BY <2>1, <2>2, LeaveSound
  <2>3. CASE ~Proceed("finish")
    <3>. DEFINE waits == Status(Here, {"waiting_environment"})
    <3>1. /\ worker' = [worker EXCEPT !.pc = "setup", !.waiting = waits]
          /\ Buildable(Here)
      BY <1>3, <2>3 DEF OpenBuild
    <3>2. waits \in BOOLEAN /\ "setup" \in WorkerControl
      BY DEF WorkerControl, Status
    <3>3. worker'.pc = "setup" /\ worker'.ws = Here /\ worker'.kind = "build"
      BY <1>0, <2>1, <3>1, <3>2, JobFields DEF Here
    <3>4. worker'.waiting = waits
      BY <1>0, <2>1, <3>1, SMT DEF Execution
    <3>5. Here \notin overtaken => WorkFits(worker', rw)
      <4>1. Here \notin overtaken => rw.status \notin Prepared
        BY <1>0, <2>1, <3>1 DEF RowSound, Buildable
      <4>. QED  BY <3>3, <3>4, <4>1 DEF WorkFits, StatusFits, Built, Ending, Status
    <3>6. \A i \in DOMAIN queue' : Born(queue'[i].ws)
      BY <2>1 DEF SInv, BornInv, OnlyWorker
    <3>. QED  BY <1>0, <2>1, <3>3, <3>5, <3>6, OnlyWorkerSound DEF OnlyWorker
  <2>. QED  BY <2>2, <2>3
<1>4. CASE Build
  <2>. DEFINE r == [rw EXCEPT !.version = "ready"]
              l == IF worker.waiting THEN "verifying" ELSE "finish"
  <2>1. worker.kind = "build" /\ worker.pc = "setup"
    BY <1>4 DEF Build, On
  <2>2. /\ Update(Here, r) /\ Proceed(l)
        /\ UNCHANGED <<tree, queue, request, overtaken, contested>>
    BY <1>4 DEF Build
  <2>3. r.status = rw.status /\ r.version = "ready" /\ r.archived = rw.archived
    BY <1>0, <2>1, SMT DEF Row
  <2>4. l \in WorkerControl
    BY DEF WorkerControl, StageWrites
  <2>. HIDE DEF r
  <2>5. /\ worker'.pc = l /\ worker'.ws = worker.ws /\ worker'.kind = "build"
        /\ worker'.waiting = worker.waiting
    BY <1>0, <2>1, <2>2, <2>4, ProceedMoves
  <2>6. /\ Exists(Here) => row'[Here] = r
        /\ ~Exists(Here) => row'[Here] = row[Here]
        /\ \A v \in Workspaces \ {Here} : row'[v] = row[v]
    BY <1>0, <2>1, <2>2, SMT DEF SInv, IInv, StoreInv, Update
  <2>7. ASSUME Here \notin overtaken
        PROVE  /\ rw.status \notin Prepared
               /\ worker.waiting => rw.status = "waiting_environment"
    BY <1>0, <2>1, <2>7 DEF WorkFits, StatusFits
  <2>8. Here \notin overtaken => WorkFits(worker', r)
    BY <2>3, <2>5, <2>7 DEF WorkFits, StatusFits, Built, Ending
  <2>9. Here \notin overtaken /\ Exists(Here) => RowFits(Here, r)
    BY <2>3, <2>7 DEF RowFits, Exists
  <2>10. Here \notin overtaken /\ ~Exists(Here) => worker'.pc = "finish"
    BY <2>5, <2>7 DEF Exists
  <2>11. worker'.pc \notin {"sealing", "complete"}
    BY <2>5
  <2>12. Exists(Here) => r.status \notin {"absent", "gone"}
    BY <2>3 DEF Exists
  <2>. HIDE DEF l
  <2>. QED  BY <2>1, <2>2, <2>3, <2>5, <2>6, <2>8, <2>9, <2>10, <2>11, <2>12, JobWriteSound
<1>5. CASE BuildFails
  <2>1. worker.kind = "build" /\ worker.pc = "setup"
    BY <1>5 DEF BuildFails, On
  <2>2. CASE Proceed("finish") /\ OnlyWorker
    BY <2>1, <2>2, LeaveSound
  <2>3. CASE ~(Proceed("finish") /\ OnlyWorker)
    <3>. DEFINE s == IF worker.waiting THEN "initialization_failed" ELSE rw.status
                t == IF worker.waiting THEN "failed" ELSE rw.stage
                r == [rw EXCEPT !.version = "failed", !.status = s, !.stage = t]
    <3>1. Update(Here, r) /\ Proceed("finish") /\ RowByWorker
      BY <1>5, <2>3 DEF BuildFails
    <3>. HIDE DEF s, t
    <3>2. r \in Row
      <4>1. s \in Statuses /\ t \in Stages
        BY <1>0, <2>1, SMT DEF Row, Statuses, Stages, s, t
      <4>. QED  BY <1>0, <2>1, <4>1, RowColumns DEF Versions
    <3>3. r.status = s /\ r.archived = rw.archived
      BY <1>0, <2>1, SMT DEF Row
    <3>. HIDE DEF r
    <3>4. WriteRow(r, "finish")
      BY <3>1 DEF WriteRow
    <3>5. Here \notin overtaken /\ Exists(Here) => RowFits(Here, r)
      <4>1. Here \notin overtaken =>
               /\ rw.status \notin Prepared
               /\ worker.waiting => rw.status = "waiting_environment"
        BY <1>0, <2>1 DEF WorkFits, StatusFits
      <4>. QED  BY <3>3, <4>1 DEF RowFits, Exists, Prepared, s
    <3>6. Exists(Here) => r.status \notin {"absent", "gone"}
      BY <3>3 DEF Exists, s
    <3>7. \A job \in Execution : job.pc = "finish" => WorkFits(job, r)
      BY DEF WorkFits, StatusFits, Built, Ending, InHand
    <3>. QED  BY <2>1, <3>2, <3>3, <3>4, <3>5, <3>6, <3>7, WriteRowSound DEF WorkerControl
  <2>. QED  BY <2>2, <2>3
<1>6. CASE Verify
  <2>1. worker.pc = "verify"
    BY <1>6 DEF Verify
  <2>2. CASE Whole(Here) /\ Proceed("sealing") /\ OnlyWorker
    <3>1. ASSUME Here \notin overtaken, NEW job \in Execution, job.pc = "sealing",
                 job.kind = worker.kind
          PROVE  WorkFits(job, rw)
      <4>1. WorkFits(worker, rw)
        BY <1>0, <2>1, <3>1
      <4>. QED  BY <2>1, <3>1, <4>1 DEF WorkFits, StatusFits, Built, Ending, InHand
    <3>. QED  BY <2>1, <2>2, <3>1, ProceedSound DEF WorkerControl, StageWrites
  <2>3. CASE worker.kind = "prepare" /\ Fail
    BY <2>1, <2>3, FailInHand DEF InHand
  <2>4. CASE Proceed("finish") /\ OnlyWorker
    BY <2>1, <2>4, LeaveSound
  <2>. QED  BY <1>6, <2>2, <2>3, <2>4 DEF Verify
<1>7. CASE CompletePreparation
  <2>. DEFINE r == [rw EXCEPT !.status = "ready", !.stage = "ready"]
  <2>1. worker.pc = "complete" /\ WriteRow(r, "finish")
    BY <1>7 DEF CompletePreparation
  <2>2. r \in Row
    BY <1>0, <2>1, RowColumns DEF Statuses, Stages, Versions
  <2>3. /\ r.status = "ready" /\ r.stage = "ready"
        /\ r.version = rw.version /\ r.archived = rw.archived
    BY <1>0, <2>1, SMT DEF Row
  <2>. HIDE DEF r
  <2>4. ASSUME Here \notin overtaken
        PROVE  RowFits(Here, r)
    <3>1. /\ rw.version = "ready" /\ Whole(Here)
          /\ rw.status \in {"initializing", "waiting_environment"}
      BY <1>0, <2>1, <2>4 DEF WorkFits, StatusFits, Built, Ending, InHand
    <3>. QED  BY <2>3, <3>1 DEF RowFits, Prepared
  <2>5. \A job \in Execution : job.pc = "finish" => WorkFits(job, r)
    BY DEF WorkFits, StatusFits, Built, Ending, InHand
  <2>. QED  BY <2>1, <2>2, <2>3, <2>4, <2>5, WriteRowSound DEF WorkerControl
<1>8. CASE FinishJob
  <2>1. worker'.pc = "idle" /\ OnlyWorker
    BY <1>8 DEF FinishJob, NoJob
  <2>2. \A i \in DOMAIN queue' : Born(queue'[i].ws)
    BY <2>1 DEF SInv, BornInv, OnlyWorker
  <2>. QED  BY <2>1, <2>2, OnlyWorkerSound DEF OnlyWorker
<1>. QED  BY <1>1, <1>2, <1>3, <1>4, <1>5, <1>6, <1>7, <1>8 DEF WorkerStep

-----------------------------------------------------------------------------
(* A restart interrupts a clone only where a job had it in hand, and a     *)
(* removal only of a workspace that says deleting.                         *)
LEMMA RestartSound ==
    ASSUME SInv, IInv', Restart
    PROVE  Kept
<1>. DEFINE doomed == {w \in Workspaces : Status(w, {"deleting", "deletion_failed"})}
            R(w, deleted) ==
               IF w \in deleted THEN [NoRow EXCEPT !.status = "gone"]
               ELSE IF w \in doomed THEN [row[w] EXCEPT !.status = "deletion_failed"]
               ELSE RecoverInterruptedWork(w)
<1>1. PICK deleted \in SUBSET doomed, left \in [Workspaces -> Trees] :
         /\ \A w \in Workspaces : left[w] \in
               IF w \in deleted THEN {"none"}
               ELSE IF w \in doomed THEN
                       IF tree[w] = "none" THEN {"none"} ELSE {tree[w], "partial", "none"}
               ELSE Interrupted(w)
         /\ tree' = left
         /\ row' = [w \in Workspaces |-> R(w, deleted)]
         /\ queue' = <<>> /\ worker' = NoJob
         /\ request' = [q \in Requests |-> NoRequest]
         /\ UNCHANGED <<reusable, overtaken, contested>>
  BY DEF Restart
<1>2. ASSUME NEW w \in Workspaces
      PROVE  /\ w \in deleted => row'[w].status = "gone" /\ row'[w].archived = FALSE
             /\ w \in doomed \ deleted =>
                   row'[w].status = "deletion_failed" /\ row'[w].archived = row[w].archived
             /\ w \notin doomed =>
                   /\ row'[w].archived = row[w].archived
                   /\ \/ row'[w] = row[w]
                      \/ /\ row[w].status \in {"creating", "initializing", "waiting_environment"}
                         /\ row'[w].status = "initialization_failed"
  <2>1. row[w] \in Row
    BY DEF SInv, IInv, StoreInv
  <2>2. /\ [NoRow EXCEPT !.status = "gone"].status = "gone"
        /\ [NoRow EXCEPT !.status = "gone"].archived = FALSE
    BY SMT DEF NoRow
  <2>3. /\ [row[w] EXCEPT !.status = "deletion_failed"].status = "deletion_failed"
        /\ [row[w] EXCEPT !.status = "deletion_failed"].archived = row[w].archived
    BY <2>1, SMT DEF Row
  <2>4. LET failed == [row[w] EXCEPT !.status = "initialization_failed", !.stage = "failed"] IN
        failed.status = "initialization_failed" /\ failed.archived = row[w].archived
    BY <2>1, SMT DEF Row
  <2>5. row'[w] = R(w, deleted)
    BY <1>1
  <2>. QED  BY <2>2, <2>3, <2>4, <2>5 DEF RecoverInterruptedWork, RecoverMarked, Status
<1>. HIDE DEF R
<1>3. worker'.pc = "idle" /\ \A q \in Requests : request'[q] = NoRequest
  BY <1>1 DEF NoJob
<1>4. \A w \in Workspaces : w \in doomed <=> row[w].status \in {"deleting", "deletion_failed"}
  BY DEF Status
<1>5. deleted \subseteq doomed /\ UNCHANGED overtaken
  BY <1>1
<1>6. ASSUME NEW w \in Workspaces, w \notin doomed, tree'[w] # tree[w]
      PROVE  /\ Born(w)
             /\ w \notin overtaken => row[w].status = "initializing"
  <2>1. tree'[w] \in Interrupted(w)
    BY <1>1, <1>6
  <2>2. \/ worker.pc = "clone" /\ Here = w
        \/ \E q \in Requests : At(q, "remove") /\ Target(q) = w
    BY <1>6, <2>1 DEF Interrupted
  <2>3. CASE worker.pc = "clone" /\ Here = w
    <3>1. worker.kind = "prepare"
      BY <2>3, AtWork DEF BuildControl
    <3>. QED  BY <2>3, <3>1, AtWork DEF WorkFits, StatusFits, InHand
  <2>4. CASE \E q \in Requests : At(q, "remove") /\ Target(q) = w
    BY <1>4, <1>6, <2>4 DEF SInv, BornInv, At, Target, Sound, DeletionSound
  <2>. QED  BY <2>2, <2>3, <2>4
<1>7. BornInv'
  <2>1. (\A i \in DOMAIN queue : Born(queue[i].ws))'
    BY <1>1, EmptySeq
  <2>2. (\A q \in Requests : request[q].pc # "idle" => Born(request[q].ws))'
    BY <1>3 DEF NoRequest
  <2>3. ASSUME NEW w \in Workspaces
        PROVE  (row[w].archived => Exists(w))' /\ (Born(w) \/ tree[w] = "none")'
    <3>1. (row[w].archived => Exists(w)) /\ (Born(w) \/ tree[w] = "none")
      BY DEF SInv, BornInv
    <3>2. CASE w \in doomed
      BY <1>2, <1>5, <3>1, <3>2 DEF Born, Exists
    <3>3. CASE w \notin doomed
      BY <1>2, <1>6, <3>1, <3>3 DEF Born, Exists
    <3>. QED  BY <3>2, <3>3
  <2>. QED  BY <1>3, <2>1, <2>2, <2>3 DEF BornInv
<1>8. OneDeletion'
  BY <1>3 DEF OneDeletion, NoRequest, Deleting
<1>9. ASSUME NEW w \in Workspaces \ overtaken'
      PROVE  Sound(w)' /\ Steady(w)
  <2>1. Sound(w) /\ w \notin overtaken
    BY <1>5 DEF SInv
  <2>2. WorkSound(w)' /\ DeletionSound(w)'
    BY <1>3 DEF WorkSound, DeletionSound, NoRequest
  <2>3. CASE w \in deleted
    <3>1. tree'[w] = "none"
      BY <1>1, <2>3
    <3>2. row'[w].status = "gone" /\ row[w].status \in {"deleting", "deletion_failed"}
      BY <1>2, <1>4, <1>5, <2>3
    <3>. QED  BY <2>2, <3>1, <3>2 DEF Sound, RowSound, Steady, Prepared
  <2>4. CASE w \in doomed \ deleted
    <3>1. row'[w].status = "deletion_failed" /\ row[w].status \in {"deleting", "deletion_failed"}
      BY <1>2, <1>4, <2>4
    <3>. QED  BY <2>2, <3>1 DEF Sound, RowSound, Steady, Prepared, Exists
  <2>5. CASE w \notin doomed
    <3>1. row[w].status # "deleting"
      BY <1>4, <2>5
    <3>2. CASE row[w].status \in {"creating", "initializing", "waiting_environment"}
      BY <1>2, <2>1, <2>2, <2>5, <3>1, <3>2, <1>6
         DEF Sound, RowSound, Steady, Prepared, Exists
    <3>3. CASE row[w].status \notin {"creating", "initializing", "waiting_environment"}
      <4>1. row'[w] = row[w] /\ tree'[w] = tree[w]
        BY <1>2, <1>6, <2>1, <2>5, <3>3
      <4>. QED  BY <2>1, <2>2, <3>1, <4>1 DEF Sound, RowSound, Steady, Exists, Whole
    <3>. QED  BY <3>2, <3>3
  <2>. QED  BY <1>5, <2>3, <2>4, <2>5
<1>. QED  BY <1>7, <1>8, <1>9 DEF Kept, SInv

-----------------------------------------------------------------------------
(* Every step keeps what statuses promise.                                 *)
LEMMA SoundStep == SInv /\ [Next]_vars => Kept
<1>. SUFFICES ASSUME SInv, [Next]_vars PROVE Kept
  OBVIOUS
<1>0. IInv'
  BY Inductive DEF SInv
<1>1. CASE \E q \in Requests : Continues(q)
  BY <1>0, <1>1, ContinuesSound
<1>2. CASE \E q \in Requests, w \in Workspaces : Arrives(q, w)
  BY <1>0, <1>2, ArrivesSound
<1>3. CASE WorkerStep
  BY <1>0, <1>3, WorkerStepSound
<1>4. CASE Restart
  BY <1>0, <1>4, RestartSound
<1>5. CASE \E q \in Requests : Disconnect(q)
  BY <1>0, <1>5, MovesSound DEF Disconnect, At
<1>6. CASE UNCHANGED vars
  <2>1. UNCHANGED <<row, tree, queue, worker, request, overtaken, contested>>
    BY <1>6 DEF vars
  <2>2. \A i \in DOMAIN queue' : Born(queue'[i].ws)
    BY <2>1 DEF SInv, BornInv
  <2>3. worker.pc # "idle" => Born(worker.ws)
    BY DEF SInv, BornInv
  <2>4. worker.pc # "idle" /\ worker.ws \notin overtaken =>
           /\ WorkFits(worker, row[worker.ws])
           /\ worker.pc \in {"sealing", "complete"} => Whole(worker.ws)
    BY AtWork DEF Here
  <2>. QED  BY <1>0, <2>1, <2>2, <2>3, <2>4, OnlyWorkerSound
<1>. QED  BY <1>1, <1>2, <1>3, <1>4, <1>5, <1>6 DEF Next, Serving, Interrupting

(* At first nothing is there.                                              *)
LEMMA InitialSound == Init => SInv
<1>. SUFFICES ASSUME Init PROVE SInv
  OBVIOUS
<1>1. IInv
  BY Initial
<1>2. \A w \in Workspaces : row[w].status = "absent" /\ ~row[w].archived /\ tree[w] = "none"
  BY DEF Init, NoRow
<1>3. /\ worker.pc = "idle" /\ \A q \in Requests : request[q] = NoRequest
      /\ DOMAIN queue = {}
  <2>1. DOMAIN queue = {}
    BY EmptySeq, SMT DEF Init
  <2>. QED  BY <2>1 DEF Init, NoJob
<1>4. BornInv
  BY <1>2, <1>3 DEF BornInv, Born, NoRequest
<1>5. OneDeletion
  BY <1>3 DEF OneDeletion, NoRequest, Deleting
<1>6. ASSUME NEW w \in Workspaces
      PROVE  Sound(w)
  BY <1>2, <1>3 DEF Sound, WorkSound, RowSound, DeletionSound, NoRequest, Prepared
<1>. QED  BY <1>1, <1>4, <1>5, <1>6 DEF SInv

(* What statuses promise holds for ever.                                   *)
THEOREM SoundInvariant == Spec => []SInv
<1>1. SInv /\ [Next]_vars => SInv'
  BY SoundStep DEF Kept
<1>. QED  BY InitialSound, <1>1, PTL DEF Spec

(* For any number of workspaces and requests, a workspace that says ready  *)
(* or stopped and that nothing overtook has a clone that is whole and an   *)
(* environment version that is ready: nothing a job, a request, a failure  *)
(* or a restart does in between takes one of them away                     *)
(* (preparation.go:276-295, service.go:113-138).                           *)
THEOREM ReadyPrepared == Spec => []ReadyIsPrepared
<1>1. SInv => ReadyIsPrepared
  BY DEF SInv, Sound, RowSound, ReadyIsPrepared, Status, Prepared
<1>. QED  BY <1>1, SoundInvariant, PTL

(* No job that comes late takes a prepared workspace anywhere but into     *)
(* deletion, as long as no request overtook it: none wrote its row after   *)
(* it ceased to allow the request, and no deletion of it began under an    *)
(* active job (job_worker.go:17-37, preparation.go:25).                    *)
THEOREM PreparedStaysPrepared == Spec => PreparedStays
<1>1. SInv /\ [Next]_vars =>
         [\A w \in Workspaces :
             Status(w, {"ready", "stopped"}) /\ w \notin overtaken' =>
                 row'[w].status \in {"ready", "stopped", "deleting"}]_vars
  BY SoundStep DEF Kept, Steady, Prepared, Status
<1>. QED  BY <1>1, SoundInvariant, PTL DEF Spec, PreparedStays

-----------------------------------------------------------------------------
(* Deletion, and the directory of a workspace that is gone, with whatever  *)
(* requests overtake it: what a job may still do then.                     *)

(* A job that has not begun, is done, or builds for nobody that waits: it  *)
(* leaves the status and the directory of its workspace alone.             *)
Quiet(job) ==
    \/ job.pc \in {"idle", "open", "finish"}
    \/ job.kind = "build" /\ job.pc = "setup" /\ ~job.waiting

Leaving(w) == Status(w, {"deleting", "gone"}) \/ BeingErased(w)

Erasing(w) == \E q \in Requests : request[q].ws = w /\ request[q].pc = "erase"

Cleared(w) ==
    /\ Leaving(w) /\ worker.ws = w => Quiet(worker)
    /\ BeingErased(w) => Status(w, {"deleting", "ready", "stopped"})
    /\ Erasing(w) => tree[w] = "none"
    /\ Exists(w) \/ tree[w] = "none"

CInv == SInv /\ \A w \in Workspaces \ contested : Cleared(w)

(* What a step leaves of a deletion under way.                             *)
Final(w) ==
    Status(w, {"deleting"}) =>
        \/ row'[w].status \in {"deleting", "deletion_failed", "gone"}
        \/ \E q \in Requests : Target(q) = w /\ HadRead(q)

(* What is to be shown of every step.                                      *)
Clears == \A w \in Workspaces \ contested' : Cleared(w)' /\ Final(w)

(* A workspace of which a step touches neither row nor directory.          *)
LEMMA UntouchedCleared ==
    ASSUME NEW w \in Workspaces, Cleared(w),
           row'[w].status = row[w].status, tree'[w] = tree[w],
           \A q \in Requests : request'[q].ws = w /\ request'[q].pc \in {"remove", "erase"} =>
                                  request'[q] = request[q],
           Leaving(w) /\ worker'.ws = w => Quiet(worker')
    PROVE  Cleared(w)' /\ Final(w)
<1>1. (BeingErased(w)' => BeingErased(w)) /\ (Erasing(w)' => Erasing(w))
  BY DEF BeingErased, Erasing, Target
<1>2. (Leaving(w)' => Leaving(w)) /\ (Exists(w)' <=> Exists(w))
  BY <1>1 DEF Leaving, Status, Exists
<1>3. Status(w, {"deleting", "ready", "stopped"})' <=> Status(w, {"deleting", "ready", "stopped"})
  BY DEF Status
<1>4. Cleared(w)'
  BY <1>1, <1>2, <1>3 DEF Cleared
<1>. QED  BY <1>4 DEF Final, Status

(* A row that is updated, where there is one.                              *)
LEMMA UpdateEffect ==
    ASSUME StoreInv, NEW w \in Workspaces, NEW r, Update(w, r)
    PROVE  /\ \A v \in Workspaces \ {w} : row'[v] = row[v]
           /\ Exists(w) => row'[w] = r
           /\ ~Exists(w) => row'[w] = row[w]
BY DEF StoreInv, Update

-----------------------------------------------------------------------------
(* A request that only moves itself.                                       *)
LEMMA OnlyRequestCleared ==
    ASSUME CInv, OnlyRequest, NEW q \in Requests,
           \A p \in Requests \ {q} : request'[p] = request[p],
           request'[q].pc \notin {"remove", "erase"}
    PROVE  Clears
<1>1. ASSUME NEW w \in Workspaces \ contested'
      PROVE  Cleared(w)' /\ Final(w)
  <2>1. Cleared(w)
    BY DEF CInv, OnlyRequest
  <2>2. \A p \in Requests : request'[p].ws = w /\ request'[p].pc \in {"remove", "erase"} =>
                               request'[p] = request[p]
    OBVIOUS
  <2>3. worker' = worker /\ row' = row /\ tree' = tree
    BY DEF OnlyRequest
  <2>4. Leaving(w) /\ worker'.ws = w => Quiet(worker')
    BY <2>1, <2>3 DEF Cleared
  <2>. QED  BY <2>1, <2>2, <2>3, <2>4, UntouchedCleared
<1>. QED  BY <1>1 DEF Clears

(* One that leaves what it is about alone, or is given up.                 *)
LEMMA MovesCleared ==
    ASSUME CInv, NEW q \in Requests, OnlyRequest,
           Answer(q) \/ \E l \in RequestControl \ Deleting : GoOn(q, l)
    PROVE  Clears
<1>1. RequestInv
  BY DEF CInv, SInv, IInv
<1>2. \A p \in Requests \ {q} : request'[p] = request[p]
  BY <1>1, GoOnMoves, AnswerEnds
<1>3. request'[q].pc \notin {"remove", "erase"}
  BY <1>1, GoOnMoves, AnswerEnds DEF NoRequest, Deleting
<1>. QED  BY <1>2, <1>3, OnlyRequestCleared

(* Requests that arrive.                                                   *)
LEMMA ArrivesCleared ==
    ASSUME CInv, NEW q \in Requests, NEW w \in Workspaces, Arrives(q, w)
    PROVE  Clears
<1>0. RequestInv /\ StoreInv
  BY DEF CInv, SInv, IInv
<1>1. ASSUME NEW l \in RequestControl \ {"remove", "erase"}, Start(q, w, l), OnlyRequest
      PROVE  Clears
  <2>1. /\ request'[q].pc = l
        /\ \A p \in Requests \ {q} : request'[p] = request[p]
    BY <1>0, <1>1, StartMoves
  <2>. QED  BY <1>1, <2>1, OnlyRequestCleared
<1>2. ASSUME NEW l \in RequestControl \ {"remove", "erase"}, Request(q, w, l)
      PROVE  Clears
  BY <1>1, <1>2 DEF Request
<1>3. CASE CreateWorkspace(q, w)
  <2>1. /\ request'[q].pc = "prepare" /\ request'[q].ws = w
        /\ \A p \in Requests \ {q} : request'[p] = request[p]
    BY <1>0, <1>3, StartMoves DEF CreateWorkspace, RequestControl
  <2>2. row[w].status = "absent" /\ UNCHANGED <<tree, worker, contested>>
    BY <1>3 DEF CreateWorkspace, Status, OnlyRow
  <2>3. row'[w].status = "creating" /\ \A v \in Workspaces \ {w} : row'[v] = row[v]
    BY <1>0, <1>3, SMT DEF CreateWorkspace, StoreInv, NoRow
  <2>4. ASSUME NEW v \in Workspaces \ contested'
        PROVE  Cleared(v)' /\ Final(v)
    <3>1. Cleared(v)
      BY <2>2 DEF CInv
    <3>2. CASE v # w
      <4>1. \A p \in Requests : request'[p].ws = v /\ request'[p].pc \in {"remove", "erase"} =>
                                   request'[p] = request[p]
        BY <2>1, <3>2
      <4>2. Leaving(v) /\ worker'.ws = v => Quiet(worker')
        BY <2>2, <3>1 DEF Cleared
      <4>3. row'[v].status = row[v].status /\ tree'[v] = tree[v]
        BY <2>2, <2>3, <3>2
      <4>. QED  BY <3>1, <4>1, <4>2, <4>3, UntouchedCleared
    <3>3. CASE v = w
      <4>1. \A p \in Requests : ~(request'[p].ws = v /\ request'[p].pc \in {"remove", "erase"})
        BY <2>1, <2>2, <3>3, SMT DEF CInv, SInv, BornInv, Born
      <4>2. ~BeingErased(v)' /\ ~Erasing(v)'
        BY <4>1 DEF BeingErased, Erasing, Target
      <4>3. ~Leaving(v)' /\ Exists(v)'
        BY <2>3, <3>3, <4>2 DEF Leaving, Status, Exists
      <4>4. Final(v)
        BY <2>2, <3>3 DEF Final, Status
      <4>. QED  BY <4>2, <4>3, <4>4 DEF Cleared
    <3>. QED  BY <3>2, <3>3
  <2>. QED  BY <2>4 DEF Clears
<1>4. CASE StartPreparation(q, w)
  BY <1>1, <1>4 DEF StartPreparation, RequestControl
<1>5. CASE RebuildEnvironment(q, w)
  BY <1>1, <1>5 DEF RebuildEnvironment, RequestControl
<1>6. CASE ConfigureProjectRoot(q, w)
  BY <1>2, <1>6 DEF ConfigureProjectRoot, RequestControl
<1>7. CASE Stop(q, w) \/ Resume(q, w)
  BY <1>2, <1>7 DEF Stop, Resume, RequestControl
<1>8. CASE Archive(q, w)
  BY <1>2, <1>8 DEF Archive, RequestControl
<1>9. CASE RestoreArchived(q, w)
  BY <1>2, <1>9 DEF RestoreArchived, RequestControl
<1>10. CASE Delete(q, w)
  BY <1>2, <1>10 DEF Delete, RequestControl, Deleting
<1>. QED  BY <1>3, <1>4, <1>5, <1>6, <1>7, <1>8, <1>9, <1>10 DEF Arrives

(* A request that inserts a job.                                           *)
LEMMA EnqueueCleared ==
    ASSUME CInv, NEW q \in Requests, Answer(q),
           UNCHANGED <<row, tree, worker, reusable, overtaken, contested>>
    PROVE  Clears
<1>1. /\ request'[q] = NoRequest
      /\ \A p \in Requests \ {q} : request'[p] = request[p]
  BY AnswerEnds DEF CInv, SInv, IInv
<1>2. ASSUME NEW w \in Workspaces \ contested'
      PROVE  Cleared(w)' /\ Final(w)
  <2>1. Cleared(w)
    BY DEF CInv
  <2>2. \A p \in Requests : request'[p].ws = w /\ request'[p].pc \in {"remove", "erase"} =>
                               request'[p] = request[p]
    BY <1>1, SMT DEF NoRequest
  <2>3. Leaving(w) /\ worker'.ws = w => Quiet(worker')
    BY <2>1 DEF Cleared
  <2>. QED  BY <2>1, <2>2, <2>3, UntouchedCleared
<1>. QED  BY <1>2 DEF Clears

(* No write of a request begins a deletion under a job, nor prepares under *)
(* a deletion a workspace that is not contested then.                      *)
LEMMA NotContested ==
    ASSUME CInv, NEW q \in Requests, request[q].pc # "idle", NEW r, NEW l, Write(q, r, l),
           Target(q) \notin contested'
    PROVE  /\ Cleared(Target(q)) /\ Target(q) \notin contested
           /\ At(q, "delete") => ~(worker.pc # "idle" /\ worker.ws = Target(q))
           /\ At(q, "select") => ~BeingErased(Target(q))
<1>1. contested' = contested \cup {w \in {Target(q)} : Contests(q)}
  BY DEF Write
<1>2. Target(q) \notin contested /\ ~Contests(q)
  BY <1>1
<1>3. Target(q) \in Workspaces
  BY DEF CInv, SInv, IInv, RequestInv, Target
<1>4. worker.kind \in Kinds
  BY SMT DEF CInv, SInv, IInv, WorkerInv, Execution
<1>5. At(q, "delete") => ~(worker.pc # "idle" /\ worker.ws = Target(q))
  BY <1>2, <1>4 DEF Contests, HasJob, HasActiveJob, Running
<1>. QED  BY <1>2, <1>3, <1>5 DEF Contests, CInv

(* A write of a request on its row.                                        *)
LEMMA WriteCleared ==
    ASSUME CInv, NEW q \in Requests, request[q].pc # "idle",
           NEW r, NEW s, r.status = s, NEW l \in RequestControl \ {"erase"}, Write(q, r, l),
           \/ s = row[Target(q)].status /\ l # "remove"
           \/ s \in {"ready", "stopped"} /\ l # "remove" /\ HadRead(q)
           \/ s = "creating" /\ At(q, "select") /\ l # "remove" /\ HadRead(q)
           \/ s = "deleting" /\ At(q, "delete")
    PROVE  Clears
<1>. DEFINE w == Target(q)
<1>1. w \in Workspaces /\ StoreInv /\ RequestInv
  BY DEF CInv, SInv, IInv, RequestInv, Target
<1>2. /\ \A v \in Workspaces \ {w} : row'[v] = row[v]
      /\ Exists(w) => row'[w] = r
      /\ ~Exists(w) => row'[w] = row[w]
  BY <1>1, UpdateEffect DEF Write
<1>3. /\ UNCHANGED <<tree, worker>> /\ contested \subseteq contested'
      /\ Answer(q) \/ (Exists(w) /\ GoOn(q, l))
  BY DEF Write
<1>4. \A p \in Requests \ {q} : request'[p] = request[p]
  BY <1>1, <1>3, GoOnMoves, AnswerEnds
<1>5. \/ request'[q] = NoRequest
      \/ Exists(w) /\ request'[q].pc = l /\ request'[q].ws = w
  BY <1>1, <1>3, GoOnMoves, AnswerEnds
<1>6. ASSUME NEW v \in Workspaces \ contested'
      PROVE  Cleared(v)' /\ Final(v)
  <2>1. Cleared(v)
    BY <1>3 DEF CInv
  <2>2. CASE v # w \/ ~Exists(w)
    <3>1. \A p \in Requests : request'[p].ws = v /\ request'[p].pc \in {"remove", "erase"} =>
                                 request'[p] = request[p]
      BY <1>4, <1>5, <2>2 DEF NoRequest
    <3>2. Leaving(v) /\ worker'.ws = v => Quiet(worker')
      BY <1>3, <2>1 DEF Cleared
    <3>3. row'[v].status = row[v].status /\ tree'[v] = tree[v]
      BY <1>2, <1>3, <2>2
    <3>. QED  BY <2>1, <3>1, <3>2, <3>3, UntouchedCleared
  <2>3. CASE v = w /\ Exists(w)
    <3>. DEFINE t == Target(q)
    <3>0. v = Target(q) /\ row'[v].status = s /\ worker' = worker /\ tree' = tree
      BY <1>2, <1>3, <2>3
    <3>. HIDE DEF w
    <3>1. /\ At(q, "delete") => ~(worker.pc # "idle" /\ worker.ws = v)
          /\ At(q, "select") => ~BeingErased(v)
      BY <3>0, NotContested
    <3>2. Erasing(v)' => Erasing(v)
      <4>. SUFFICES ASSUME NEW p \in Requests, request'[p].ws = v, request'[p].pc = "erase"
                    PROVE  request[p].ws = v /\ request[p].pc = "erase"
        BY DEF Erasing
      <4>. QED  BY <1>4, <1>5 DEF NoRequest
    <3>3. BeingErased(v)' => BeingErased(v) \/ l = "remove"
      <4>. SUFFICES ASSUME NEW p \in Requests, request'[p].ws = v,
                           request'[p].pc \in {"remove", "erase"}, l # "remove"
                    PROVE  request[p].ws = v /\ request[p].pc \in {"remove", "erase"}
        BY DEF BeingErased, Target
      <4>. QED  BY <1>4, <1>5 DEF NoRequest
    <3>4. Exists(v)' \/ tree'[v] = "none"
      BY <2>1, <3>0 DEF Cleared, Exists
    <3>5. BeingErased(v)' => row'[v].status \in {"deleting", "ready", "stopped"}
      BY <2>1, <3>0, <3>1, <3>3 DEF Cleared, Status
    <3>6. Leaving(v)' /\ worker'.ws = v => Quiet(worker')
      <4>1. CASE s = "deleting" /\ At(q, "delete")
        BY <3>0, <3>1, <4>1 DEF Quiet
      <4>2. CASE ~(s = "deleting" /\ At(q, "delete"))
        <5>1. Leaving(v)' => Leaving(v)
          BY <3>0, <3>1, <3>3, <4>2 DEF Leaving, Status
        <5>. QED  BY <2>1, <3>0, <5>1 DEF Cleared
      <4>. QED  BY <4>1, <4>2
    <3>7. Final(v)
      BY <3>0 DEF Final, Status
    <3>8. Erasing(v)' => tree'[v] = "none"
      BY <2>1, <3>0, <3>2 DEF Cleared
    <3>. QED  BY <3>4, <3>5, <3>6, <3>7, <3>8 DEF Cleared, Status
  <2>. QED  BY <2>2, <2>3
<1>. QED  BY <1>6 DEF Clears

(* A removal that passes, one that fails, and the row going.               *)
LEMMA DeletionCleared ==
    ASSUME CInv, NEW q \in Requests, RemoveFiles(q) \/ DeletionFails(q) \/ EraseRow(q)
    PROVE  Clears
<1>. DEFINE w == Target(q)
<1>1. w \in Workspaces /\ StoreInv /\ RequestInv
  BY DEF CInv, SInv, IInv, RequestInv, Target, RemoveFiles, DeletionFails, EraseRow, At
<1>2. request[q].pc \in {"remove", "erase"} /\ UNCHANGED <<worker, contested>>
  BY DEF RemoveFiles, DeletionFails, EraseRow, At
<1>3. \A p \in Requests \ {q} : request[p].pc \notin Deleting
  BY <1>2 DEF CInv, SInv, OneDeletion, Deleting
<1>4. \A p \in Requests \ {q} : request'[p] = request[p]
  <2>1. Answer(q) \/ GoOn(q, "erase")
    BY DEF RemoveFiles, DeletionFails, EraseRow
  <2>2. "erase" \in RequestControl
    BY DEF RequestControl, Deleting
  <2>. QED  BY <1>1, <2>1, <2>2, GoOnMoves, AnswerEnds
<1>5. \A v \in Workspaces \ {w} : row'[v] = row[v] /\ tree'[v] = tree[v]
  <2>1. CASE RemoveFiles(q)
    BY <1>1, <2>1 DEF RemoveFiles, StoreInv
  <2>2. CASE DeletionFails(q)
    <3>1. \A v \in Workspaces \ {w} : row'[v] = row[v]
      BY <1>1, <2>2, UpdateEffect DEF DeletionFails
    <3>2. PICK t : tree' = [tree EXCEPT ![w] = t]
      BY <2>2 DEF DeletionFails
    <3>3. \A v \in Workspaces \ {w} : tree'[v] = tree[v]
      BY <1>1, <3>2 DEF StoreInv
    <3>. QED  BY <3>1, <3>3
  <2>3. CASE EraseRow(q)
    BY <1>1, <2>3 DEF EraseRow, StoreInv
  <2>. QED  BY <2>1, <2>2, <2>3
<1>6. ASSUME NEW v \in Workspaces \ contested', v # w
      PROVE  Cleared(v)' /\ Final(v)
  <2>1. Cleared(v)
    BY <1>2 DEF CInv
  <2>2. \A p \in Requests : request'[p].ws = v /\ request'[p].pc \in {"remove", "erase"} =>
                               request'[p] = request[p]
    <3>1. request'[q] = NoRequest \/ request'[q].ws = w
      <4>1. Answer(q) \/ GoOn(q, "erase")
        BY DEF RemoveFiles, DeletionFails, EraseRow
      <4>2. "erase" \in RequestControl
        BY DEF RequestControl, Deleting
      <4>. QED  BY <1>1, <4>1, <4>2, GoOnMoves, AnswerEnds
    <3>. QED  BY <1>4, <1>6, <3>1 DEF NoRequest
  <2>3. Leaving(v) /\ worker'.ws = v => Quiet(worker')
    BY <1>2, <2>1 DEF Cleared
  <2>4. row'[v].status = row[v].status /\ tree'[v] = tree[v]
    BY <1>5, <1>6
  <2>. QED  BY <2>1, <2>2, <2>3, <2>4, UntouchedCleared
<1>7. ASSUME NEW v \in Workspaces \ contested', v = w
      PROVE  Cleared(v)' /\ Final(v)
  <2>1. Cleared(v)
    BY <1>2 DEF CInv
  <2>2. BeingErased(v)
    BY <1>2, <1>7 DEF BeingErased
  <2>3. worker'.ws = v => Quiet(worker')
    BY <1>2, <2>1, <2>2 DEF Cleared, Leaving
  <2>4. Status(v, {"deleting", "ready", "stopped"}) /\ Exists(v)
    BY <2>1, <2>2 DEF Cleared, Status, Exists
  <2>. HIDE DEF w
  <2>5. CASE RemoveFiles(q)
    <3>1. row' = row /\ tree'[v] = "none"
      BY <1>1, <1>7, <2>5 DEF RemoveFiles, StoreInv, w
    <3>. QED  BY <2>3, <2>4, <3>1 DEF Cleared, Final, Status
  <2>6. CASE DeletionFails(q) \/ EraseRow(q)
    <3>1. request'[q].pc = "idle"
      BY <1>1, <2>6, AnswerEnds DEF DeletionFails, EraseRow, NoRequest
    <3>2. ~BeingErased(v)' /\ ~Erasing(v)'
      BY <1>3, <1>4, <3>1 DEF BeingErased, Erasing, Deleting
    <3>3. CASE DeletionFails(q)
      <4>1. row'[v] = [row[v] EXCEPT !.status = "deletion_failed"]
        BY <1>1, <1>7, <2>4, <3>3, UpdateEffect DEF DeletionFails, w
      <4>2. row'[v].status = "deletion_failed"
        BY <1>1, <1>7, <4>1, SMT DEF StoreInv, Row
      <4>. QED  BY <3>2, <4>2 DEF Cleared, Final, Leaving, Status, Exists
    <3>4. CASE EraseRow(q)
      <4>1. row'[v] = [NoRow EXCEPT !.status = "gone"]
        BY <1>1, <1>7, <3>4 DEF EraseRow, StoreInv, w
      <4>2. row'[v].status = "gone"
        BY <4>1, SMT DEF NoRow
      <4>3. tree'[v] = "none"
        <5>1. Erasing(v)
          BY <1>7, <3>4 DEF EraseRow, At, Erasing, Target, w
        <5>. QED  BY <2>1, <3>4, <5>1 DEF EraseRow, Cleared
      <4>. QED  BY <2>3, <3>2, <4>2, <4>3 DEF Cleared, Final, Leaving, Status, Exists
    <3>. QED  BY <2>6, <3>3, <3>4
  <2>. QED  BY <2>5, <2>6
<1>. QED  BY <1>6, <1>7 DEF Clears

(* Requests that go on.                                                    *)
LEMMA ContinuesCleared ==
    ASSUME CInv, NEW q \in Requests, Continues(q)
    PROVE  Clears
<1>. DEFINE rw == row[Target(q)]
<1>1. CASE FindActive(q) \/ CheckStatus(q) \/ FindActiveBuild(q)
  BY <1>1, MovesCleared
     DEF FindActive, CheckStatus, FindActiveBuild, RequestControl, Deleting
<1>2. CASE EnqueuePreparation(q) \/ EnqueueBuild(q)
  BY <1>2, EnqueueCleared DEF EnqueuePreparation, EnqueueBuild
<1>3. ASSUME request[q].pc # "idle"
      PROVE  rw \in Row
  BY <1>3 DEF CInv, SInv, IInv, StoreInv, RequestInv, Target
<1>4. CASE MarkStopped(q) \/ MarkReady(q) \/ StopToArchive(q) \/ MarkDeleting(q)
  <2>1. PICK s, l : /\ Write(q, [rw EXCEPT !.status = s], l)
                    /\ \/ s \in {"ready", "stopped"} /\ l \in {"idle", "archive"} /\ HadRead(q)
                       \/ s = "deleting" /\ At(q, "delete") /\ l = "remove"
    BY <1>4 DEF MarkStopped, MarkReady, StopToArchive, MarkDeleting, HadRead
  <2>2. request[q].pc # "idle"
    BY <1>4 DEF MarkStopped, MarkReady, StopToArchive, MarkDeleting, At
  <2>3. [rw EXCEPT !.status = s].status = s
    BY <1>3, <2>2, SMT DEF Row
  <2>. DEFINE r == [rw EXCEPT !.status = s]
  <2>4. Write(q, r, l) /\ r.status = s
    BY <2>1, <2>3
  <2>. HIDE DEF r
  <2>. QED  BY <2>1, <2>2, <2>4, WriteCleared DEF RequestControl, Deleting
<1>5. CASE SetArchived(q) \/ ClearArchived(q)
  <2>1. PICK a : Write(q, [rw EXCEPT !.archived = a], "idle")
    BY <1>5 DEF SetArchived, ClearArchived
  <2>2. request[q].pc # "idle"
    BY <1>5 DEF SetArchived, ClearArchived, At
  <2>3. [rw EXCEPT !.archived = a].status = rw.status
    BY <1>3, <2>2, SMT DEF Row
  <2>. DEFINE r == [rw EXCEPT !.archived = a]
  <2>4. Write(q, r, "idle") /\ r.status = rw.status
    BY <2>1, <2>3
  <2>. HIDE DEF r
  <2>. QED  BY <2>2, <2>4, WriteCleared DEF RequestControl
<1>6. CASE SelectProjectRoot(q)
  <2>. DEFINE r == [rw EXCEPT !.status = "creating", !.stage = "pending", !.chosen = TRUE]
  <2>1. request[q].pc # "idle" /\ At(q, "select") /\ HadRead(q)
    BY <1>6 DEF SelectProjectRoot, At, HadRead
  <2>2. Write(q, r, "prepare")
    BY <1>6 DEF SelectProjectRoot
  <2>3. r.status = "creating"
    BY <1>3, <2>1, SMT DEF Row
  <2>. HIDE DEF r
  <2>. QED  BY <2>1, <2>2, <2>3, WriteCleared DEF RequestControl
<1>7. CASE RemoveFiles(q) \/ DeletionFails(q) \/ EraseRow(q)
  BY <1>7, DeletionCleared
<1>. QED  BY <1>1, <1>2, <1>4, <1>5, <1>6, <1>7 DEF Continues

-----------------------------------------------------------------------------
(* The worker.                                                             *)

(* What a step of the worker on its job may do.                            *)
WorkEffect ==
    /\ UNCHANGED <<request, contested>>
    /\ \A v \in Workspaces \ {Here} : row'[v] = row[v] /\ tree'[v] = tree[v]
    /\ ~Exists(Here) => row'[Here] = row[Here]
    /\ \/ row'[Here].status = row[Here].status
       \/ row'[Here].status \notin {"absent", "gone", "deleting"}
    /\ worker'.pc # "idle" => worker'.ws = Here
    /\ Quiet(worker) => /\ tree'[Here] = tree[Here]
                        /\ row'[Here].status = row[Here].status
                        /\ \/ Quiet(worker')
                           \/ Status(Here, {"creating", "initialization_failed",
                                            "waiting_environment"})

(* Such a step leaves deletions alone.                                     *)
LEMMA EffectCleared ==
    ASSUME CInv, worker.pc # "idle", WorkEffect
    PROVE  Clears
<1>1. Here \in Workspaces /\ Born(Here)
  BY DEF CInv, SInv, IInv, WorkerInv, BornInv, Here
<1>2. ASSUME NEW w \in Workspaces \ contested'
      PROVE  Cleared(w)' /\ Final(w)
  <2>1. Cleared(w)
    BY DEF CInv, WorkEffect
  <2>2. request' = request
    BY DEF WorkEffect
  <2>3. CASE w # Here
    <3>1. row'[w].status = row[w].status /\ tree'[w] = tree[w]
      BY <2>3 DEF WorkEffect
    <3>2. worker'.ws = w => Quiet(worker')
      BY <2>3 DEF WorkEffect, Quiet
    <3>. QED  BY <2>1, <2>2, <3>1, <3>2, UntouchedCleared
  <2>4. CASE w = Here /\ Leaving(w)
    <3>1. Quiet(worker)
      BY <2>1, <2>4 DEF Cleared, Here
    <3>2. ~Status(w, {"creating", "initialization_failed", "waiting_environment"})
      BY <2>1, <2>4 DEF Cleared, Leaving, Status
    <3>3. row'[w].status = row[w].status /\ tree'[w] = tree[w] /\ Quiet(worker')
      BY <2>4, <3>1, <3>2 DEF WorkEffect
    <3>. QED  BY <2>1, <2>2, <3>3, UntouchedCleared
  <2>5. CASE w = Here /\ ~Leaving(w)
    <3>1. row[w].status \notin {"absent", "gone", "deleting"}
      BY <1>1, <2>5 DEF Born, Leaving, Status
    <3>2. row'[w].status \notin {"absent", "gone", "deleting"}
      BY <2>5, <3>1 DEF WorkEffect
    <3>3. ~BeingErased(w)' /\ ~Erasing(w)'
      BY <2>2, <2>5 DEF Leaving, BeingErased, Erasing, Target
    <3>4. ~Leaving(w)' /\ Exists(w)' /\ Final(w)
      BY <3>1, <3>2, <3>3 DEF Leaving, Status, Exists, Final
    <3>. QED  BY <3>3, <3>4 DEF Cleared
  <2>. QED  BY <2>3, <2>4, <2>5
<1>. QED  BY <1>2 DEF Clears

(* The worker moves along, after a look at what it has to do.              *)
LEMMA MoveEffect ==
    ASSUME worker'.pc # "idle" => worker'.ws = worker.ws,
           UNCHANGED <<row, tree, request, contested>>,
           \/ ~Quiet(worker) \/ Quiet(worker')
           \/ Status(Here, {"creating", "initialization_failed", "waiting_environment"})
    PROVE  WorkEffect
BY DEF WorkEffect, Here

(* The worker proceeds.                                                    *)
LEMMA ProceedMovesOn ==
    ASSUME WorkerInv, NEW l, Proceed(l)
    PROVE  worker'.pc = l /\ worker'.ws = worker.ws /\ worker'.kind = worker.kind
BY SMT DEF WorkerInv, Execution, Proceed

(* A job that is at work writes the row of its workspace.                  *)
LEMMA RowEffect ==
    ASSUME StoreInv, Here \in Workspaces, ~Quiet(worker), worker'.ws = worker.ws,
           UNCHANGED <<tree, request, contested>>,
           NEW r, Update(Here, r),
           \/ r.status = row[Here].status
           \/ r.status \notin {"absent", "gone", "deleting"}
    PROVE  WorkEffect
<1>1. /\ \A v \in Workspaces \ {Here} : row'[v] = row[v]
      /\ Exists(Here) => row'[Here] = r
      /\ ~Exists(Here) => row'[Here] = row[Here]
  BY UpdateEffect
<1>. QED  BY <1>1 DEF WorkEffect, Here

(* A preparation, from where it stands in the hands of the worker.         *)
LEMMA PrepareEffect ==
    ASSUME CInv, Prepare
    PROVE  WorkEffect /\ worker.pc # "idle"
<1>. DEFINE rw == row[Here]
<1>1. worker.pc # "idle" /\ (worker.pc \in {"open", "setup"} => worker.kind = "prepare")
  <2>1. \/ worker.pc \in {"mark", "clone", "switch", "analyze", "find", "bind",
                          "wait", "enqueue", "check", "insert"} \cup StageWrites
        \/ worker.pc \in {"open", "setup"} /\ worker.kind = "prepare"
    BY DEF Prepare, On, OpenPreparation, MarkInitializing, EnterStage, CloneRepository,
           SwitchBranch, Analyze, FindVersion, BindVersion, WaitForBuild, RequestBuild,
           RequestBuildOnce, InsertBuild, SetUp
  <2>. QED  BY <2>1 DEF StageWrites
<1>. SUFFICES WorkEffect
  BY <1>1
<1>2. Here \in Workspaces /\ rw \in Row /\ StoreInv /\ WorkerInv
  BY <1>1 DEF CInv, SInv, IInv, StoreInv, WorkerInv, Here
<1>3. CASE OpenPreparation
  <2>1. UNCHANGED <<row, tree, request, contested>>
    BY <1>3 DEF OpenPreparation, OnlyWorker
  <2>2. CASE Proceed("finish")
    <3>1. worker'.pc = "finish" /\ worker'.ws = worker.ws
      BY <1>2, <2>2, ProceedMovesOn
    <3>. QED  BY <1>1, <2>1, <3>1, MoveEffect DEF Quiet
  <2>3. CASE ~Proceed("finish")
    <3>1. Status(Here, {"creating", "initialization_failed"})
      BY <1>3, <2>3 DEF OpenPreparation
    <3>2. worker' = [worker EXCEPT !.pc = "mark", !.chosen = row[Here].chosen]
      BY <1>3, <2>3 DEF OpenPreparation
    <3>3. worker'.ws = worker.ws
      BY <1>2, <3>2, SMT DEF WorkerInv, Execution
    <3>. QED  BY <1>1, <2>1, <3>1, <3>3, MoveEffect DEF Status
  <2>. QED  BY <2>2, <2>3
<1>4. CASE ~OpenPreparation
  <2>1. ~Quiet(worker)
    <3>1. worker.pc \notin {"open", "finish"} /\ (worker.pc = "setup" => worker.kind = "prepare")
      BY <1>1, <1>4 DEF Prepare, On, MarkInitializing, EnterStage, CloneRepository, StageWrites,
           SwitchBranch, Analyze, FindVersion, BindVersion, WaitForBuild, RequestBuild,
           RequestBuildOnce, InsertBuild, SetUp
    <3>. QED  BY <1>1, <3>1 DEF Quiet
  <2>2. ASSUME NEW l, Proceed(l), UNCHANGED <<row, tree, request, contested>>
        PROVE  WorkEffect
    BY <1>2, <2>1, <2>2, ProceedMovesOn, MoveEffect
  <2>3. ASSUME NEW l, Proceed(l), UNCHANGED <<tree, request, contested>>, NEW r, Update(Here, r),
               r.status = rw.status \/ r.status \notin {"absent", "gone", "deleting"}
        PROVE  WorkEffect
    BY <1>2, <2>1, <2>3, ProceedMovesOn, RowEffect
  <2>4. ASSUME NEW l, NEW r, WriteRow(r, l),
               r.status = rw.status \/ r.status \notin {"absent", "gone", "deleting"}
        PROVE  WorkEffect
    BY <2>3, <2>4 DEF WriteRow, RowByWorker
  <2>5. ASSUME Fail PROVE WorkEffect
    <3>1. [rw EXCEPT !.status = "initialization_failed", !.stage = "failed"].status
             = "initialization_failed"
      BY <1>2, SMT DEF Row
    <3>. QED  BY <2>3, <2>5, <3>1 DEF Fail, FailPreparation, RowByWorker
  <2>6. ASSUME NEW t, NEW l, tree' = [tree EXCEPT ![Here] = t], Proceed(l),
               UNCHANGED <<row, request, contested>>
        PROVE  WorkEffect
    <3>1. \A v \in Workspaces \ {Here} : tree'[v] = tree[v]
      BY <1>2, <2>6 DEF StoreInv
    <3>2. worker'.ws = Here
      BY <1>2, <2>6, ProceedMovesOn DEF Here
    <3>. QED  BY <2>1, <2>6, <3>1, <3>2 DEF WorkEffect
  <2>7. CASE MarkInitializing
    <3>1. [rw EXCEPT !.status = "initializing"].status = "initializing"
      BY <1>2, SMT DEF Row
    <3>. QED  BY <2>4, <2>7, <3>1 DEF MarkInitializing
  <2>8. CASE EnterStage
    <3>1. [rw EXCEPT !.stage = worker.pc].status = rw.status
      BY <1>2, SMT DEF Row
    <3>. QED  BY <2>4, <2>8, <3>1 DEF EnterStage
  <2>9. CASE CloneRepository
    BY <2>2, <2>5, <2>6, <2>9 DEF CloneRepository, OnlyWorker
  <2>10. CASE SwitchBranch
    BY <2>5, <2>6, <2>10 DEF SwitchBranch
  <2>11. CASE Analyze
    <3>1. [rw EXCEPT !.status = "needs_configuration", !.stage = "needs_configuration",
                     !.chosen = FALSE].status = "needs_configuration"
      BY <1>2, SMT DEF Row
    <3>. QED  BY <2>2, <2>4, <2>5, <2>11, <3>1 DEF Analyze, OnlyWorker
  <2>12. CASE FindVersion
    <3>1. PICK found : worker' = [worker EXCEPT !.pc = "bind", !.fresh = ~found]
      BY <2>12 DEF FindVersion
    <3>2. worker'.ws = worker.ws
      BY <1>2, <3>1, SMT DEF WorkerInv, Execution
    <3>. QED  BY <2>1, <2>12, <3>2, MoveEffect DEF FindVersion, OnlyWorker
  <2>13. CASE BindVersion
    <3>1. PICK v : WriteRow([rw EXCEPT !.version = v], "installing")
      BY <2>13 DEF BindVersion
    <3>2. [rw EXCEPT !.version = v].status = rw.status
      BY <1>2, SMT DEF Row
    <3>. QED  BY <2>4, <3>1, <3>2
  <2>14. CASE WaitForBuild
    <3>1. [rw EXCEPT !.status = "waiting_environment"].status = "waiting_environment"
      BY <1>2, SMT DEF Row
    <3>. QED  BY <2>4, <2>14, <3>1 DEF WaitForBuild
  <2>15. CASE RequestBuild
    <3>1. [rw EXCEPT !.status = "initialization_failed", !.stage = "failed",
                     !.version = "failed"].status = "initialization_failed"
      BY <1>2, SMT DEF Row
    <3>. QED  BY <2>2, <2>3, <2>15, <3>1 DEF RequestBuild, OnlyWorker, RowByWorker
  <2>16. CASE RequestBuildOnce
    BY <2>2, <2>16 DEF RequestBuildOnce, OnlyWorker
  <2>17. CASE InsertBuild
    BY <2>2, <2>17 DEF InsertBuild
  <2>18. CASE SetUp
    BY <2>2, <2>5, <2>18 DEF SetUp, OnlyWorker
  <2>. QED  BY <1>4, <2>7, <2>8, <2>9, <2>10, <2>11, <2>12, <2>13, <2>14, <2>15, <2>16, <2>17,
               <2>18 DEF Prepare
<1>. QED  BY <1>1, <1>3, <1>4

(* A build, and what it shares with the preparation.                       *)
LEMMA BuildEffect ==
    ASSUME CInv, OpenBuild \/ Build \/ BuildFails \/ Verify \/ CompletePreparation
    PROVE  WorkEffect /\ worker.pc # "idle"
<1>. DEFINE rw == row[Here]
<1>1. worker.pc # "idle"
  BY DEF OpenBuild, Build, BuildFails, Verify, CompletePreparation, On
<1>. SUFFICES WorkEffect
  BY <1>1
<1>2. Here \in Workspaces /\ rw \in Row /\ StoreInv /\ WorkerInv
  BY <1>1 DEF CInv, SInv, IInv, StoreInv, WorkerInv, Here
<1>3. ASSUME NEW l, Proceed(l), UNCHANGED <<row, tree, request, contested>>,
             l = "finish" \/ ~Quiet(worker)
      PROVE  WorkEffect
  BY <1>2, <1>3, ProceedMovesOn, MoveEffect DEF Quiet
<1>4. ASSUME ~Quiet(worker), NEW l, Proceed(l), UNCHANGED <<tree, request, contested>>,
             NEW r, Update(Here, r),
             r.status = rw.status \/ r.status \notin {"absent", "gone", "deleting"}
      PROVE  WorkEffect
  BY <1>2, <1>4, ProceedMovesOn, RowEffect
<1>5. ASSUME Proceed("finish"), UNCHANGED <<tree, request, contested>>,
             NEW r, Update(Here, r), r.status = rw.status
      PROVE  WorkEffect
  <2>1. /\ \A v \in Workspaces \ {Here} : row'[v] = row[v]
        /\ row'[Here].status = rw.status
        /\ ~Exists(Here) => row'[Here] = rw
    BY <1>2, <1>5, UpdateEffect
  <2>2. Quiet(worker') /\ worker'.ws = Here
    BY <1>2, <1>5, ProceedMovesOn DEF Quiet, Here
  <2>. QED  BY <1>5, <2>1, <2>2 DEF WorkEffect
<1>6. CASE OpenBuild
  <2>1. CASE Buildable(Here)
    <3>1. worker' = [worker EXCEPT !.pc = "setup",
                                   !.waiting = Status(Here, {"waiting_environment"})]
      BY <1>6, <2>1 DEF OpenBuild
    <3>2. Status(Here, {"waiting_environment"}) \in BOOLEAN
      BY DEF Status
    <3>3. /\ worker'.ws = worker.ws /\ worker'.pc = "setup" /\ worker'.kind = worker.kind
          /\ worker'.waiting <=> Status(Here, {"waiting_environment"})
      <4>. DEFINE b == Status(Here, {"waiting_environment"})
      <4>1. worker' = [worker EXCEPT !.pc = "setup", !.waiting = b] /\ b \in BOOLEAN
        BY <3>1, <3>2
      <4>. HIDE DEF b
      <4>2. worker'.ws = worker.ws /\ worker'.pc = "setup" /\ worker'.kind = worker.kind
        BY <1>2, <4>1, SMT DEF WorkerInv, Execution
      <4>3. worker'.waiting = b
        BY <1>2, <4>1, SMT DEF WorkerInv, Execution
      <4>. QED  BY <4>2, <4>3 DEF b
    <3>4. Quiet(worker') \/ Status(Here, {"creating", "initialization_failed",
                                          "waiting_environment"})
      BY <1>6, <3>3 DEF OpenBuild, On, Quiet, Status
    <3>. QED  BY <1>6, <3>3, <3>4, MoveEffect DEF OpenBuild, OnlyWorker
  <2>2. CASE ~Buildable(Here)
    BY <1>3, <1>6, <2>2 DEF OpenBuild, OnlyWorker
  <2>. QED  BY <2>1, <2>2
<1>7. CASE Build
  <2>. DEFINE r == [rw EXCEPT !.version = "ready"]
  <2>1. r.status = rw.status
    BY <1>2, SMT DEF Row
  <2>2. Update(Here, r) /\ UNCHANGED <<tree, request, contested>>
    BY <1>7 DEF Build
  <2>. HIDE DEF r
  <2>3. CASE worker.waiting
    <3>1. ~Quiet(worker) /\ Proceed("verifying")
      BY <1>7, <2>3 DEF Build, On, Quiet
    <3>. QED  BY <1>4, <2>1, <2>2, <3>1
  <2>4. CASE ~worker.waiting
    <3>1. Proceed("finish")
      BY <1>7, <2>4 DEF Build
    <3>. QED  BY <1>5, <2>1, <2>2, <3>1
  <2>. QED  BY <2>3, <2>4
<1>8. CASE BuildFails
  <2>1. CASE Proceed("finish") /\ OnlyWorker
    BY <1>3, <2>1 DEF OnlyWorker
  <2>2. CASE ~(Proceed("finish") /\ OnlyWorker)
    <3>. DEFINE s == IF worker.waiting THEN "initialization_failed" ELSE rw.status
                t == IF worker.waiting THEN "failed" ELSE rw.stage
                r == [rw EXCEPT !.version = "failed", !.status = s, !.stage = t]
    <3>0. [rw EXCEPT !.version = "failed",
               !.status = IF worker.waiting THEN "initialization_failed" ELSE @,
               !.stage = IF worker.waiting THEN "failed" ELSE @] = r
      BY <1>2, SMT DEF Row
    <3>1. Update(Here, r) /\ Proceed("finish") /\ UNCHANGED <<tree, request, contested>>
      BY <1>8, <2>2, <3>0 DEF BuildFails, RowByWorker
    <3>2. r.status = s
      BY <1>2, SMT DEF Row
    <3>. HIDE DEF r
    <3>3. CASE worker.waiting
      <4>1. ~Quiet(worker)
        BY <1>8, <3>3 DEF BuildFails, On, Quiet
      <4>. QED  BY <1>4, <3>1, <3>2, <3>3, <4>1
    <3>4. CASE ~worker.waiting
      BY <1>5, <3>1, <3>2, <3>4
    <3>. QED  BY <3>3, <3>4
  <2>. QED  BY <2>1, <2>2
<1>9. CASE Verify
  <2>1. ~Quiet(worker)
    BY <1>9 DEF Verify, Quiet
  <2>2. [rw EXCEPT !.status = "initialization_failed", !.stage = "failed"].status
           = "initialization_failed"
    BY <1>2, SMT DEF Row
  <2>. QED  BY <1>3, <1>4, <1>9, <2>1, <2>2
            DEF Verify, OnlyWorker, Fail, FailPreparation, RowByWorker
<1>10. CASE CompletePreparation
  <2>1. ~Quiet(worker)
    BY <1>10 DEF CompletePreparation, Quiet
  <2>2. [rw EXCEPT !.status = "ready", !.stage = "ready"].status = "ready"
    BY <1>2, SMT DEF Row
  <2>. QED  BY <1>4, <1>10, <2>1, <2>2 DEF CompletePreparation, WriteRow, RowByWorker
<1>. QED  BY <1>1, <1>6, <1>7, <1>8, <1>9, <1>10

(* A job that begins or ends.                                              *)
LEMMA TurnCleared ==
    ASSUME CInv, ClaimNextJob \/ FinishJob
    PROVE  Clears
<1>1. Quiet(worker') /\ UNCHANGED <<row, tree, request, contested>>
  <2>1. CASE ClaimNextJob
    <3>1. worker'.pc = "open"
      <4>. DEFINE h == Head(queue)
      <4>1. h \in Jobs
        BY <2>1, HeadTailProperties, SMT DEF CInv, SInv, IInv, StoreInv, ClaimNextJob
      <4>2. worker' = [NoJob EXCEPT !.pc = "open", !.ws = h.ws, !.kind = h.kind]
        BY <2>1 DEF ClaimNextJob
      <4>. HIDE DEF h
      <4>3. h.ws \in Workspaces /\ h.kind \in Kinds
        BY <4>1, SMT DEF Jobs
      <4>. QED  BY <4>2, <4>3, NewJob
    <3>. QED  BY <2>1, <3>1 DEF ClaimNextJob, Quiet
  <2>2. CASE FinishJob
    BY <2>2 DEF FinishJob, OnlyWorker, Quiet, NoJob
  <2>. QED  BY <2>1, <2>2
<1>2. ASSUME NEW w \in Workspaces \ contested'
      PROVE  Cleared(w)' /\ Final(w)
  <2>1. Cleared(w)
    BY <1>1 DEF CInv
  <2>. QED  BY <1>1, <2>1, UntouchedCleared
<1>. QED  BY <1>2 DEF Clears

-----------------------------------------------------------------------------
(* A restart, which gives up every request and every job.                  *)
LEMMA RestartCleared ==
    ASSUME CInv, Restart
    PROVE  Clears
<1>. DEFINE doomed == {w \in Workspaces : Status(w, {"deleting", "deletion_failed"})}
            R(w, deleted) ==
               IF w \in deleted THEN [NoRow EXCEPT !.status = "gone"]
               ELSE IF w \in doomed THEN [row[w] EXCEPT !.status = "deletion_failed"]
               ELSE RecoverInterruptedWork(w)
<1>1. PICK deleted \in SUBSET doomed, left \in [Workspaces -> Trees] :
         /\ \A w \in Workspaces : left[w] \in
               IF w \in deleted THEN {"none"}
               ELSE IF w \in doomed THEN
                       IF tree[w] = "none" THEN {"none"} ELSE {tree[w], "partial", "none"}
               ELSE Interrupted(w)
         /\ tree' = left
         /\ row' = [w \in Workspaces |-> R(w, deleted)]
         /\ queue' = <<>> /\ worker' = NoJob
         /\ request' = [q \in Requests |-> NoRequest]
         /\ UNCHANGED <<reusable, overtaken, contested>>
  BY DEF Restart
<1>2. Quiet(worker') /\ \A q \in Requests : request'[q].pc = "idle"
  BY <1>1 DEF NoJob, NoRequest, Quiet
<1>3. ASSUME NEW w \in Workspaces \ contested'
      PROVE  Cleared(w)' /\ Final(w)
  <2>1. Cleared(w) /\ row[w] \in Row
    BY <1>1 DEF CInv, SInv, IInv, StoreInv
  <2>2. row'[w] = R(w, deleted)
    BY <1>1
  <2>3. ~BeingErased(w)' /\ ~Erasing(w)'
    BY <1>2 DEF BeingErased, Erasing
  <2>4. CASE w \in deleted
    <3>1. row'[w].status = "gone" /\ tree'[w] = "none"
      <4>1. [NoRow EXCEPT !.status = "gone"].status = "gone"
        BY SMT DEF NoRow
      <4>. QED  BY <1>1, <2>2, <2>4, <4>1
    <3>. QED  BY <1>2, <2>3, <3>1 DEF Cleared, Final
  <2>5. CASE w \in doomed \ deleted
    <3>1. row'[w].status = "deletion_failed"
      <4>1. [row[w] EXCEPT !.status = "deletion_failed"].status = "deletion_failed"
        BY <2>1, SMT DEF Row
      <4>. QED  BY <2>2, <2>5, <4>1
    <3>. QED  BY <1>2, <2>3, <3>1 DEF Cleared, Final, Exists
  <2>6. CASE w \notin doomed
    <3>1. row'[w] = RecoverInterruptedWork(w) /\ row[w].status # "deleting"
      BY <1>1, <2>2, <2>6 DEF Status
    <3>2. CASE Exists(w)
      <4>1. [row[w] EXCEPT !.status = "initialization_failed", !.stage = "failed"].status
               = "initialization_failed"
        BY <2>1, SMT DEF Row
      <4>2. Exists(w)'
        BY <3>1, <3>2, <4>1 DEF RecoverInterruptedWork, RecoverMarked, Status, Exists
      <4>. QED  BY <1>2, <2>3, <3>1, <4>2 DEF Cleared, Final, Status
    <3>3. CASE ~Exists(w)
      <4>1. tree[w] = "none" /\ tree'[w] \in Interrupted(w)
        BY <1>1, <2>1, <2>6, <3>3 DEF Cleared
      <4>2. ~(worker.pc = "clone" /\ Here = w)
        <5>1. CASE row[w].status = "absent"
          BY <5>1 DEF CInv, SInv, BornInv, Born, Here
        <5>2. CASE row[w].status = "gone"
          BY <2>1, <5>2 DEF Cleared, Leaving, Status, Quiet, Here
        <5>. QED  BY <3>3, <5>1, <5>2 DEF Exists
      <4>3. tree'[w] = "none"
        BY <4>1, <4>2 DEF Interrupted
      <4>. QED  BY <1>2, <2>3, <3>1, <4>3 DEF Cleared, Final, Status
    <3>. QED  BY <3>2, <3>3
  <2>. QED  BY <1>1, <2>4, <2>5, <2>6
<1>. QED  BY <1>3 DEF Clears

(* Every step leaves deletions alone that are not contested.               *)
LEMMA ClearedStep == CInv /\ [Next]_vars => CInv' /\ Clears
<1>. SUFFICES ASSUME CInv, [Next]_vars PROVE CInv' /\ Clears
  OBVIOUS
<1>1. SInv'
  BY SoundStep DEF CInv, Kept
<1>. SUFFICES Clears
  BY <1>1 DEF Clears, CInv
<1>2. CASE \E q \in Requests : Continues(q)
  BY <1>2, ContinuesCleared
<1>3. CASE \E q \in Requests, w \in Workspaces : Arrives(q, w)
  BY <1>3, ArrivesCleared
<1>4. CASE WorkerStep
  BY <1>4, PrepareEffect, BuildEffect, EffectCleared, TurnCleared DEF WorkerStep
<1>5. CASE Restart
  BY <1>5, RestartCleared
<1>6. CASE \E q \in Requests : Disconnect(q)
  BY <1>6, MovesCleared DEF Disconnect
<1>7. CASE UNCHANGED vars
  <2>1. UNCHANGED <<row, tree, worker, request, contested>>
    BY <1>7 DEF vars
  <2>2. ASSUME NEW w \in Workspaces \ contested'
        PROVE  Cleared(w)' /\ Final(w)
    <3>1. Cleared(w)
      BY <2>1 DEF CInv
    <3>2. Leaving(w) /\ worker'.ws = w => Quiet(worker')
      BY <2>1, <3>1 DEF Cleared
    <3>. QED  BY <2>1, <3>1, <3>2, UntouchedCleared
  <2>. QED  BY <2>2 DEF Clears
<1>. QED  BY <1>2, <1>3, <1>4, <1>5, <1>6, <1>7 DEF Next, Serving, Interrupting

(* At first nothing is there.                                              *)
LEMMA InitialCleared == Init => CInv
<1>. SUFFICES ASSUME Init PROVE CInv
  OBVIOUS
<1>1. SInv
  BY InitialSound
<1>2. ASSUME NEW w \in Workspaces
      PROVE  Cleared(w)
  <2>1. ~BeingErased(w) /\ ~Erasing(w)
    BY DEF Init, NoRequest, BeingErased, Erasing
  <2>. QED  BY <2>1 DEF Init, Cleared, NoJob, Quiet
<1>. QED  BY <1>1, <1>2 DEF CInv

(* What a job may do to a workspace that is being deleted holds for ever.  *)
THEOREM ClearedInvariant == Spec => []CInv
BY InitialCleared, ClearedStep, PTL DEF Spec

(* For any number of workspaces and requests, a workspace that is gone     *)
(* took its directory with it, however often the removal fails, whatever   *)
(* requests write meanwhile and wherever the process dies, unless it is    *)
(* contested: its deletion began under an active job, or a project root    *)
(* was chosen for it while its files were removed (deletion.go:42-61).     *)
THEOREM NoTreeOrphaned == Spec => []NoOrphanTree
<1>1. CInv => NoOrphanTree
  BY DEF CInv, Cleared, NoOrphanTree
<1>. QED  BY <1>1, ClearedInvariant, PTL

(* From deleting a workspace that is not contested goes only to gone or    *)
(* failed to delete, but for the one write of a stop, resume, archive or   *)
(* choice of a project root that had read its row before: no job, no       *)
(* failure, no restart and no later request takes it out                   *)
(* (deletion.go:32-61, service.go:89-138).                                 *)
THEOREM QuietDeletionFinal == Spec => QuietDeletionIsFinal
<1>1. CInv /\ [Next]_vars =>
         [\A w \in Workspaces :
             Status(w, {"deleting"}) /\ w \notin contested' =>
                 \/ row'[w].status \in {"deleting", "deletion_failed", "gone"}
                 \/ \E q \in Requests : Target(q) = w /\ HadRead(q)]_vars
  BY ClearedStep DEF Clears, Final
<1>. QED  BY <1>1, ClearedInvariant, PTL DEF Spec, QuietDeletionIsFinal
=============================================================================
