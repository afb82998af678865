# Perpetual: specification and verification

Perpetual is a web application for coding agents. A Go controller keeps
workspaces (a cloned repository with its environment), chat sessions and
execution rooms in a database (SQLite by default, Postgres optionally), runs
background jobs that prepare workspaces, runs a worker that executes rooms
(model call, shell commands, model call, ...) and serves a React front end.
This directory holds TLA+ modules of its core, on the controller and in the
browser, TLC configurations that check them on small instances, and proofs that
TLAPS checks.

Paths below are relative to `src/internal/` unless they say otherwise; those
that begin with `web/` are relative to `src/`, and those of the tables marked
*browser* to `src/web/src/`.

## 1. Inventory

| component | state | operations | what makes it correct |
|---|---|---|---|
| execution rooms (`workspace/runs.go`, `run_worker.go`) | `agent_runs` (state, lease, owner), `agent_run_steps` (journal), `agent_work_memory` | enqueue, claim within limits, heartbeat, complete, fail, cancel, pause, continue, sweep of expired leases, append a step, save the memory | slots are never exceeded, one worker per room, the journal is a prefix of the loop, every waiting room ends |
| execution loop (`execution/loop.go`, `provider.go`) | locals of `execute`: done map, step, memory version | claim, resume, model turn, shell calls, record, heartbeat, end | replay repeats nothing and loses nothing; a revoked worker stops; each outcome is recorded |
| room handlers (`webapp/run_handlers.go`) | none | start, stop, pause, continue, list | what they publish is what the row says |
| context and compaction (`execution/context.go`, `compaction.go`, `estimate.go`) | none | assemble a prompt, cut old steps, summarise | the cut keeps the newest steps within the budget and loses none |
| workspace lifecycle (`workspace/store.go`, `readiness.go`, `preparation.go`, `service.go`, `deletion.go`, `archive.go`, `recovery.go`) | `workspaces`: status, preparation stage, runtime state, archived, selected root, bound environment version | create, prepare, select project, build environment, stop, resume, archive, restore, delete, recover at startup | a status says what is true of files and runtime; a deleted or archived workspace is not revived; none is stuck |
| background jobs (`workspace/jobs.go`, `job_worker.go`) | `workspace_jobs` (state, attempts, lease) | enqueue unless active, claim, execute, finish, recover | at most one active job of a kind per workspace; a job ends in the state its work ended in |
| sessions and messages (`workspace/sessions.go`, `messages.go`) | `sessions`, `messages` | create, rename, title, delete, append | a workspace keeps at least one session; a working session is not deleted |
| environment versions (`workspace/environment_version.go`, `snapshot.go`, `profile_store.go`) | `project_environments`, `environment_versions`, snapshot directories | find or create, number, bind, set state, capture, restore | one number per version; a version is reused only when ready |
| Lambda runtime (`lambdaruntime`, `environments/manager.go`) | `runtime_instances`, token cache, machines at the provider | start, suspend, resume, terminate, reconcile, token | no machine runs without a record; a cached token is usable |
| event broker (`webapp/events.go`) | one channel with one slot per connected browser | subscribe, publish (the newest notice stays), stream | a browser that has taken every notice has no reason to be behind |
| accounts (`accounts`) | `users`, `auth_sessions`, sealed GitHub credentials | sign in, look up, revoke, clean up | a revoked or expired session never authenticates |
| HTTP server and startup (`webapp/server.go`, `run.go`, `handlers.go`) | the process | route, start workers, shut down | recovery runs before anything is served |
| shell and redaction (`exec`) | a child process | run with a bounded buffer, redact | bounded output keeps head and tail |
| VM agent (`vmagent`), GitHub client (`githubapp`), model providers (`model`), AWS and S3 clients (`environments`) | none that outlives a call | request and response | outside the controller |
| database and migrations (`database`, `workspace/migration*.go`) | schema version | open, migrate | a migration that is interrupted can be run again |

The browser (React; each component keeps its own copy of what it last read):

| component (*browser*) | state | operations | what makes it correct |
|---|---|---|---|
| workspace list (`app/useWorkspaceController.ts`, `workspaces/WorkspaceIndex.tsx`, `WorkspaceOverview.tsx`, `WorkspaceReadiness.tsx`) | two lists, first load, error, poll timer, deletion lock | load, poll while something is prepared, the eight actions with the refresh after each | one deletion at a time and no lock left behind; a preparation on the page is followed to its end; what is offered is accepted |
| conversation page (`app/WorkspaceApplication.tsx`, `hooks/useWorkspaceDetail.ts`, `useServerEvents.ts`) | route, sessions per workspace, selection, messages, refresh in progress and pending | select, read, refresh on a notice, create a first session | the messages are those of the selected conversation, none disappears, at rest none is missing |
| run timeline (`run/RunTimeline.tsx`, `useRunEvents.ts`) | rooms, active room, its steps, the button pressed | load on a notice, stop, pause, continue | at rest the rooms as they are |
| chat pane (`chat/ChatPane.tsx`, `AgentActivity.tsx`, `useConversationContexts.ts`, `ComposerContextControl.tsx`) | past conversations, cut index, draft, task mode, tray | feed, send, start fresh, view history, compact | nothing said is hidden or shown twice; each result stands under its call |
| tasks (`workspaces/WorkspaceTasksPanel.tsx`) | tasks per workspace, editor | create, edit, delete | a task stays in its workspace |
| environment panel (`inspector/EnvironmentPanel.tsx`) | variables, form, loads | save, replace, delete, reload | at rest the variables of the workspace shown |
| creation form (`workspaces/WorkspaceHome.tsx`, `ExistingProjectForm.tsx`, `NewProjectForm.tsx`, `RepositoryPicker.tsx`, `BranchSelection.tsx`) | repository, branches, choices, requests | choose, read branches, submit | branches offered are of the repository chosen |
| login, navigation, publish panel, change review, rendering (the rest of `web/src`) | their inputs | display | outside these modules |

**How they interact.** The handlers call the store directly (rooms, sessions)
or the workspace service (lifecycle). Nothing is shared in memory between
handlers, the job worker and the execution worker: they meet in the rows. On
SQLite the pool has one connection (`database/database.go:71`), so a
transaction excludes every other statement; on Postgres ten connections
interleave and only `FOR UPDATE SKIP LOCKED` orders claims. Handlers publish
notices to the event broker after they wrote; browsers reload what a notice
names, poll while a workspace is prepared, and otherwise read again after
their own actions. The execution worker runs inside the controller
(`webapp/run.go`, `startExecutionWorker`), one per process, with the limits
2 per user, 1 per workspace, 64 in all.

**What is hard.** Almost every operation is *read a row, decide, write without
a test of what was read*; between the two a user, a worker or a restart may
act. A room outlives the worker that gave it up, so replay has to agree with what
the journal holds. Quotas are counts taken before the claim. Nothing wakes a
waiter: everything polls. In the browser nothing waits for anything: requests
of one page overlap, their answers come in any order, and the page that asked
may have come to be about something else; some components test for that
(`selection.current`, a `current` flag per effect) and some do not. `PROJECT.json` lists each hazard at its line with the
properties that would catch it, or the reason none does yet.

## 2. Modules

| module | role |
|---|---|
| `RoomAdmission` | abstract specification: a room is out, waiting or active; it becomes active alone, from waiting, into a free slot of its workspace and of the system |
| `ExecutionRoom` | rooms, journal, work memory and workers, statement by statement |
| `WorkspaceLifecycle` | workspaces, their clones and versions, the job queue, the job worker and the requests, statement by statement |
| `WorkspaceListView` | the browser's lists of workspaces, its calls and lock, against the controller's guards |
| `ConversationView` | the conversation page: sessions, selection, messages, the refresh loop, the broker's slot |
| `RunTimelineView` | the run timeline, its overlapping loads and buttons, the rooms and notices it is about |
| `ChatPanel` | the chat pane: the feed as a fold over the messages, past conversations, composer, tray |
| `WorkspaceTasks`, `OverviewPage` | tasks and their editor; the environment panel (extends the tasks) |
| `CreationForm` | the form that creates a workspace |
| `WebPages` | composes `ChatPanel`, `OverviewPage` and `CreationForm`: the pages, the ways between them, what is lost and what stays |
| `MC...` | instances for TLC: which room belongs to which workspace and user, who gets a branch, which branches a repository has, symmetry |
| `RoomAdmissionProofs` | proofs about the abstract specification |
| `ExecutionRoomProofs` | type correctness and what ties a worker's locals together; journal, memory, revocation |
| `ExecutionRoomSafety` | exclusive claims, replay with many workers and with one, which commands are left out; `ExecutionRoom` implements `RoomAdmission` on the serialized store |
| `WorkspaceLifecycleProofs` | types of the lifecycle; who a workspace that says *initializing* is in the hands of; what a prepared and a deleted workspace stay |
| `WorkspaceListViewProofs` | types, deletion lock and poll of the workspace list, and what it offers |
| `ConversationViewProofs` | types of the conversation page; what it shows is the beginning of the conversation, only grows, and at rest is all of it |
| `RunTimelineViewProofs` | types of the run timeline; at rest it is current |
| `WebPagesProofs` | the pages together: types, conversation and past ones, the feed and its live activity, tasks, the branches of the form, the variables panel at rest |

### ExecutionRoom and the code

`state`, `created`, `lease` are columns of `agent_runs`; `memory` is the version
of `agent_work_memory`; `models[r]` is the set of k with a row `step-k`,
`shells[r][k]` the call whose output the row `shell-k` holds. `work[w]` holds
the locals of worker `w`: where it stands (`pc`), its room, `step`, `version`,
the `done` map, and how many shell calls the answer asked for and how many ran.
Five history variables record what the rows forget: rooms with a model turn
taken twice (`repeated`), shell calls asked of a worker and neither run nor
answered by a failure (`owed`), rooms with calls nobody will run or answer for
(`forsaken`), the steps begun when a room last left *running* (`frontier`),
rooms continued while a worker was still inside (`revived`).

One action is one database statement, or one transaction where the store is
serialized; what a worker computes in between belongs to the statement before
it. `ClaimSerialized` is the SQLite claim. `PickCandidate`, `CountRuns` and
`CommitClaim` are the Postgres claim: the candidate is locked, the counts are
not. `ModelStops`, `ModelAsks` and `ModelFails` are a model call with the row that records
it; an answer has any stop reason and, beside it, any number of calls of the
shell whose arguments parsed (`model/openai.go:126-133` fills them in whatever
the stop reason is and drops the others). `ModelStops` is the stop reason
*stop*, which ends the room without a look at the calls (`loop.go:156-158`).
`RunShell` and `RecordShell` are a command and its row, two steps since an
error or a stop may fall between. `Abandon` is every place where `execute`
returns an error without recording it: a failed statement, a context that
cannot be built, a failed compaction, and above all a `FailRun` that itself
fails. `Restart` is the end of the process and its next start: the migration
`migrateRemoveAgentRuns` runs on every start, whatever the schema version, and
drops `agent_runs`; SQLite, with foreign keys on (`database/database.go:74`),
empties the journal and the memory with it. On Postgres the two referring
tables make that statement, and the start, fail, so `Restart` is an action of
the serialized store only. `Locked` is the row lock of a Postgres claim, which
makes unconditional updates wait.

Abstractions: the compaction row is left out (only the prompt of a later call
reads it); the three counts of a claim are taken in one step; time is the order
of `created_at` and a lease that is live or expired; the text of messages,
commands and outputs is not there. Rooms deleted with their workspace (cascade)
are left out.

### WorkspaceLifecycle and the code

`row[w]` holds the columns of `workspaces` a decision reads: `status`,
`preparation_stage`, `archived_at`, whether a root is selected, and the state of
the bound environment version (a version is bound to one workspace until it is
ready, so its state can stand in the row). `tree[w]` is what is in the managed
directory: nothing, part of a clone, a clone on its base branch, a clone on its
working branch. `queue` and `worker` are the queued rows and the running row of
`workspace_jobs` with the locals of the code that executes it; `reusable` says
that the project has a ready version to find. `request[q]` is where an HTTP
request stands between two statements.

A request is two steps at least: the read with its guard (`Allowed`, the one
place where every guard is written), then the write, which tests nothing. In
between anything may happen. `StartPreparation` (`FindActive`, `CheckStatus`,
`EnqueuePreparation`) and `StartEnvironmentBuild` (`Buildable`,
`FindActiveBuild`, `EnqueueBuild`; in the worker `RequestBuild`,
`RequestBuildOnce`, `InsertBuild`) are three statements each. The job worker goes
through `Initialize` (`OpenPreparation` to `SetUp`) and
`executeEnvironmentBuild` (`OpenBuild`, `Build`, `BuildFails`), which share
`finalizePreparedWorkspace` (`EnterStage`, `Verify`, `CompletePreparation`).
`Disconnect` is a client that goes away: the context of the request ends, so its
next statement fails and so does the one that would record that. `Restart` ends
the process anywhere, leaves of an interrupted clone or removal what it may
leave, fails every job, marks interrupted preparations and deletes what was to
be deleted before anything is served (`migration.go:61-64`, `webapp/run.go:111`).

`overtaken` and `contested` are history variables. A workspace is *overtaken*
once a request wrote to it when what it had asked of the row did not hold any
more, or once its deletion began while a job was active: there the missing test
of the write mattered. It is *contested* once its deletion began while a job was
active, or a project root was chosen while its files were removed: there a job
may put back what the deletion takes away.

Abstractions: the `runtime_state` column, which none of these decisions reads; a
working session, which nothing in the code makes, so the test for one always
passes; the profile and the snapshots; a store whose statements fail only with
their context or their row; the local runtime, whose start, stop and destroy do
nothing; one controller on SQLite, so one job at a time. An external command
(clone, setup) is one step. A database that refuses a statement while the process
lives on is left out: `fail` itself would then fail, and `initializing` would
stay until the next start.

### The browser modules and the code

One action of a browser module is what JavaScript runs without a break: a
click, an answer with the continuation behind its `await`, a timer, a notice.
React renders and runs the effects of a change before the next of these, so
the effects are part of the action that caused them (`Render` in
`ConversationView`, `Rearm` in `WorkspaceListView`, `ShowWorkspace` in
`OverviewPage`). A request is three points in time: sent, answered by the
controller from the state it then has, taken by the page.

*WorkspaceListView.* `shown` and `shelved` are the states `workspaces` and
`archivedWorkspaces`, `calls` the requests under way in a bounded number of
slots; `deleteWorkspace` is the one with phases of its own (`request`,
`removing`, `fetch`, and `refetch` for the refresh in its `catch`). What a
page offers is three tables of statuses (`OnRow`, `OnMenu`, `OnReadiness`, and
`OnShelf` for archived ones), translated from the JSX conditions; what the
controller accepts is `Accepts`, from the guards of `Service`. Statuses move by
`NextStatuses`, the ones the jobs of `WorkspaceLifecycle` write. The first load
uses `Promise.allSettled` and keeps the half that came (`ApplyInitial`), every
later one `Promise.all`.

*ConversationView.* `selection`, `messages`, `loop` (`refreshBusy` with the
answers of a pass), `pending` (`refreshPending`) and `latest` (the last server
event) are the refs and states of `useWorkspaceDetail` and `useServerEvents`;
`slot` is the channel of the broker. `Selected` is the choice of the session,
`Reconcile` is `reconcileMessages`. The constant `Recorder` says whether the
controller writes into conversations: at this commit nothing outside tests
calls `Store.AppendMessage`, `UpdateSessionStatus` or `SessionChanged`, so
today's program is `Recorder = FALSE`, where messages never grow; the run takes
`TRUE`, which has the behaviours of both, since writing is never obliged.

*RunTimelineView.* `loads` are the calls of `load`, two requests each, and `act`
the one of `act` (`busy`). The rooms move as in `ExecutionRoom`; `completed`,
`failed` and `canceled` are one state *ended*. `tangled` and `owed` are history
variables: the parts of the page an answer out of turn is in, until one in turn
replaces it, and a change no notice will make the page read, until a list is
read.

*WebPages.* The feed of `ChatPanel` is the single pass of
`buildConversationFeed` as a fold; `NothingHidden` and `FeedOf` are the
reference definitions it is checked against. `TasksNext`, `PanelNext`,
`ChatNext` and `FormNext` are steps of one page each; the actions of `WebPages`
unmount one component and mount another (`ChatUnmounted`, `EditorUnmounted`,
`PanelUnmounted`, `FormUnmounted`), or change the workspace under one that stays
mounted (`ShowWorkspace`).

Abstractions of the browser: locks and a workspace that is not ready disable
buttons, which is a step not taken; message texts are reduced to roles, call
ids and order; the text of a task is chosen when it is saved; the variables
stored are forgotten while no panel shows them; `ChangedElsewhere` stands for
other browsers and for requests of panels that are gone; a conversation is
reached from another by way of another page or of a change of the sessions; the
two GETs of a refresh are answered together, since nothing relates the two
lists, and so are the two of `refreshRun`; a reload of the page, which starts
everything over, is not an action.

## 3. What TLC checks

Bounds are CONSTANTS: rooms, workers, `MaxSteps` (max_steps of the room) and
`MaxCalls` (shell calls of one answer). Two steps are needed to have a step
before and one after an interruption, two calls to have one run and one pending; two
workers to interleave claims; three rooms of one user to exceed a user quota
of two. Nothing is bounded by a constraint: each run explores all reachable
states, errors, resumptions and restarts without limit. `MaxQueue` bounds the jobs
that requests leave in the queue, never those of the worker: one queued beside
the one that runs is a duplicate preparation, or a preparation and a build, ahead
of the worker's own insert (`workspace_safe`); three let a user keep two ahead of
an old one (`workspace_live`). Two requests are what a
read and a write need to be separated by another read and write; the safety run
has one workspace, since requests and jobs of different workspaces share only the
queue, whose order is what `workspace_live` is about. The Postgres runs have
two workers: the program starts one per controller, `loop.go:11-13` speaks of
several sharing the store.

The browser runs bound the requests under way (`Slots`, `MaxGets`, `MaxLoads`,
`MaxOps`, `MaxReads`), the faults (`MaxFaults`) and what the server does
(`MaxMessages`, `MaxMoves`, `MaxChanges`). Two requests are what an older and a
newer answer need; one fault is enough, as every property is about what follows
a single one; two sessions, workspaces or repositories are the one the page has
left and the one it is about; four messages are a request, calls, a result and a
request that interrupts them, or a text. The pages of `WebPages` share nothing
but the tasks and the place, so their bounds are chosen page by page: one
change of the variables (`MaxOps`) reads again beside two readings of the effect,
and any number of each is what `EnvironmentCorrect` is about.

| run | instance | shows |
|---|---|---|
| `room_local` | two rooms of one user, one worker, SQLite, production limits, 2 steps, 1 call; error, stop, pause, continue, restart anywhere | the rooms implement `RoomAdmission`; no slot is exceeded; **no step is taken twice** |
| `room_resume` | one room, two workers, Postgres claims, sweeps, 2 steps, 2 calls | `SoleExecutor`, `ReplayOnce`, `JournalIsPrefix`, `MemoryFollowsJournal`, `RevokedRoomStops`, `CallsAreRun` |
| `workspace_safe` | one workspace, two requests, the job worker; failures, disconnections and restarts anywhere | `InitializingIsServed`, `ReadyIsPrepared`, `NoOrphanTree`, `PreparedStays`, `QuietDeletionIsFinal`, `WaitingIsServed` |
| `workspace_live` | one workspace, one request, the job worker; fair | a queued job is taken however users go on enqueueing; a preparation leaves *initializing* and *waiting_environment*, or a build that recorded nothing has stranded it |
| `web_list` | one workspace, two calls under way, one fault; fair | `LockIsExact`, `PreparationIsWatched`, `OfferedIsAccepted`; a preparation that is over does not stay on the page |
| `web_conversation` | two conversations of a workspace, one message, two requests beside the refresh, one fault | `ShownIsHistory`, `NothingDisappears`, `RestingPageIsCurrent` |
| `web_timeline` | two sessions, two rooms of one step, three moves of the server, two loads, one fault | `RestingTimelineIsCurrent` |
| `web_pages` | two conversations of four messages, two workspaces with a task and a variable, which two readings, one call and one change are about, two repositories with a branch of the same name, one of which has a default branch that is not among those read | `NothingHidden`, `FeedIsFaithful`, `OneActivityWorks`, `TasksStayPut`, `AnsweredBranchesFit`, `EnvironmentShown` |

`web_list` does not check for deadlock: a page whose calls have ended and whose
user does nothing more is at rest, and so are a controller without jobs and a
page that shows its load error.

Four runs check what a comment of the code says, and TLC finds it violated by
what the code does (`findings` in `PROJECT.json`):

| run | what happens |
|---|---|
| `room_lost` | one room, one worker, no sweep, as deployed; fair: the worker leaves the room on an error it cannot record, and the room says *running* for ever (`CrashedRoomReclaimed`) |
| `queue_jam` | three rooms of one user, one worker, the deployed limits, no error and no pause; fair: the quota of two counts the three queued rooms, and none is ever claimed (`QueuedRoomIsClaimed`) |
| `workspace_revived` | a failed workspace is prepared again and deleted: the job that opened it before makes it *initializing* under the deletion |
| `timeline_left_behind` | a handler publishes the room it queued; the worker claims it, takes its steps and ends it and publishes nothing, and the timeline shows it queued for ever |

**Known divergences** the models contain and the properties have to except:

- The user quota counts queued rooms (`workspace/run_worker.go:65`): three
  queued rooms under a limit of two block each other for ever, and everybody
  behind them (`queue_jam`).
- A start of the controller drops the table of the rooms (`Restart`); no room,
  journal or memory outlives one.
- Pause, then continue while the worker is inside: a second worker can claim the
  room, and the heartbeat of the first, which tests only the state, still
  succeeds. `SoleExecutor` and `ReplayOnce` except such rooms (`revived`);
  `NoStepTwice` holds without exception where one worker is all there is.
- A room claimed again restarts the memory version at zero, the save conflicts
  and the worker leaves it *running* (`SaveWorkMemory`). Nothing takes it out
  (`room_lost`).
- A turn is recorded before its commands run and replay skips it, so a worker
  that leaves on an error with commands to run leaves them for good; so does a
  model that stops and asks in one answer. `CallsAreRun` excepts both
  (`forsaken`), and nothing else.
- A build that finds its workspace archived, or whose git command fails before
  or after the setup, returns without a record on the workspace
  (`workspace/preparation.go:245-247`, `265-268`, `290-293`). Its workspace stays in
  *waiting_environment* (`Stranded`). `WaitingIsServed` says that only the end of
  a build leaves it so.
- A process that stops, or a switch that fails, between `git clone` and
  `git switch -c` leaves a `.git` the retry takes for a finished clone: the
  workspace becomes *ready* on its base branch (`tree` stays *base*).
- `ReadyIsPrepared` and `PreparedStays` except what was `overtaken`,
  `NoOrphanTree` and `QuietDeletionIsFinal` only what was `contested`;
  `workspace_revived` shows that they must. Stop, resume, archive and the choice
  of a project root do not take the lock of a deletion (`deleteMu`): one that had
  read the row before may write over *deleting*. `QuietDeletionIsFinal` says that
  this one write is all that can.
- Archive and delete are offered while a workspace is prepared, for the
  controller to refuse (`OfferedIsAccepted` leaves those two out). A failed poll
  replaces every page by its error for good (`loadError`), and a page whose
  retry was refreshed before the job began shows *failed*, or one in `waiting_environment`
  that, until something else refreshes it: only *creating* and *initializing*
  are polled.
- A notice about another conversation displaces the one in the slot, and one that
  comes during a refresh of another conversation is dropped with it
  (`missed`); older answers of `RunTimeline` and of the reload of
  `EnvironmentPanel` are shown (`tangled`).
- A past conversation left with an open activity shows it as working whenever
  the session works (`OneActivityWorks` is about the current one). An edit of a
  task saved after the workspace changed is lost. While branches are read, or
  when that failed, the form submits the base branch of the repository before.

**Fairness.** `WorkersMove` is weak fairness of each worker's next step:
`RunWorker` loops for ever (`execution/provider.go:22-49`) and model and shell
calls end at their timeouts. Users and errors are never fair, and neither are the
sweep and the passing of a lease: nothing in the program calls the sweep, so
`room_resume` only allows it, and no liveness rests on it. `QuietSpec` of
`queue_jam` leaves out errors, pauses and restarts, so that nothing but the limits
keeps a room in the queue. `Progress` is weak fairness of the job worker where it
does not wait for git (`RunWorker`, `job_worker.go:96-115`; its setup commands
have a timeout, `exec/shell.go`) and of each request that is under way; arrivals,
disconnections and restarts are never fair. `GitReturns` is weak fairness of the
job worker where it waits for git. That is an assumption about the world and not
about the code: git has no timeout (`workspace/git.go:38-66`), and a clone that
hangs keeps the only worker for good. `QueuedJobIsTaken` and `PreparationEnds`
hold under that assumption. `FairSpec` of `WorkspaceListView` is
weak fairness of each call (handlers come to an end and answer, refresh and
removal go on, answers are taken) and
strong fairness of the poll: a timer that is set fires whatever else the page
does, but the model gives it a slot only when one is free. That is the only
strong fairness; jobs, users and faults of the browser runs are never fair.

## 4. What is proved

For every set of rooms and workers, every limit, step bound and call bound that
satisfies `RoomAssumption` (finite set of rooms, natural limits, at least one
step):

- `RoomTypeCorrect`: types, with `WorkerInv` (a worker is idle exactly when it
  has no room; inside an iteration its step is below `max_steps`; `call` never
  passes `asked`).
- `JournalStaysPrefix`, `MemoryStaysBehind`: the journal is a prefix and the
  memory stays behind it. `JournalIsPrefix` alone is not inductive: a worker may skip a step because
  its done map says so. `JournalInv` adds that a done map holds only recorded
  steps and that a worker at step k has all earlier steps recorded.
- `RevokedRoomsStop`: `FrontierInv` adds that a worker inside a step of a room
  that is not running has that step in the frontier.
- `ClaimsAreExclusive`: `ClaimInv` adds that a queued room nobody revived has
  no worker inside, that a room being claimed is queued, and that two
  claim transactions never hold the same row. This covers the interleaved claims of
  Postgres.
- `ReplayTakesNoTurnTwice`: `ReplayInv` adds that the single executor of a room
  knows every recorded step from its current one on.
- `OneWorkerRepeatsNothing`: the same invariant with no room excepted, under the
  hypothesis `OneWorker` that `Workers` has one member at most, as in the
  program, which starts one (`run.go:344`). `Doubtful` is what makes both one
  induction: the rooms that may meet a second executor, none where there is one worker.
- `NoCallLeftOut`: once nobody is inside a room its commands are settled, with
  the exceptions of `CallsAreRun`. `DueInv` says worker by worker that in a room
  not forsaken it owes the calls it has left to run where it is inside, and
  nothing in any other room; a claim, a stop or a sweep changes neither.
- A restart is the easy case of each: it puts back what `Init` describes
  (`RestartInits`).
- `RoomsImplementAdmission`: on the serialized store every step is a step of
  `RoomAdmission` or leaves the phases alone; `ClaimsWhole` (no open claim
  transaction on a serialized store) and the exactness of the lease sweep are
  what the step simulation needs.
- `RoomsRespectSlots`: with `SlotsNeverExceeded` of the abstract
  specification, carried through the refinement.
- `SlotsNeverExceeded`, `AdmissionTypeCorrect` for the abstract specification,
  the former under `AdmissionAssumption`, which `RoomAssumption` implies.

For every set of workspaces and requests and every bound on the queue, without
using any assumption on the constants:

- `LifecycleTypeCorrect`: types, with `RequestInv` and `WorkerInv` (whoever is
  under way has a workspace).
- `InitializingServed`: the property only excludes three places of the worker,
  so it is not inductive. `ServedInv` names the places in between (`InHand`): from the
  statement that says *initializing* to the one that says something else. It
  needs from `WorkerInv` that a build is never where only a preparation goes:
  the two share `verify`, `complete` and the stage writes, and a build that failed
  there without a record would otherwise leave a row initializing. A deletion may
  write over such a row, and then the worker writes no row or another status;
  a restart leaves no row initializing at all.
- `ReadyPrepared`, `PreparedStaysPrepared`: from `SInv`. Of every workspace
  that was not overtaken it says what worker and requests have established where
  they stand (`WorkSound`), what the row promises of clone and version
  (`RowSound`), and that a row that says *deleting* is in the hands of one
  deletion and of no job (`DeletionSound`, `OneDeletion`). A workspace in doubt
  stays in doubt, so whatever writes over a row without a test has first to be shown
  to be alone with it, or to leave it overtaken. `SoundStep` is the step that does
  nothing to a workspace; the proof has one lemma per statement that does.
- `NoTreeOrphaned`, `QuietDeletionFinal`: from `CInv`, which adds to `SInv` what
  holds under any stale write, of every workspace that is not contested
  (`Cleared`): while it is deleted, or a request still removes its files, the job
  worker is with it only where it does nothing to status or directory (`Quiet`),
  a row that is being erased says *deleting*, *ready* or *stopped*, so that no job
  opens it, and the directory stays away once it was removed.

For every set of workspaces and of slots and every bound on faults that
satisfies `ListAssumption` (`WorkspaceListViewProofs`):

- `TypeCorrect`: types, with `CallsOK` (an idle call is no operation, one that
  is under way as a request is one of the eight and about a workspace, and only
  the first load can hold a failed half).
- `LockCorrect`: the deletion lock is held exactly while a deletion is under
  way, and there is one at most. It is inductive relative to the types: a
  click takes the lock and a slot together, and every way a deletion ends
  (refused, lost, half removed, refreshed or not) passes `End`.
- `WatchedCorrect`: a page that shows a preparation has a timer, a poll or an
  error. It rests on the timer being set from the list that is shown, by every
  refresh, and on a poll that fails setting `loadError`.
- `OffersCorrect`: from what the two lists are made of, and the guards of the controller.

For every set of workspaces and sessions and every bound on messages, requests
and faults that satisfies `ConversationAssumption` (`ConversationViewProofs`):

- `IInv` says of everything the page has of a conversation, the messages it
  shows, the answers under way and those of the refresh, that it is the
  beginning of the conversation *it is of*. Conversations only grow, so a
  beginning stays one (`PartGrows`), and two beginnings of one conversation agree as far
  as both go, so `Reconcile` neither mixes nor shortens (`ReconcileKeeps`).
  What ties an answer to its conversation is the test of the selection in `Show`.
- `HistoryShown` and `NothingLost` follow, the latter from what `IInv` says
  before and after the step.
- `TypeCorrect` adds that a list has one copy of a session at most. That
  "the last updated" is one of the list rests on the well-foundedness of the
  naturals (`GreatestIn`).
- `RestingPageCorrect`: `FreshInv` says why a page that is behind will not stay
  so: the notice is still in the broker or the greeting to come, a refresh will
  read or has read the whole conversation, or a request has. At rest none of these is left.
  It needs that a refresh marked `pending` is repeated, and that a read in front of
  the newest message is always followed by a notice.

For every set of sessions and every bound on rooms, steps, moves, loads and
faults that satisfies the assumption of the module (`RunTimelineViewProofs`):

- `TypeCorrect`: types, with `LoadOK`: what a load has read it read of rooms that
  exist, and what it read last is what they are.
- `RestingTimelineCorrect`: at rest the timeline is current, with two exceptions.
  `owed` is a page with no list of its session read since a notice was displaced
  or lost, a read failed or the worker moved; `tangled` is one on which an answer
  of overlapping requests came out of turn (older than what was shown, of
  another session, about a room no longer active) and none in turn since.
  `CurrentInv` is about a page that neither waits for a list (`Pending`) nor has
  one it will take (`Answered`): it shows the list, and of the active room the
  journal, or has a load that asks for it.

For every set of sessions, workspaces, call ids, variables and repositories and
every bound on messages, past conversations, requests and changes that
satisfies `ChatAssumption`, `PanelAssumption` and `FormAssumption`
(`WebPagesProofs`):

- `BranchesFit`: `FormInv` adds that only a read of the chosen repository still
  stands, and that the form says *loading* while one does. A read that is answered
  is therefore the last one to wait for. The base branch is one of the branches
  or the default branch, of which nothing is assumed: one page of a hundred
  branches is read (`githubapp/client.go:196`), and an empty repository has a
  default branch and no branches.
- `EnvironmentCorrect`: there is a date for each workspace, the change it last
  had, such that a reading from after it is what is stored (`Since`), and unless
  something is owed the page has such a reading on display, in an answer, or
  still to ask for (`Coming`). The dates are no variable: the invariant says that they
  exist. At rest only the display is left.

- `PagesTypeCorrect`: `PanelShape` and `FormShape` tie the flags to what is under
  way (the panel says *saving* exactly while its save is, *loading* while a load still
  stands), and `Forgotten` is what a page that is left must have given up for
  these to hold when it is opened again.
- `ConversationWhole`: `Cuts` names the places where the messages were cut. The
  past conversations are what lies between two cuts, so put together from the
  last to the first they are the messages up to the start of the current one.
- `ActivityAlone`: `Fed` says of every stage of the pass over the messages that
  no activity but the open one is unclosed. It holds for any list of messages, not
  only those an agent sends.
- `FeedFaithful`: what the feed of a list should be (`FeedOf`) is stated of every
  stage of the pass (`HasRead`): which item stands where (`Placed`), which
  activity has ended and how (`Ended`), whose steps it has and what came of each
  (`Stepped`). One lemma for each kind of message shows that reading it keeps the
  three. For an answer to go to the right step, an answer must come to one call,
  and within one turn no call may come after an answer to it; this (`Orderly`) is
  what `Continuations` allows, given that only what was called is answered
  (`Ordered`, the invariant of the messages), and each stretch between two cuts
  inherits it.
- `TasksCorrect`: `TasksInv` has the tasks of a workspace as a set of ids, each
  once; the task in the editor was created before, so saving or deleting it in another
  workspace changes nothing there.

The last four are about folds over lists of any length. The prover cannot use
the library's induction theorems, but induction over the *length* needs none of
them: `UpTo` states it as a fact about sets of numbers, from the
well-foundedness of the naturals. For each fold one lemma (`FeedPass`, `CallsPass`,
`PastPass`, `WithoutPass`) gives its trace, a function on `0..n` with the fold's value at n,
and what is to be shown of the result is shown of the numbers at which the trace
has it.

Only model-checked: all liveness (`QueuedJobIsTaken`, `PreparationEnds`,
`PreparationEndsOnPage`), which is outside the prover's reach, and
`WaitingIsServed`. What `room_lost`, `queue_jam`, `workspace_revived` and
`timeline_left_behind` refute is refuted by a trace, and no theorem is about it.

## 5. Plan

In this order; the most consequential behaviour first.

1. `WorkspaceLifecycle`, continued: an abstract specification
   `WorkspacePromise` (which status changes a workspace may make) it implements
   wherever nothing was overtaken, from `SInv`. Two controllers on
   Postgres with job leases.
2. `LambdaRuntime`: records against machines, start, stop, destroy, reconcile
   with failing calls; token cache.
3. `Accounts`: web sessions over time, revocation, cleanup.
4. `Sessions` and `EnvironmentVersions`: count-then-write under two requests.
5. `Algorithms`: the cut of compaction, the bounded buffer, the text order of
   stored times, each against a reference definition.

## 6. Not modelled

Calls of external services (GitHub, AWS, S3, model providers), text handling
(parsing of environment specs, titles, redaction), file transfer of the VM
agent, and the layout of the schema. Of the browser: login, navigation and
rendering (Markdown, icons, dates), the publish panel and the review of changes,
the profile panel, the Inspector (no page mounts it), how the details of one
activity open and close, and functions no page calls or that never act
(`sendMessage`, `stopRun`, `renameSession`, `deleteSession`). `PROJECT.json`
gives the reason for each part.
