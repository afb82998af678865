-------------------------- MODULE WorkspaceListView --------------------------
(***************************************************************************)
(* The browser's copy of the workspaces (web/src/app/                      *)
(* useWorkspaceController.ts), the pages that offer actions on it          *)
(* (WorkspaceIndex, WorkspaceOverview, WorkspaceReadiness) and the requests *)
(* they send.  Several refreshes and calls may be under way, are answered and *)
(* come back in any order.                                                 *)
(*                                                                         *)
(* The controller is the guards and the effect of its handlers, and the     *)
(* statuses its jobs write; module WorkspaceLifecycle has the detail.       *)
(***************************************************************************)
EXTENDS Naturals, FiniteSets

CONSTANTS Workspaces,   \* the workspaces of the account
          NoWorkspace,  \* what a call that is about no workspace is about
          Slots,        \* the calls that may be under way in the page at a time
          MaxFaults     \* bound on failed fetches and lost requests

ASSUME ListAssumption ==
    /\ NoWorkspace \notin Workspaces
    /\ MaxFaults \in Nat
    /\ Slots # {}

VARIABLES
    status,     \* server: the status of each workspace
    archived,   \* server: the workspaces with an archived_at
    queued,     \* server: the workspaces a retry has a job waiting for
    shown,      \* page: state "workspaces", as the status it gives each
    shelved,    \* page: state "archivedWorkspaces", likewise
    loading,    \* page: the first load has not settled
    loadError,  \* page: a load failed; every page is replaced by the message
    timer,      \* page: the poll's timer is set
    deleting,   \* page: deletingWorkspaceIDsRef
    calls,      \* page: where each call stands
    faults      \* faults so far

server == <<status, archived, queued>>
copy   == <<shown, shelved>>
page   == <<loading, loadError, timer>>
vars   == <<status, archived, queued, shown, shelved, loading, loadError, timer,
            deleting, calls, faults>>

Statuses == {"creating", "initializing", "waiting_environment",
             "initialization_failed", "needs_configuration", "ready", "stopped",
             "deleting", "deletion_failed"}
Absent   == "absent"
Lists    == [Workspaces -> Statuses \cup {Absent}]

Refreshing == {"creating", "initializing"}

(* Answers: a list, no answer yet, or (the first load only) a failed one.   *)
Unanswered == [w \in Workspaces |-> "unanswered"]
Failed     == [w \in Workspaces |-> "failed"]
Nothing    == [w \in Workspaces |-> Absent]
Answers    == Lists \cup {Unanswered, Failed}

Ops    == {"create", "initialize", "configure", "stop", "resume", "archive",
           "restore", "delete"}
Phases == {"idle", "request", "removing", "fetch", "refetch"}
Call   == [op : Ops \cup {"none", "initial", "poll", "reload"}, ws : Workspaces \cup {NoWorkspace},
           phase : Phases, active : Answers, archive : Answers]

NewCall(op, w, phase) == [op |-> op, ws |-> w, phase |-> phase,
                          active |-> Unanswered, archive |-> Unanswered]
NoCall == NewCall("none", NoWorkspace, "idle")

Idle(c)     == calls[c].phase = "idle"
Fetching(c) == calls[c].phase \in {"fetch", "refetch"}
Deletion(c, w) == calls[c].op = "delete" /\ calls[c].ws = w
Settled(call)  == call.active # Unanswered /\ call.archive # Unanswered

-----------------------------------------------------------------------------
(* What the controller holds and answers.                                  *)

ActiveList   == [w \in Workspaces |-> IF w \in archived THEN Absent ELSE status[w]]
ArchivedList == [w \in Workspaces |-> IF w \in archived THEN status[w] ELSE Absent]

(* Whether the handler of an operation goes through; an archived workspace
   is refused whatever works on its environment.                           *)
Accepts(op, w) ==
    CASE op = "create"     -> status[w] = Absent
      [] op = "initialize" -> w \in queued \/ status[w] \in {"creating", "initialization_failed"}
      [] op = "configure"  -> w \notin archived /\ status[w] = "needs_configuration"
      [] op = "stop"       -> w \notin archived /\ status[w] = "ready"
      [] op = "resume"     -> w \notin archived /\ status[w] = "stopped"
      [] op = "archive"    -> w \notin archived /\ status[w] \notin
               {Absent, "creating", "initializing", "deleting", "deletion_failed"}
      [] op = "restore"    -> w \in archived /\ status[w] \notin {"deleting", "deletion_failed"}
      [] op = "delete"     -> status[w] \notin {Absent, "creating", "initializing"}

StatusAfter(op, w) ==
    CASE op \in {"create", "configure"}                -> "creating"
      [] op = "stop"                                   -> "stopped"
      [] op = "archive" /\ status[w] = "ready"         -> "stopped"
      [] op = "resume"                                 -> "ready"
      [] op = "delete"                                 -> "deleting"
      [] OTHER                                         -> status[w]

Perform(op, w) ==
    /\ status' = [status EXCEPT ![w] = StatusAfter(op, w)]
    /\ archived' = CASE op = "archive" -> archived \cup {w}
                     [] op = "restore" -> archived \ {w}
                     [] OTHER          -> archived
    /\ queued' = IF op = "initialize" /\ status[w] = "initialization_failed"
                 THEN queued \cup {w} ELSE queued

NextStatusesRenamed(w) == IF status[w] = "creating" THEN {"preparing"} ELSE {}
(* A job of the controller, or its recovery at startup, writes a status.    *)
NextStatuses(w) ==
    CASE status[w] = "creating"     -> {"initializing", "initialization_failed"}
      [] status[w] = "initializing" -> {"ready", "needs_configuration",
                                        "waiting_environment", "initialization_failed"}
      [] status[w] = "waiting_environment" -> {"ready", "initialization_failed"}
      [] w \in queued               -> {"initializing"}
      [] OTHER                      -> {}

JobWrites(w) ==
    /\ \E s \in NextStatuses(w) : status' = [status EXCEPT ![w] = s]
    /\ queued' = queued \ {w}
    /\ UNCHANGED <<archived, copy, page, deleting, calls, faults>>

-----------------------------------------------------------------------------
(* What the pages offer on the copy they show.                             *)

BeingDeleted(w, s) == w \in deleting \/ s = "deleting"

OnRow == [resume  |-> {"stopped"}, stop |-> {"ready"},
          archive |-> Statuses \ {"deletion_failed"}, delete |-> {"deletion_failed"}]
OnMenu == [stop |-> {"ready"}, resume |-> {"stopped"}, archive |-> Statuses,
           delete |-> Statuses]
OnReadinessAtOnce == [delete |-> {"deletion_failed", "initialization_failed"},
                      resume |-> {"stopped"}, configure |-> {"needs_configuration"},
                      initialize |-> {"initialization_failed", "needs_configuration"}]
OnReadiness == [delete |-> {"deletion_failed", "initialization_failed"},
                resume |-> {"stopped"}, configure |-> {"needs_configuration"},
                initialize |-> {"initialization_failed"}]
OnShelf == [restore |-> Statuses \ {"deletion_failed"}, delete |-> Statuses]

Offers(table, op, s) == op \in DOMAIN table /\ s \in table[op]

(* A deletion under way disables some buttons of a page and not the others. *)
OfferedOnRow(op, w) ==
    Offers(OnRow, op, shown[w]) /\ (op \in {"stop", "archive"} \/ ~BeingDeleted(w, shown[w]))
OfferedOnOverview(op, w) ==
    \/ Offers(OnMenu, op, shown[w]) /\ (op \in {"stop", "resume"} \/ ~BeingDeleted(w, shown[w]))
    \/ Offers(OnReadiness, op, shown[w])
OfferedOnShelf(op, w) ==
    Offers(OnShelf, op, shelved[w]) /\ ~BeingDeleted(w, shelved[w])

Offered(op, w) ==
    \/ op = "create" /\ shown[w] = Absent /\ shelved[w] = Absent
    \/ OfferedOnRow(op, w) \/ OfferedOnOverview(op, w) \/ OfferedOnShelf(op, w)

LockIgnored(op, w) == TRUE
(* deleteWorkspace looks at the ref, not at the state its buttons show.     *)
MayStart(op, w) == op = "delete" => w \notin deleting

Click(c, op, w) ==
    /\ ~loading /\ ~loadError /\ Idle(c)
    /\ Offered(op, w) /\ MayStart(op, w)
    /\ calls' = [calls EXCEPT ![c] = NewCall(op, w, "request")]
    /\ deleting' = IF op = "delete" THEN deleting \cup {w} ELSE deleting
    /\ UNCHANGED <<server, copy, page, faults>>

-----------------------------------------------------------------------------
(* How a call goes on: request, then refresh; a deletion whose request or
   whose refresh failed refreshes once more, and releases its lock last.    *)

Release(c) == deleting' = IF calls[c].op = "delete" THEN deleting \ {calls[c].ws} ELSE deleting

Proceed(c, phase) == calls' = [calls EXCEPT ![c] = NewCall(@.op, @.ws, phase)]
End(c) == calls' = [calls EXCEPT ![c] = NoCall] /\ Release(c)
FailCall(c) ==
    IF calls[c].op = "delete" /\ calls[c].phase # "refetch"
    THEN Proceed(c, "refetch") /\ UNCHANGED deleting
    ELSE End(c)

(* The request reaches its handler, which refuses it or carries it out; the
   answer of either may be lost.                                           *)
Handle(c) ==
    LET call == calls[c] IN
    /\ call.phase = "request" /\ Accepts(call.op, call.ws)
    /\ Perform(call.op, call.ws)
    /\ IF call.op = "delete" THEN Proceed(c, "removing")
       ELSE calls' = [calls EXCEPT ![c] = NewCall("reload", NoWorkspace, "fetch")]
    /\ UNCHANGED <<copy, page, deleting, faults>>

Refuse(c) ==
    /\ calls[c].phase = "request" /\ ~Accepts(calls[c].op, calls[c].ws)
    /\ FailCall(c)
    /\ UNCHANGED <<server, copy, page, faults>>

(* Service.Delete: the rest of it, which may fail half way.                 *)
Remove(c) ==
    LET w == calls[c].ws IN
    /\ calls[c].phase = "removing"
    /\ \/ /\ status' = [status EXCEPT ![w] = Absent]
          /\ archived' = archived \ {w} /\ queued' = queued \ {w}
          /\ Proceed(c, "fetch")
       \/ /\ status' = [status EXCEPT ![w] = "deletion_failed"]
          /\ Proceed(c, "refetch")
          /\ UNCHANGED <<archived, queued>>
    /\ UNCHANGED <<copy, page, deleting, faults>>

LoseRequest(c) ==
    /\ calls[c].phase \in {"request", "removing"} /\ faults < MaxFaults
    /\ faults' = faults + 1
    /\ \/ calls[c].phase = "request" /\ UNCHANGED server
       \/ /\ calls[c].phase = "request" /\ Accepts(calls[c].op, calls[c].ws)
          /\ calls[c].op # "delete" /\ Perform(calls[c].op, calls[c].ws)
       \/ /\ calls[c].phase = "removing"
          /\ status' = [status EXCEPT ![calls[c].ws] = "deletion_failed"]
          /\ UNCHANGED <<archived, queued>>
    /\ FailCall(c)
    /\ UNCHANGED <<copy, page>>

-----------------------------------------------------------------------------
(* Refreshes.                                                              *)

(* The two GETs of a refresh are answered from one state: nothing below
   relates the two lists, and each is replaced as a whole.                 *)
Answer(c) ==
    /\ Fetching(c) /\ ~Settled(calls[c])
    /\ calls' = [calls EXCEPT
         ![c].active  = IF @ = Unanswered THEN ActiveList ELSE @,
         ![c].archive = IF @ = Unanswered THEN ArchivedList ELSE @]
    /\ UNCHANGED <<server, copy, page, deleting, faults>>

RearmOnce(list) == timer' = (timer /\ \E w \in Workspaces : list[w] \in Refreshing)
(* The effect on "workspaces" drops the timer and sets it again while some
   workspace is being prepared.                                            *)
Rearm(list) == timer' = (\E w \in Workspaces : list[w] \in Refreshing)

ApplyRefresh(c) ==
    /\ calls[c].op # "initial" /\ Fetching(c) /\ Settled(calls[c])
    /\ shown' = calls[c].active
    /\ shelved' = calls[c].archive
    /\ Rearm(calls[c].active)
    /\ End(c)
    /\ UNCHANGED <<server, loading, loadError, faults>>

(* The first load settles as a whole and takes the answers there are.       *)
ApplyInitial(c) ==
    /\ calls[c].op = "initial" /\ Settled(calls[c])
    /\ loading' = FALSE
    /\ shelved' = IF calls[c].archive = Failed THEN shelved ELSE calls[c].archive
    /\ IF calls[c].active = Failed
       THEN loadError' = TRUE /\ UNCHANGED <<shown, timer>>
       ELSE shown' = calls[c].active /\ Rearm(calls[c].active) /\ UNCHANGED loadError
    /\ End(c)
    /\ UNCHANGED <<server, faults>>

PollFires(c) ==
    /\ timer /\ Idle(c)
    /\ timer' = FALSE
    /\ calls' = [calls EXCEPT ![c] = NewCall("poll", NoWorkspace, "fetch")]
    /\ UNCHANGED <<server, copy, loading, loadError, deleting, faults>>

(* One GET fails: Promise.all gives up the refresh, allSettled does not.    *)
FailFetch(c) ==
    /\ Fetching(c) /\ ~Settled(calls[c]) /\ faults < MaxFaults
    /\ faults' = faults + 1
    /\ IF calls[c].op = "initial"
       THEN /\ \E half \in {"active", "archive"} :
                  /\ calls[c][half] = Unanswered
                  /\ calls' = [calls EXCEPT ![c][half] = Failed]
            /\ UNCHANGED <<loadError, deleting>>
       ELSE FailCall(c) /\ loadError' = (loadError \/ calls[c].op = "poll")
    /\ UNCHANGED <<server, copy, loading, timer>>

-----------------------------------------------------------------------------
Init ==
    /\ status \in [Workspaces -> (Statuses \ {"deleting"}) \cup {Absent}]
    /\ archived \in SUBSET {w \in Workspaces : status[w] \notin {Absent, "creating", "initializing"}}
    /\ queued = {}
    /\ shown = Nothing /\ shelved = Nothing
    /\ loading = TRUE /\ loadError = FALSE /\ timer = FALSE
    /\ deleting = {} /\ faults = 0
    /\ \E first \in Slots :
          calls = [c \in Slots |-> IF c = first THEN NewCall("initial", NoWorkspace, "fetch")
                                   ELSE NoCall]

CallStep(c) == \/ Handle(c) \/ Refuse(c) \/ Remove(c)
               \/ Answer(c)
               \/ ApplyRefresh(c) \/ ApplyInitial(c)

Next == \/ \E w \in Workspaces : JobWrites(w)
        \/ \E c \in Slots : \/ CallStep(c) \/ PollFires(c) \/ LoseRequest(c) \/ FailFetch(c)
                            \/ \E op \in Ops, w \in Workspaces : Click(c, op, w)

Spec == Init /\ [][Next]_vars

(* Requests are handled, GETs answered, answers taken and timers fire; a job
   need not end, nothing needs to fail, nobody needs to click.  A set timer
   depends on nobody: it is strong fairness only because Slots is bounded.   *)
FairSpec == /\ Spec
            /\ \A c \in Slots : WF_vars(CallStep(c))
            /\ SF_vars(\E c \in Slots : PollFires(c))

-----------------------------------------------------------------------------
TypeOK ==
    /\ status \in Lists
    /\ archived \subseteq Workspaces
    /\ queued \subseteq Workspaces
    /\ shown \in Lists /\ shelved \in Lists
    /\ loading \in BOOLEAN /\ loadError \in BOOLEAN /\ timer \in BOOLEAN
    /\ deleting \subseteq Workspaces
    /\ calls \in [Slots -> Call]
    /\ faults \in 0..MaxFaults

(* However its buttons are shown and pressed, on whatever pages, and whatever
   fails: one deletion of a workspace is under way in the page at a time,
   and the lock is held exactly while there is one (deleteWorkspace).       *)
LockIsExact ==
    /\ \A w \in deleting : \E c \in Slots : Deletion(c, w)
    /\ \A c, d \in Slots, w \in Workspaces :
          Deletion(c, w) => w \in deleting /\ (Deletion(d, w) => c = d)

(* A page that shows a workspace being prepared has its next refresh coming:
   the timer is set or a poll under way, unless the page has given up.      *)
PreparationIsWatched ==
    (\E w \in Workspaces : shown[w] \in Refreshing) =>
        timer \/ loadError \/ \E c \in Slots : calls[c].op = "poll"

(* What the pages offer on a workspace they show as it is goes through,
   archive and delete apart: those are offered during the preparation too,
   for the controller to refuse.                                           *)
OfferedIsAccepted ==
    \A w \in Workspaces, op \in Ops \ {"archive", "delete"} :
        shown = ActiveList /\ shelved = ArchivedList /\ Offered(op, w) => Accepts(op, w)

(* A page does not go on showing a preparation that is over: again and again
   what it shows as creating or initializing is, or the page shows an error. *)
PreparationEndsOnPage ==
    \A w \in Workspaces :
        []<>(loadError \/ (shown[w] \in Refreshing => status[w] \in Refreshing))
=============================================================================
