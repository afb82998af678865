--------------------------- MODULE RunTimelineView ---------------------------
(***************************************************************************)
(* The run timeline of a conversation page (web/src/run/RunTimeline.tsx,    *)
(* useRunEvents.ts), the notices it reads again on (the EventBroker of      *)
(* internal/webapp/events.go, a slot of one per browser) and the requests   *)
(* of its buttons (internal/webapp/run_handlers.go).                        *)
(*                                                                         *)
(* The rooms are those of ExecutionRoom, as far as the page tells them       *)
(* apart: a room that is completed, failed or canceled has ended.  Two loads *)
(* may overlap, and their answers come in any order.                        *)
(***************************************************************************)
EXTENDS Naturals, FiniteSets

CONSTANTS Sessions, NoRun,
          MaxRuns,      \* bound on the rooms of the workspace
          MaxSteps,     \* bound on the journal of one
          MaxMoves,     \* bound on what happens on the server
          MaxLoads,     \* bound on the loads under way
          MaxFaults     \* bound on failed requests and lost notices

ASSUME TimelineAssumption ==
    /\ {MaxRuns, MaxSteps, MaxMoves, MaxLoads, MaxFaults} \subseteq Nat
    /\ Sessions # {}

VARIABLES
    rooms,      \* server: the rooms of the workspace, numbered as created
    clock,      \* server: its changes so far
    slot,       \* broker: the notice its channel to this browser holds
    session,    \* page: the session it is about
    runs,       \* page: state "runs"
    active,     \* page: state "activeRun"
    steps,      \* page: state "steps", the room they are of and their number
    error,      \* page: state "error" is not empty
    loads,      \* page: the calls of load under way
    act,        \* page: the call of act under way (state "busy")
    asOf,       \* history: the latest reading the page has shown
    tangled,    \* history: the parts of the page an answer out of turn is in
    owed,       \* history: a change no notice will make the page read
    faults      \* faults so far

server == <<rooms, clock>>
view   == <<session, runs, active, steps, error>>
ghosts == <<asOf, tangled, owed>>
vars   == <<rooms, clock, slot, session, runs, active, steps, error, loads, act,
            asOf, tangled, owed, faults>>

Going   == {"queued", "running", "waiting_user"}
States  == Going \cup {"ended"}
Room    == [of : Sessions, state : States, steps : 0..MaxSteps]
Shown   == [id : 1..MaxRuns, state : States]
Journal == [run : 1..MaxRuns \cup {NoRun}, count : 0..MaxSteps]
NoSteps == [run |-> NoRun, count |-> 0]

RunsOf(s) == {[id |-> r, state |-> rooms[r].state] : r \in {q \in DOMAIN rooms : rooms[q].of = s}}
Newest(list) == {run \in list : \A other \in list : other.id <= run.id}

ActiveOfAll(list) == {run \in list : run.state \in Going}
(* The newest room that is going on, or else the newest; none of none.       *)
ActiveOf(list) == LET going == {run \in list : run.state \in Going}
                  IN Newest(IF going = {} THEN list ELSE going)

StepsOf(run) == [run |-> run.id, count |-> rooms[run.id].steps]

-----------------------------------------------------------------------------
(* A notice takes the place of one the stream has not sent yet; that of
   another workspace tells this page nothing.                              *)
Publish(notice) ==
    /\ slot' = notice
    /\ owed' = (owed \/ (slot = "here" /\ notice = "elsewhere"))

(* RunChanged, for the page's own workspace.                                *)
RunChangedSilent == UNCHANGED <<slot, owed>>
RunChanged == Publish("here")

Moves == clock < MaxMoves /\ clock' = clock + 1

EnqueueRun(s) ==
    /\ Moves /\ Cardinality(DOMAIN rooms) < MaxRuns
    /\ LET r == Cardinality(DOMAIN rooms) + 1
       IN rooms' = [q \in 1..r |-> IF q = r THEN [of |-> s, state |-> "queued", steps |-> 0]
                                   ELSE rooms[q]]
    /\ RunChanged
    /\ UNCHANGED <<view, loads, act, asOf, tangled, faults>>

(* The worker claims, takes a step and ends a room, and publishes nothing.   *)
WorkerMoves(r) ==
    /\ Moves
    /\ \/ /\ rooms[r].state = "queued"
          /\ rooms' = [rooms EXCEPT ![r].state = "running"]
       \/ /\ rooms[r].state = "running" /\ rooms[r].steps < MaxSteps
          /\ rooms' = [rooms EXCEPT ![r].steps = @ + 1]
       \/ /\ rooms[r].state = "running"
          /\ rooms' = [rooms EXCEPT ![r].state = "ended"]
    /\ owed' = TRUE
    /\ UNCHANGED <<slot, view, loads, act, asOf, tangled, faults>>

(* CancelRun and SetRunWaitingUser look at no state, ContinueRun does.       *)
StateAfter(action, state) ==
    CASE action = "stop"  -> "ended"
      [] action = "pause" -> "waiting_user"
      [] action = "continue" /\ state = "waiting_user" -> "queued"
      [] OTHER -> state

HandleAction ==
    /\ act.phase = "request" /\ Moves
    /\ LET after == StateAfter(act.action, rooms[act.run].state)
       IN /\ rooms' = [rooms EXCEPT ![act.run].state = after]
          /\ act' = [act EXCEPT !.phase = "answered", !.state = after, !.at = clock']
    /\ RunChanged
    /\ UNCHANGED <<view, loads, asOf, tangled, faults>>

PublishElsewhere ==
    /\ faults < MaxFaults /\ faults' = faults + 1
    /\ Publish("elsewhere")
    /\ UNCHANGED <<server, view, loads, act, asOf, tangled>>

(* The stream breaks with a notice on it and comes back; useRunEvents does
   not listen to "connected".                                              *)
LoseNotice ==
    /\ slot # "none" /\ faults < MaxFaults
    /\ faults' = faults + 1
    /\ slot' = "none" /\ owed' = (owed \/ slot = "here")
    /\ UNCHANGED <<server, view, loads, act, asOf, tangled>>

-----------------------------------------------------------------------------
(* load: the list, then the steps of the room it finds active.               *)

NewLoad(s, twin) == [session |-> s, twin |-> twin, phase |-> "list", list |-> {},
                     steps |-> NoSteps, at |-> 0]
StartLoad(s) ==
    /\ Cardinality(loads) < MaxLoads
    /\ LET taken == {l.twin : l \in loads}
       IN loads' = loads \cup
            {NewLoad(s, CHOOSE t \in 1..MaxLoads : t \notin taken)}

Receive ==
    /\ slot # "none" /\ slot' = "none"
    /\ IF slot = "here" THEN StartLoad(session) ELSE UNCHANGED loads
    /\ UNCHANGED <<server, view, act, ghosts, faults>>

(* The component stays and its session changes under it.                    *)
SelectSession(s) ==
    /\ s # session /\ session' = s
    /\ StartLoad(s)
    /\ owed' = TRUE
    /\ UNCHANGED <<server, slot, runs, active, steps, error, act, asOf, tangled, faults>>

AnswerLoad(l) ==
    /\ \/ /\ l.phase = "list"
          /\ loads' = (loads \ {l}) \cup
               {[l EXCEPT !.phase = "listed", !.list = RunsOf(l.session), !.at = clock]}
          /\ owed' = (owed /\ l.session # session)
       \/ /\ l.phase = "steps"
          /\ loads' = (loads \ {l}) \cup
               {[l EXCEPT !.phase = "stepped", !.at = clock,
                          !.steps.count = rooms[l.steps.run].steps]}
          /\ UNCHANGED owed
    /\ UNCHANGED <<server, slot, view, act, asOf, tangled, faults>>

Later(at) == asOf' = IF at > asOf THEN at ELSE asOf
Mark(part, wrong) == tangled' = IF wrong THEN tangled \cup {part} ELSE tangled \ {part}

TakeList(l) ==
    /\ l.phase = "listed"
    /\ runs' = l.list /\ active' = ActiveOf(l.list) /\ error' = FALSE
    /\ Mark("runs", l.at < asOf \/ l.session # session) /\ Later(l.at)
    /\ IF active' = {}
       THEN steps' = NoSteps /\ loads' = loads \ {l}
       ELSE /\ UNCHANGED steps
            /\ \E run \in active' :
                  loads' = (loads \ {l}) \cup {[l EXCEPT !.phase = "steps", !.list = {},
                                                         !.steps.run = run.id]}
    /\ UNCHANGED <<server, slot, session, act, owed, faults>>

TakeSteps(l) ==
    /\ l.phase = "stepped"
    /\ steps' = l.steps /\ loads' = loads \ {l}
    /\ Mark("steps", l.at < asOf \/ \A run \in active : run.id # l.steps.run)
    /\ Later(l.at)
    /\ UNCHANGED <<server, slot, session, runs, active, error, act, owed, faults>>

FailLoad(l) ==
    /\ l.phase \in {"list", "steps"} /\ faults < MaxFaults
    /\ faults' = faults + 1
    /\ loads' = loads \ {l} /\ error' = TRUE /\ owed' = TRUE
    /\ UNCHANGED <<server, slot, session, runs, active, steps, act, asOf, tangled>>

-----------------------------------------------------------------------------
(* act: the buttons of the active room, one request at a time.               *)
NoAct == [run |-> NoRun, action |-> "none", phase |-> "idle", state |-> "none", at |-> 0]

Offered(state) == CASE state \in {"running", "queued"} -> {"stop", "pause"}
                    [] state = "waiting_user"          -> {"continue"}
                    [] state = "ended"                 -> {}

Act(action) ==
    /\ act = NoAct
    /\ \E run \in active :
         /\ action \in Offered(run.state)
         /\ act' = [NoAct EXCEPT !.run = run.id, !.action = action, !.phase = "request"]
    /\ error' = FALSE
    /\ UNCHANGED <<server, slot, session, runs, active, steps, loads, ghosts, faults>>

TakeAction ==
    /\ act.phase = "answered" /\ act' = NoAct
    /\ LET updated == [id |-> act.run, state |-> act.state]
       IN /\ active' = {updated}
          /\ runs' = {IF run.id = act.run THEN updated ELSE run : run \in runs}
          /\ Mark("runs", "runs" \in tangled \/ act.at < asOf \/ active # ActiveOf(runs)
                          \/ {updated} # ActiveOf(runs'))
    /\ Later(act.at)
    /\ UNCHANGED <<server, slot, session, steps, error, loads, owed, faults>>

FailAction ==
    /\ act.phase = "request" /\ faults < MaxFaults
    /\ faults' = faults + 1
    /\ act' = NoAct /\ error' = TRUE
    /\ UNCHANGED <<server, slot, session, runs, active, steps, loads, ghosts>>

-----------------------------------------------------------------------------
Init ==
    /\ rooms = [r \in {} |-> NoSteps] /\ clock = 0 /\ slot = "none"
    /\ session \in Sessions
    /\ runs = {} /\ active = {} /\ steps = NoSteps /\ error = FALSE
    /\ loads = {NewLoad(session, 1)} /\ act = NoAct
    /\ asOf = 0 /\ tangled = {} /\ owed = FALSE /\ faults = 0

Server == \/ HandleAction \/ PublishElsewhere \/ LoseNotice
          \/ \E s \in Sessions : EnqueueRun(s)
          \/ \E r \in DOMAIN rooms : WorkerMoves(r)
Page == \/ Receive \/ TakeAction \/ FailAction
        \/ \E s \in Sessions : SelectSession(s)
        \/ \E l \in loads : AnswerLoad(l) \/ TakeList(l) \/ TakeSteps(l) \/ FailLoad(l)
        \/ \E action \in {"stop", "pause", "continue"} : Act(action)

Next == Server \/ Page
Spec == Init /\ [][Next]_vars

-----------------------------------------------------------------------------
TypeOK ==
    /\ \A r \in DOMAIN rooms : rooms[r] \in Room
    /\ clock \in 0..MaxMoves /\ slot \in {"none", "here", "elsewhere"}
    /\ session \in Sessions /\ error \in BOOLEAN
    /\ runs \subseteq Shown /\ active \subseteq Shown /\ Cardinality(active) <= 1
    /\ steps \in Journal
    /\ act.run \in 1..MaxRuns \cup {NoRun}
    /\ tangled \subseteq {"runs", "steps"}

AtRest == loads = {} /\ act = NoAct /\ slot # "here" /\ ~error
Current ==
    /\ runs = RunsOf(session)
    /\ active = ActiveOf(runs)
    /\ steps = IF active = {} THEN NoSteps ELSE StepsOf(CHOOSE run \in active : TRUE)

(* A timeline at rest shows the rooms of its session, the one that is going on
   and its journal as they are, whatever was enqueued and pressed meanwhile:
   useRunEvents reads again after each notice.  Excepted is a page with no list
   of the session read since a notice was displaced or lost, a read failed or
   the worker moved (owed), and one on which an answer of overlapping requests
   came out of turn and none in turn since (tangled).                       *)
RestingTimelineIsCurrent == AtRest /\ ~owed /\ tangled = {} => Current

(* The promise of useRunEvents.ts: a page that has followed every notice and
   mixed up none shows the rooms as they are.                              *)
NoticesSuffice == AtRest /\ tangled = {} => Current
=============================================================================
