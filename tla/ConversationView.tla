--------------------------- MODULE ConversationView ---------------------------
(***************************************************************************)
(* The conversation page: which session it selects (app/                    *)
(* WorkspaceApplication.tsx), the sessions and messages it keeps (app/      *)
(* useWorkspaceController.ts, hooks/useWorkspaceDetail.ts) and the notices  *)
(* that make it read again (hooks/useServerEvents.ts, and the EventBroker   *)
(* of internal/webapp/events.go with its one-slot buffer).                  *)
(*                                                                         *)
(* React renders and runs the effects of a change before the next answer or  *)
(* click: they are part of the action that made the change (Render).  The   *)
(* workspaces are ready; WorkspaceListView has their lists.                  *)
(***************************************************************************)
EXTENDS Naturals, Sequences, FiniteSets, SequencesExt

CONSTANTS Workspaces, Sessions, NoKey,
          WorkspaceOf,  \* the workspace a session is (or would be) of
          Recorder,     \* whether the controller writes what it does into the
                        \* conversation (AppendMessage, SessionChanged)
          MaxMessages,  \* bound on what it writes
          MaxGets,      \* bound on the requests under way, refreshRun's apart
          MaxFaults     \* bound on failed requests and broken streams

ASSUME ConversationAssumption ==
    /\ WorkspaceOf \in [Sessions -> Workspaces]
    /\ NoKey \notin Workspaces \cup Sessions
    /\ Recorder \in BOOLEAN
    /\ MaxMessages \in Nat /\ MaxGets \in Nat /\ MaxFaults \in Nat

VARIABLES
    log,        \* server: the ids of each session's messages, in order
    stamp,      \* server: updated_at of each session; 0 for one there is not
    working,    \* server: the sessions whose status is working
    clock,      \* server: writes so far, and with them message ids and times
    slot,       \* broker: the notice its channel to this browser holds
    greeting,   \* the stream's "connected" is on its way, before any notice
    route,      \* page: the route
    lists,      \* page: state "sessions", the copies it has of each workspace
    selection,  \* page: selection.current
    messages,   \* page: state "messages"
    latest,     \* page: the last server event
    loop,       \* page: the refreshRun under way (refreshBusy) and its answers
    pending,    \* page: refreshPending
    gets,       \* page: the other requests under way
    failed,     \* page: messageError
    missed,     \* history: the sessions a notice about which came to nothing
                \* since the page last selected them
    faults      \* faults so far

server == <<log, stamp, working, clock>>
stream == <<slot, greeting>>
vars   == <<log, stamp, working, clock, slot, greeting, route, lists, selection,
            messages, latest, loop, pending, gets, failed, missed, faults>>

Ids    == 1..MaxMessages
Copy   == [id : Sessions, stamp : Nat, working : BOOLEAN]
(* The pages of no workspace have no session either, and ask for nothing.    *)
Routes == [page : {"overview", "conversation"}, ws : Workspaces]

Exists(s) == stamp[s] > 0
CopyOf(s) == [id |-> s, stamp |-> stamp[s], working |-> s \in working]
ListOf(w) == {CopyOf(s) : s \in {t \in Sessions : WorkspaceOf[t] = w /\ Exists(t)}}

-----------------------------------------------------------------------------
(* The session of the page: the working one, or else the last updated.      *)

Newest(copies) == (CHOOSE c \in copies : \A d \in copies : d.stamp <= c.stamp).id

Selected(r, l) ==
    IF r.page # "conversation" \/ l[r.ws] = {} THEN NoKey
    ELSE LET busy == {c \in l[r.ws] : c.working}
         IN Newest(IF busy = {} THEN l[r.ws] ELSE busy)

(* reconcileMessages: a list that agrees as far as both go is only extended. *)
Replaced(current, incoming) == incoming
Reconcile(current, incoming) ==
    LET shared == IF Len(current) < Len(incoming) THEN Len(current) ELSE Len(incoming)
    IN CASE \E i \in 1..shared : current[i] # incoming[i] -> incoming
         [] Len(current) >= Len(incoming)                 -> current
         [] OTHER -> current \o SubSeq(incoming, Len(current) + 1, Len(incoming))

-----------------------------------------------------------------------------
(* Requests: any may be under way twice, and answered in any order.          *)

Get(kind, key, creates) == [kind |-> kind, key |-> key, creates |-> creates]
Asked(get, twin) == [get |-> get, twin |-> twin, done |-> FALSE, copies |-> {}, ids |-> <<>>]
Issue(base, new) == base \cup {Asked(get, CHOOSE twin \in 1..MaxGets :
                       ~\E g \in base : g.get = get /\ g.twin = twin) : get \in new}
Room(base, new) == Cardinality(base) + Cardinality(new) <= MaxGets

(* Each pass of refreshRun asks for the messages and the session.           *)
Idle      == [key |-> NoKey, phase |-> "idle", ids |-> <<>>, copy |-> {}]
Pass(key) == [key |-> key, phase |-> "read", ids |-> <<>>, copy |-> {}]

Matches(event, key) == event = "connected" \/ event = key

(* What follows a change of route', lists' or latest': the selection moves,
   its messages are emptied and read, and refreshRun runs if the last event
   is about it, on an event and on a new selection alike.  l, p and g are the
   loop, its pending mark and the requests the change itself leaves.         *)
Render(l, p, g, event) ==
    LET key == Selected(route', lists')
        new == IF key \notin {selection, NoKey} THEN {Get("messages", key, FALSE)} ELSE {}
        refresh == key # NoKey /\ Matches(latest', key) /\ (event \/ key # selection)
    IN /\ Room(g, new)
       /\ selection' = key
       /\ gets' = Issue(g, new)
       /\ IF ~refresh THEN loop' = l /\ pending' = p
          ELSE IF l.phase # "idle" THEN loop' = l /\ pending' = TRUE
          ELSE loop' = Pass(key) /\ pending' = FALSE
       /\ missed' = IF key # selection THEN missed \ {key}
                    ELSE IF refresh /\ l.phase # "idle" /\ l.key # key THEN missed \cup {key}
                    ELSE missed

(* What the effects leave of the messages once the change is rendered.       *)
Emptied == selection' # selection /\ messages' = <<>> /\ failed' = FALSE
ShowUnguarded(key, ids) ==
    \/ Emptied
    \/ selection' = selection /\ messages' = Reconcile(messages, ids) /\ UNCHANGED failed
(* setMessages, if the selection the answer is for is the page's.            *)
Show(key, ids) ==
    \/ Emptied
    \/ /\ selection' = selection
       /\ messages' = IF selection = key THEN Reconcile(messages, ids) ELSE messages
       /\ UNCHANGED failed

Keep == Show(NoKey, <<>>)

-----------------------------------------------------------------------------
(* The controller.                                                         *)

AgentWrites(s) ==
    /\ Recorder /\ Exists(s) /\ clock < MaxMessages
    /\ clock' = clock + 1
    /\ log' = [log EXCEPT ![s] = Append(@, clock + 1)]
    /\ stamp' = [stamp EXCEPT ![s] = clock + 2]
    /\ \E busy \in BOOLEAN : working' = IF busy THEN working \cup {s} ELSE working \ {s}
    /\ slot' = s
    /\ missed' = missed \cup ({slot} \ {s, NoKey})
    /\ UNCHANGED <<greeting, route, lists, selection, messages, latest, loop, pending,
                   gets, failed, faults>>

(* The stream breaks with what is on it, and comes back with "connected".   *)
Reconnect ==
    /\ faults < MaxFaults /\ faults' = faults + 1
    /\ slot' = NoKey /\ greeting' = TRUE
    /\ UNCHANGED <<server, route, lists, selection, messages, latest, loop, pending,
                   gets, failed, missed>>

-----------------------------------------------------------------------------
(* The page.                                                               *)

(* The effect on page and workspace loads the sessions, and then creates one
   for a conversation that has none.                                       *)
Navigate(r) ==
    /\ r # route /\ route' = r
    /\ LET new == {Get("sessions", r.ws, r.page = "conversation")}
       IN Room(gets, new) /\ UNCHANGED <<lists, latest>>
          /\ Render(loop, pending, Issue(gets, new), FALSE)
    /\ Keep
    /\ UNCHANGED <<server, stream, faults>>

Receive ==
    LET event == IF greeting THEN "connected" ELSE slot
        ws    == IF greeting THEN route.ws ELSE WorkspaceOf[slot]
        new   == {Get("sessions", ws, FALSE)}
    IN /\ event # NoKey /\ Room(gets, new)
       /\ greeting' = FALSE /\ slot' = IF greeting THEN slot ELSE NoKey
       /\ latest' = event /\ UNCHANGED <<route, lists>>
       /\ Render(loop, pending, Issue(gets, new), TRUE)
       /\ Keep
       /\ UNCHANGED <<server, faults>>

(* loadChanges changes with the status of the workspace, and the selection
   effect with it.                                                         *)
StatusChanges ==
    /\ selection # NoKey
    /\ LET new == {Get("messages", selection, FALSE)}
       IN /\ Room(gets, new)
          /\ UNCHANGED <<route, lists, latest>>
          /\ Render(loop, pending, Issue(gets, new), TRUE)
    /\ Keep
    /\ UNCHANGED <<server, stream, faults>>

(* Sessions bounds the sessions: one more than it has is not created.        *)
Unused(w) == {s \in Sessions : WorkspaceOf[s] = w /\ ~Exists(s)}

Answer(g) ==
    /\ ~g.done
    /\ IF g.get.kind = "create" /\ Unused(g.get.key) # {}
       THEN \E s \in Unused(g.get.key) : stamp' = [stamp EXCEPT ![s] = clock + 1]
       ELSE UNCHANGED stamp
    /\ gets' = (gets \ {g}) \cup
         {[g EXCEPT !.done = TRUE,
                    !.copies = IF g.get.kind = "sessions" THEN ListOf(g.get.key) ELSE {},
                    !.ids = IF g.get.kind = "messages" THEN log[g.get.key] ELSE <<>>]}
    /\ UNCHANGED <<log, working, clock, stream, route, lists, selection, messages,
                   latest, loop, pending, failed, missed, faults>>

TakeMessages(g) ==
    /\ g.done /\ g.get.kind = "messages"
    /\ UNCHANGED <<route, lists, latest>>
    /\ Render(loop, pending, gets \ {g}, FALSE)
    /\ Show(g.get.key, g.ids)
    /\ UNCHANGED <<server, stream, faults>>

TakeSessions(g) ==
    LET new == IF g.get.creates /\ g.copies = {} THEN {Get("create", g.get.key, FALSE)} ELSE {}
    IN /\ g.done /\ g.get.kind = "sessions" /\ Room(gets \ {g}, new)
       /\ lists' = [lists EXCEPT ![g.get.key] = g.copies]
       /\ UNCHANGED <<route, latest>>
       /\ Render(loop, pending, Issue(gets \ {g}, new), FALSE)
       /\ Keep
       /\ UNCHANGED <<server, stream, faults>>

TakeCreated(g) ==
    LET new == {Get("sessions", g.get.key, FALSE)}
    IN /\ g.done /\ g.get.kind = "create" /\ Room(gets \ {g}, new)
       /\ UNCHANGED <<route, lists, latest>>
       /\ Render(loop, pending, Issue(gets \ {g}, new), FALSE)
       /\ Keep
       /\ UNCHANGED <<server, stream, faults>>

Fail(g) ==
    /\ faults < MaxFaults /\ faults' = faults + 1
    /\ gets' = gets \ {g}
    /\ failed' = (failed \/ (g.get.kind = "messages" /\ selection = g.get.key))
    /\ UNCHANGED <<server, stream, route, lists, selection, messages, latest, loop, pending, missed>>

-----------------------------------------------------------------------------
(* refreshRun: the two answers, then what it does with both, then the
   changes of a session that is not working, then the test for another pass. *)

AnswerPass ==
    /\ loop.phase = "read" /\ loop.copy = {}
    /\ loop' = [loop EXCEPT !.ids = log[loop.key], !.copy = {CopyOf(loop.key)}]
    /\ UNCHANGED <<server, stream, route, lists, selection, messages, latest,
                   pending, gets, failed, missed, faults>>

AgainNever == FALSE
Again == pending /\ selection = loop.key

UpdatedTwice(l, c) == [l EXCEPT ![WorkspaceOf[c.id]] = @ \cup {c}]
(* updateSession replaces the copy the page has, if it has one.             *)
Updated(l, c) ==
    LET w == WorkspaceOf[c.id]
    IN [l EXCEPT ![w] = {IF d.id = c.id THEN c ELSE d : d \in @}]

TakePass ==
    /\ loop.phase = "read" /\ loop.copy # {}
    /\ \E c \in loop.copy :
         /\ lists' = Updated(lists, c)
         /\ UNCHANGED <<route, latest>>
         /\ CASE ~c.working        -> Render([loop EXCEPT !.phase = "changes"], pending, gets, FALSE)
              [] c.working /\ Again  -> Render(Pass(loop.key), FALSE, gets, FALSE)
              [] c.working /\ ~Again -> Render(Idle, pending, gets, FALSE)
    /\ Show(loop.key, loop.ids)
    /\ UNCHANGED <<server, stream, faults>>

ChangesLoaded ==
    /\ loop.phase = "changes"
    /\ loop' = IF Again THEN Pass(loop.key) ELSE Idle
    /\ pending' = IF Again THEN FALSE ELSE pending
    /\ UNCHANGED <<server, stream, route, lists, selection, messages, latest, gets,
                   failed, missed, faults>>

FailPass ==
    /\ loop.phase = "read" /\ faults < MaxFaults
    /\ faults' = faults + 1
    /\ loop' = Idle
    /\ failed' = (failed \/ selection = loop.key)
    /\ UNCHANGED <<server, stream, route, lists, selection, messages, latest, pending, gets, missed>>

-----------------------------------------------------------------------------
(* Sessions may be there from before; the page opens with the stream's
   "connected" on its way.                                                 *)
Init ==
    /\ log = [s \in Sessions |-> <<>>] /\ working = {} /\ clock = 0
    /\ stamp \in [Sessions -> {0, 1}]
    /\ slot = NoKey /\ greeting = TRUE
    /\ route \in {r \in Routes : r.page = "overview"}
    /\ lists = [w \in Workspaces |-> {}]
    /\ selection = NoKey /\ messages = <<>> /\ latest = "none"
    /\ loop = Idle /\ pending = FALSE /\ gets = {}
    /\ failed = FALSE /\ missed = {} /\ faults = 0

Take(g) == TakeMessages(g) \/ TakeSessions(g) \/ TakeCreated(g)
Step    == \/ Receive \/ AnswerPass \/ TakePass \/ ChangesLoaded
           \/ \E g \in gets : Answer(g) \/ Take(g)

Next == \/ Step \/ Reconnect \/ StatusChanges \/ FailPass
        \/ \E s \in Sessions : AgentWrites(s)
        \/ \E r \in Routes : Navigate(r)
        \/ \E g \in gets : Fail(g)

Spec == Init /\ [][Next]_vars

-----------------------------------------------------------------------------
TypeOK ==
    /\ \A s \in Sessions : \A i \in DOMAIN log[s] : log[s][i] \in Ids
    /\ stamp \in [Sessions -> 0..MaxMessages + 1]
    /\ working \subseteq {s \in Sessions : Exists(s)}
    /\ slot \in Sessions \cup {NoKey}
    /\ route \in Routes
    /\ \A w \in Workspaces : lists[w] \subseteq Copy /\ \A c, d \in lists[w] : c.id = d.id => c = d
    /\ selection \in Sessions \cup {NoKey}
    /\ loop.key \in Sessions \cup {NoKey} /\ loop.phase \in {"idle", "read", "changes"}
    /\ missed \subseteq Sessions
    /\ greeting \in BOOLEAN /\ pending \in BOOLEAN /\ failed \in BOOLEAN
    /\ \A g \in gets : g.get.kind \in {"messages", "sessions", "create"}

(* Whatever is clicked while requests are under way and in whatever order they
   come back: the messages on the page are the beginning of the conversation
   of the session it has selected (loadMessages, refreshRun).               *)
ShownIsHistory ==
    IF selection = NoKey THEN messages = <<>> ELSE IsPrefix(messages, log[selection])

(* The promise of the comment in reconcileMessages: a slower, older answer
   takes nothing from the page that a newer one has shown.                  *)
NothingDisappears ==
    [][selection' = selection => IsPrefix(messages, messages')]_vars

(* A page at rest is up to date: with no request under way and no event on its
   way it shows the whole conversation, whichever notice came in the middle of
   whichever refresh (refreshPending), if none was displaced in the broker or
   came while another conversation was being refreshed, and no read failed.  *)
AtRest == gets = {} /\ loop.phase = "idle" /\ slot = NoKey /\ ~greeting

RestingPageIsCurrent ==
    AtRest /\ selection \notin missed \cup {NoKey} /\ ~failed => messages = log[selection]
=============================================================================
