------------------------------ MODULE ChatPanel ------------------------------
(***************************************************************************)
(* The chat pane of a conversation page (web/src/chat): the feed it makes of *)
(* the messages it is given (AgentActivity.tsx), the contexts it cuts them   *)
(* into (useConversationContexts.ts), its composer (ChatPane.tsx) and the     *)
(* context tray (ComposerContextControl.tsx).                                *)
(*                                                                         *)
(* The messages are what an agent's turns append: a request, calls each       *)
(* answered or not, a final text or none.  Module ConversationView has how    *)
(* they reach the page; they only grow until the session changes.            *)
(***************************************************************************)
EXTENDS Naturals, Sequences, FiniteSets, SequencesExt

CONSTANTS Sessions,
          CallIds,      \* the ids of tool calls; a later request may use one again
          MaxMessages,  \* bound on the messages of the conversation
          MaxContexts,  \* bound on the past conversations
          MaxSends      \* bound on the sends under way

ASSUME ChatAssumption ==
    /\ MaxMessages \in Nat /\ MaxContexts \in Nat /\ MaxSends \in Nat
    /\ Sessions # {}

VARIABLES
    session,    \* props.session
    working,    \* props.workspaceSessions: those whose status is working
    messages,   \* props.messages
    start,      \* activeStartIndex
    history,    \* the past conversations, the latest first
    viewing,    \* viewingHistoryID; 0 for none
    draft,      \* the composer has a text
    taskMode,   \* the text is to become a task
    sends,      \* calls of onSend under way
    tray,       \* the context tray is open
    compact     \* its compactState

composer == <<draft, taskMode, sends>>
contexts == <<start, history, viewing>>
control  == <<tray, compact>>
given    == <<session, working, messages>>
chatVars == <<session, working, messages, start, history, viewing,
              draft, taskMode, sends, tray, compact>>

-----------------------------------------------------------------------------
(* Messages.                                                               *)

Message(id, role, calls) == [id |-> id, role |-> role, calls |-> calls]
Talks(m) == m.role \in {"user", "assistant"}

CallLists == {<<c>> : c \in CallIds} \cup {<<c, d>> : c, d \in CallIds}

(* What the agent has called for the request it works on, and not answered.  *)
Turn(list) == LET spoken == {i \in DOMAIN list : Talks(list[i])}
              IN {i \in DOMAIN list : \A j \in spoken : j < i}
Called(list)   == UNION {ToSet(list[i].calls) : i \in {j \in Turn(list) : list[j].role = "calls"}}
Answered(list) == UNION {ToSet(list[i].calls) : i \in {j \in Turn(list) : list[j].role = "tool"}}

(* A user may interrupt, the agent calls and answers in turn.                *)
Continuations(list) ==
    LET id == Len(list) + 1
        pending == Called(list) \ Answered(list)
    IN {Message(id, "user", <<>>)} \cup
       IF list = <<>> \/ Last(list).role = "assistant" THEN {}
       ELSE IF pending # {} THEN {Message(id, "tool", <<c>>) : c \in pending}
       ELSE {Message(id, "assistant", <<>>)} \cup
            {Message(id, "calls", calls) : calls \in
                {l \in CallLists : IsInjective(l) /\ ToSet(l) \cap Called(list) = {}}}

-----------------------------------------------------------------------------
(* buildConversationFeed: one pass over the messages, with the activity that
   is open, if any, and the request it is for.                             *)

MessageItem(m) == [kind |-> "message", id |-> m.id, closed |-> TRUE, completed |-> FALSE,
                   steps |-> <<>>]
Activity(request) == [kind |-> "activity", id |-> request, closed |-> FALSE,
                      completed |-> FALSE, steps |-> <<>>]

Opened(f) == IF f.open # 0 THEN f
             ELSE [f EXCEPT !.items = Append(@, Activity(f.request)),
                            !.open = Len(f.items) + 1]
Closed(f, completed) ==
    IF f.open = 0 THEN f
    ELSE [f EXCEPT !.items[f.open].closed = TRUE, !.items[f.open].completed = completed,
                   !.open = 0]

Step(call) == [call |-> call, result |-> 0]
WithCalls(steps, calls) ==
    FoldLeft(LAMBDA known, call :
                 IF \E i \in DOMAIN known : known[i].call = call THEN known
                 ELSE Append(known, Step(call)), steps, calls)
WithResult(steps, m) ==
    [i \in DOMAIN steps |-> IF steps[i].call \in ToSet(m.calls)
                            THEN [steps[i] EXCEPT !.result = m.id] ELSE steps[i]]

ReadUserKeepsOpen(f, m) == [f EXCEPT !.items = Append(@, MessageItem(m)), !.request = m.id]
ReadUser(f, m) == [Closed(f, FALSE) EXCEPT !.items = Append(@, MessageItem(m)),
                                           !.request = m.id]
ReadCalls(f, m) == LET g == Opened(f)
                   IN [g EXCEPT !.items[g.open].steps = WithCalls(@, m.calls)]
ReadResult(f, m) == IF f.open = 0 THEN f
                    ELSE [f EXCEPT !.items[f.open].steps = WithResult(@, m)]
ReadText(f, m) == [Closed(f, TRUE) EXCEPT !.items = Append(@, MessageItem(m))]

ReadMessage(f, m) ==
    CASE m.role = "user"      -> ReadUser(f, m)
      [] m.role = "calls"     -> ReadCalls(f, m)
      [] m.role = "tool"      -> ReadResult(f, m)
      [] m.role = "assistant" -> ReadText(f, m)

Feed(list) == FoldLeft(ReadMessage, [items |-> <<>>, open |-> 0, request |-> 0], list).items

-----------------------------------------------------------------------------
(* What the pane shows.                                                    *)

ActiveMessages == SubSeq(messages, start + 1, Len(messages))
(* find: the ids are all different.                                          *)
Entry(id) == history[CHOOSE i \in DOMAIN history : history[i].id = id]
Displayed == IF viewing = 0 THEN ActiveMessages ELSE Entry(viewing).messages

CurrentSessionWorking == session \in working
(* A workspace that is not ready disables the composer too, at any time: a
   step of it that is not taken.                                           *)
Enabled == working = {}
(* activeMessages.filter(isConversationMessage).length                      *)
MessageCount == Len(SelectSeq(ActiveMessages, Talks))

StateOfOpen(item) == IF item.completed THEN "completed"
                     ELSE IF CurrentSessionWorking THEN "working" ELSE "idle"
ActivityState(item) == IF item.completed THEN "completed"
                       ELSE IF item.closed THEN "idle"
                       ELSE IF CurrentSessionWorking THEN "working" ELSE "idle"

Activities == LET feed == Feed(Displayed) IN {i \in DOMAIN feed : feed[i].kind = "activity"}
ShowStarting ==
    /\ CurrentSessionWorking
    /\ \A i \in Activities : Feed(Displayed)[i].closed
    /\ Displayed # <<>> /\ Last(Displayed).role = "user"

-----------------------------------------------------------------------------
(* What the pane is given.                                                  *)

(* The effect on props.session.id; the tray is keyed by it.                 *)
ContextsReset == start' = 0 /\ history' = <<>> /\ viewing' = 0
ControlReset  == tray' = FALSE /\ compact' = "idle"

MessageArrives ==
    /\ Len(messages) < MaxMessages
    /\ \E m \in Continuations(messages) : messages' = Append(messages, m)
    /\ UNCHANGED <<session, working, contexts, composer, control>>

(* The page is about the working session if there is one.                   *)
SessionsChange ==
    /\ working' \in {{}} \cup {{s} : s \in Sessions}
    /\ session' \in (IF working' = {} THEN Sessions ELSE working')
    /\ IF session' = session
       THEN UNCHANGED <<messages, contexts, draft, control>>
       ELSE messages' = <<>> /\ ContextsReset /\ draft' = FALSE /\ ControlReset
    /\ UNCHANGED <<taskMode, sends>>

-----------------------------------------------------------------------------
(* The composer: there is none while a past conversation is shown.           *)

Composing == viewing = 0

TypeMessage ==
    /\ Composing /\ Enabled /\ draft' = ~draft
    /\ UNCHANGED <<given, contexts, taskMode, sends, control>>

SubmitTask ==
    /\ Composing /\ Enabled /\ draft /\ taskMode
    /\ draft' = FALSE /\ taskMode' = FALSE
    /\ UNCHANGED <<given, contexts, sends, control>>

(* The text stays until the request is answered, and nothing bars another.   *)
SubmitMessage ==
    /\ Composing /\ Enabled /\ draft /\ ~taskMode /\ sends < MaxSends
    /\ sends' = sends + 1
    /\ UNCHANGED <<given, contexts, draft, taskMode, control>>

SendAnswered ==
    /\ sends > 0 /\ sends' = sends - 1
    /\ \E sent \in BOOLEAN : draft' = (draft /\ ~sent)
    /\ UNCHANGED <<given, contexts, taskMode, control>>

(* The tray's effect on taskMode closes it, its opening ends the task mode.  *)
ToggleTaskMode ==
    /\ Composing /\ taskMode' = ~taskMode
    /\ tray' = (tray /\ ~taskMode')
    /\ UNCHANGED <<given, contexts, draft, sends, compact>>

TellsNobody == UNCHANGED taskMode
TellsOpening == taskMode' = (taskMode /\ ~tray')
ToggleTray ==
    /\ Composing /\ tray' = ~tray
    /\ TellsOpening
    /\ UNCHANGED <<given, contexts, draft, sends, compact>>

-----------------------------------------------------------------------------
(* The tray.                                                               *)

ActionEnabled == tray /\ Enabled /\ MessageCount > 0 /\ compact = "idle"

StartAfterShown == Len(messages) - start
NextStart == Len(messages)
StartFresh ==
    /\ Composing /\ ActionEnabled /\ Len(history) < MaxContexts
    /\ history' = <<[id |-> Len(history) + 1, messages |-> ActiveMessages]>> \o history
    /\ start' = NextStart /\ viewing' = 0
    /\ ControlReset
    /\ UNCHANGED <<given, composer>>

Compact ==
    /\ Composing /\ ActionEnabled /\ compact' = "working"
    /\ UNCHANGED <<given, contexts, composer, tray>>

CompactTimer ==
    /\ \/ compact = "working" /\ compact' = "done" /\ UNCHANGED tray
       \/ compact = "done" /\ compact' = "idle" /\ tray' = FALSE
    /\ UNCHANGED <<given, contexts, composer>>

(* The composer goes, and its tray and timers with it.                      *)
ViewHistory ==
    /\ Composing /\ tray
    /\ \E i \in DOMAIN history : viewing' = history[i].id
    /\ ControlReset
    /\ UNCHANGED <<given, start, history, composer>>

ReturnToCurrent ==
    /\ viewing # 0 /\ viewing' = 0
    /\ UNCHANGED <<given, start, history, composer, control>>

-----------------------------------------------------------------------------
ChatInit ==
    /\ session \in Sessions /\ working = {} /\ messages = <<>>
    /\ start = 0 /\ history = <<>> /\ viewing = 0
    /\ draft = FALSE /\ taskMode = FALSE /\ sends = 0
    /\ tray = FALSE /\ compact = "idle"

(* The pane goes with its page; what it is given is forgotten till it is back. *)
ChatUnmounted ==
    /\ messages' = <<>> /\ ContextsReset /\ ControlReset
    /\ draft' = FALSE /\ taskMode' = FALSE /\ sends' = 0
    /\ working' = {} /\ UNCHANGED session

ChatNext == \/ MessageArrives \/ SessionsChange
            \/ TypeMessage \/ SubmitMessage \/ SendAnswered
            \/ ToggleTaskMode \/ ToggleTray
            \/ StartFresh \/ Compact \/ CompactTimer \/ ViewHistory \/ ReturnToCurrent

-----------------------------------------------------------------------------
ChatTypeOK ==
    /\ session \in Sessions /\ working \subseteq Sessions
    /\ start \in 0..Len(messages) /\ Len(history) <= MaxContexts
    /\ viewing = 0 \/ \E i \in DOMAIN history : history[i].id = viewing
    /\ draft \in BOOLEAN /\ taskMode \in BOOLEAN /\ sends \in 0..MaxSends
    /\ ~(tray /\ taskMode)
    /\ compact \in {"idle", "working", "done"}

(* Nothing said is hidden, and nothing shown twice: however often a fresh
   conversation is started, the past ones and the current one together are
   the conversation (startFresh).                                          *)
NothingHidden ==
    FoldLeft(LAMBDA after, e : e.messages \o after, ActiveMessages, history) = messages

(* How many of a set of numbers there are up to i.                          *)
CountTo(set, i) == Cardinality({j \in set : j <= i})

(* What the feed of a list is, without the pass: every text once, in order,
   and between two of them at most one activity, whose steps are the calls
   made between them, each with its own answer.  It is closed when a text
   follows, and completed when that is the agent's.                        *)
FeedOf(list, feed) ==
    LET said    == {j \in DOMAIN list : Talks(list[j])}
        texts   == {k \in DOMAIN feed : feed[k].kind = "message"}
        groups  == DOMAIN feed \ texts
        Gap(i)  == CountTo(said, i)
        Place(k) == CountTo(texts, k)
        CallsIn(gap) == {j \in DOMAIN list : list[j].role = "calls" /\ Gap(j) = gap}
        AnswersIn(gap, c) == {list[j].id : j \in
            {i \in DOMAIN list : list[i].role = "tool" /\ list[i].calls = <<c>> /\ Gap(i) = gap}}
    IN /\ {<<Place(k), feed[k]>> : k \in texts}
              = {<<Gap(j), MessageItem(list[j])>> : j \in said}
       /\ {Place(k) : k \in groups} = {Gap(j) : j \in {i \in DOMAIN list : list[i].role = "calls"}}
       /\ \A k \in groups :
            /\ feed[k].kind = "activity"
            /\ \A l \in groups : Place(k) = Place(l) => k = l
            /\ {feed[k].steps[i].call : i \in DOMAIN feed[k].steps}
                   = UNION {ToSet(list[j].calls) : j \in CallsIn(Place(k))}
            /\ \A i \in DOMAIN feed[k].steps :
                   feed[k].steps[i].result \in
                       (LET answers == AnswersIn(Place(k), feed[k].steps[i].call)
                        IN IF answers = {} THEN {0} ELSE answers)
            /\ feed[k].closed = (Place(k) < Cardinality(said))
            /\ feed[k].completed =
                   \E j \in said : Gap(j) = Place(k) + 1 /\ list[j].role = "assistant"

(* Whatever order requests, interruptions, calls and answers come in, and
   though a later request uses the id of an earlier call again, the pane shows
   each command where it was asked for, with its own output.               *)
FeedIsFaithful == FeedOf(Displayed, Feed(Displayed))

(* A conversation shows one activity as working, and only while the session
   works (activityRunState, showStartingActivity); those of interrupted
   requests above it do not come to life again.  A past conversation that was
   left with an open activity is another matter.                           *)
OneActivityWorks ==
    LET lively == {i \in Activities : ActivityState(Feed(Displayed)[i]) = "working"}
    IN Composing => Cardinality(lively) + (IF ShowStarting THEN 1 ELSE 0)
                        <= (IF CurrentSessionWorking THEN 1 ELSE 0)
=============================================================================
