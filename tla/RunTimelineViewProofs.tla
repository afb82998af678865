------------------------- MODULE RunTimelineViewProofs -------------------------
(***************************************************************************)
(* Proofs about RunTimelineView, for any number of sessions, rooms, steps,   *)
(* loads and faults: its types, and that a timeline at rest is current.     *)
(***************************************************************************)
EXTENDS RunTimelineView, FiniteSetTheorems, TLAPS

(* A list names rooms that exist, and none twice.                           *)
ListOK(list) ==
    /\ list \subseteq Shown
    /\ \A run \in list : run.id \in DOMAIN rooms
    /\ \A one, other \in list : one.id = other.id => one = other

Load == [session : Sessions, twin : Nat,
         phase : {"list", "listed", "steps", "stepped"},
         list : SUBSET Shown, steps : Journal, at : 0..MaxMoves]

(* What a load has read, it read of rooms that exist; what it read last is  *)
(* what they are.                                                          *)
LoadOK(l) ==
    /\ l \in Load
    /\ l.at <= clock
    /\ ListOK(l.list)
    /\ l.phase \in {"steps", "stepped"} => l.steps.run \in DOMAIN rooms
    /\ l.phase = "listed" /\ l.at = clock => l.list = RunsOf(l.session)
    /\ l.phase = "stepped" /\ l.at = clock =>
          l.steps.count = rooms[l.steps.run].steps

ActOK ==
    /\ act \in [run : 1..MaxRuns \cup {NoRun}, action : {"none", "stop", "pause", "continue"},
                phase : {"idle", "request", "answered"},
                state : States \cup {"none"}, at : 0..MaxMoves]
    /\ act.phase = "idle" => act = NoAct
    /\ act.phase # "idle" => act.run \in DOMAIN rooms
    /\ act.phase = "answered" => act.state \in States /\ act.at <= clock
    /\ act.phase = "answered" /\ act.at = clock => act.state = rooms[act.run].state

RoomsOK == \E n \in 0..MaxRuns : rooms \in [1..n -> Room]

PageOK ==
    /\ session \in Sessions /\ error \in BOOLEAN
    /\ ListOK(runs) /\ ListOK(active)
    /\ active = {} \/ \E run \in active : active = {run}
    /\ steps \in Journal
    /\ tangled \subseteq {"runs", "steps"}
    /\ asOf \in 0..MaxMoves /\ asOf <= clock

IInv ==
    /\ RoomsOK
    /\ clock \in 0..MaxMoves /\ slot \in {"none", "here", "elsewhere"}
    /\ PageOK
    /\ ActOK
    /\ IsFiniteSet(loads) /\ \A l \in loads : LoadOK(l)
    /\ owed \in BOOLEAN

-----------------------------------------------------------------------------
(* Lists of rooms.                                                         *)

LEMMA RoomAt ==
    ASSUME RoomsOK, NEW r \in DOMAIN rooms
    PROVE  r \in 1..MaxRuns /\ rooms[r] \in Room
<1>1. PICK n \in 0..MaxRuns : rooms \in [1..n -> Room]
  BY DEF RoomsOK
<1>2. r \in 1..n
  BY <1>1
<1>. QED  BY <1>1, <1>2, TimelineAssumption

(* What the server lists.                                                  *)
LEMMA RunsOfOK == ASSUME RoomsOK, NEW s PROVE ListOK(RunsOf(s))
<1>1. \A r \in DOMAIN rooms : [id |-> r, state |-> rooms[r].state] \in Shown
  BY RoomAt DEF Room, Shown
<1>2. \A run \in RunsOf(s) : /\ run \in Shown
                             /\ run.id \in DOMAIN rooms
                             /\ run = [id |-> run.id, state |-> rooms[run.id].state]
  BY <1>1 DEF RunsOf
<1>. QED  BY <1>2 DEF ListOK

(* Part of a list is one.                                                  *)
LEMMA PartOK == ASSUME NEW list, NEW part \in SUBSET list, ListOK(list) PROVE ListOK(part)
BY DEF ListOK

(* The page finds one active room, or none.                                *)
LEMMA ActiveOfOK ==
    ASSUME NEW list, ListOK(list)
    PROVE  /\ ListOK(ActiveOf(list))
           /\ ActiveOf(list) = {} \/ \E run \in ActiveOf(list) : ActiveOf(list) = {run}
<1>1. \A part \in SUBSET list : Newest(part) \subseteq list
  BY DEF Newest
<1>2. ASSUME NEW part \in SUBSET list, NEW one \in Newest(part), NEW other \in Newest(part)
      PROVE  one = other
  <2>1. one.id \in 1..MaxRuns /\ other.id \in 1..MaxRuns
    BY <1>1 DEF ListOK, Shown
  <2>2. one.id <= other.id /\ other.id <= one.id
    BY DEF Newest
  <2>3. one.id = other.id
    BY <2>1, <2>2
  <2>. QED  BY <1>1, <2>3 DEF ListOK
<1>3. \E part \in SUBSET list : ActiveOf(list) = Newest(part)
  BY DEF ActiveOf
<1>4. ActiveOf(list) \subseteq list
  BY <1>1, <1>3
<1>5. \A one, other \in ActiveOf(list) : one = other
  BY <1>2, <1>3
<1>. HIDE DEF Newest
<1>. QED  BY <1>4, <1>5, PartOK

(* Rooms are only added.                                                   *)
LEMMA ListStays ==
    ASSUME NEW list, ListOK(list), DOMAIN rooms \subseteq DOMAIN rooms'
    PROVE  ListOK(list)'
BY DEF ListOK
-----------------------------------------------------------------------------
(* Loads.                                                                  *)

LEMMA NewLoadOK ==
    ASSUME IInv, NEW s \in Sessions, NEW t \in Nat
    PROVE  LoadOK(NewLoad(s, t)) /\ NewLoad(s, t).phase = "list" /\ NewLoad(s, t).session = s
<1>1. NoSteps \in Journal
  BY TimelineAssumption DEF NoSteps, Journal
<1>2. NewLoad(s, t) \in Load
  BY <1>1, TimelineAssumption DEF NewLoad, Load
<1>3. NewLoad(s, t).list = {} /\ NewLoad(s, t).phase = "list" /\ NewLoad(s, t).at = 0
        /\ NewLoad(s, t).session = s
  BY DEF NewLoad
<1>4. 0 <= clock
  BY TimelineAssumption DEF IInv
<1>. QED  BY <1>2, <1>3, <1>4 DEF LoadOK, ListOK

(* A twin is free while fewer loads are under way than may be.              *)
LEMMA StartLoadOK ==
    ASSUME IInv, UNCHANGED <<rooms, clock>>, NEW s \in Sessions, StartLoad(s)
    PROVE  /\ IsFiniteSet(loads') /\ \A l \in loads' : LoadOK(l)
           /\ loads \subseteq loads'
           /\ \E l \in loads' : l.phase = "list" /\ l.session = s
<1>. DEFINE taken == {l.twin : l \in loads}
            t == CHOOSE x \in 1..MaxLoads : x \notin taken
<1>1. IsFiniteSet(loads) /\ MaxLoads \in Nat
  BY TimelineAssumption DEF IInv
<1>2. IsFiniteSet(taken) /\ Cardinality(taken) <= Cardinality(loads)
  <2>. DEFINE f == [l \in loads |-> l.twin]
  <2>1. f \in Surjection(loads, taken)
    BY DEF Surjection
  <2>. HIDE DEF f, taken
  <2>. QED  BY <1>1, <2>1, FS_Surjection
<1>3. \E x \in 1..MaxLoads : x \notin taken
  <2>1. SUFFICES ASSUME 1..MaxLoads \subseteq taken PROVE FALSE
    OBVIOUS
  <2>2. Cardinality(1..MaxLoads) = MaxLoads
    BY <1>1, FS_Interval
  <2>3. Cardinality(1..MaxLoads) <= Cardinality(taken)
    BY <1>2, <2>1, FS_Subset
  <2>4. Cardinality(loads) < MaxLoads
    BY DEF StartLoad
  <2>5. Cardinality(loads) \in Nat /\ Cardinality(taken) \in Nat
    BY <1>1, <1>2, FS_CardinalityType
  <2>. QED  BY <1>1, <1>2, <2>2, <2>3, <2>4, <2>5
<1>4. t \in 1..MaxLoads
  BY <1>3
<1>5. loads' = loads \cup {NewLoad(s, t)}
  BY DEF StartLoad
<1>. HIDE DEF t
<1>6. LoadOK(NewLoad(s, t)) /\ NewLoad(s, t).phase = "list" /\ NewLoad(s, t).session = s
  BY <1>4, NewLoadOK
<1>7. IsFiniteSet(loads')
  BY <1>1, <1>5, FS_AddElement
<1>. QED  BY <1>5, <1>6, <1>7 DEF IInv

(* What a load becomes when the list, or the steps, are answered, and when  *)
(* its list is taken.                                                      *)
LEMMA ListedLoad ==
    ASSUME IInv, NEW l \in loads,
           NEW x, x = [l EXCEPT !.phase = "listed", !.list = RunsOf(l.session), !.at = clock]
    PROVE  /\ LoadOK(x) /\ x.phase = "listed" /\ x.session = l.session /\ x.at = clock
<1>1. l \in Load /\ clock \in 0..MaxMoves /\ RoomsOK
  BY DEF IInv, LoadOK
<1>2. /\ x.phase = "listed" /\ x.session = l.session /\ x.at = clock
      /\ x.list = RunsOf(l.session)
  BY <1>1 DEF Load
<1>3. ListOK(RunsOf(l.session))
  BY <1>1, RunsOfOK
<1>4. x \in Load
  BY <1>1, <1>3 DEF Load, ListOK
<1>. QED  BY <1>1, <1>2, <1>3, <1>4, TimelineAssumption DEF LoadOK

LEMMA SteppedLoad ==
    ASSUME IInv, NEW l \in loads, l.phase = "steps",
           NEW x, x = [l EXCEPT !.phase = "stepped", !.at = clock,
                                !.steps.count = rooms[l.steps.run].steps]
    PROVE  /\ LoadOK(x) /\ x.phase = "stepped" /\ x.steps.run = l.steps.run /\ x.at = clock
           /\ x.session = l.session
<1>1. l \in Load /\ clock \in 0..MaxMoves /\ RoomsOK /\ l.steps.run \in DOMAIN rooms
      /\ ListOK(l.list)
  BY DEF IInv, LoadOK
<1>2. l.steps.run \in 1..MaxRuns /\ rooms[l.steps.run].steps \in 0..MaxSteps
  BY <1>1, RoomAt DEF Room
<1>3. l.steps \in Journal
  BY <1>1 DEF Load
<1>. DEFINE j == [l.steps EXCEPT !.count = rooms[l.steps.run].steps]
<1>4. j \in Journal /\ j.run = l.steps.run /\ j.count = rooms[l.steps.run].steps
  BY <1>2, <1>3 DEF Journal
<1>5. x = [l EXCEPT !.phase = "stepped", !.at = clock, !.steps = j]
  BY <1>1 DEF Load
<1>. HIDE DEF j
<1>6. /\ x.phase = "stepped" /\ x.steps = j /\ x.at = clock
      /\ x.list = l.list /\ x.session = l.session
  BY <1>1, <1>5 DEF Load
<1>7. x \in Load
  BY <1>1, <1>4, <1>5 DEF Load
<1>. QED  BY <1>1, <1>4, <1>6, <1>7, TimelineAssumption DEF LoadOK

LEMMA AskedLoad ==
    ASSUME IInv, NEW l \in loads, NEW r \in DOMAIN rooms,
           NEW x, x = [l EXCEPT !.phase = "steps", !.list = {}, !.steps.run = r]
    PROVE  LoadOK(x) /\ x.phase = "steps" /\ x.steps.run = r /\ x.session = l.session
<1>1. l \in Load /\ RoomsOK /\ l.at <= clock
  BY DEF IInv, LoadOK
<1>2. r \in 1..MaxRuns
  BY <1>1, RoomAt
<1>3. l.steps \in Journal
  BY <1>1 DEF Load
<1>. DEFINE j == [l.steps EXCEPT !.run = r]
<1>4. j \in Journal /\ j.run = r
  BY <1>2, <1>3 DEF Journal
<1>5. x = [l EXCEPT !.phase = "steps", !.list = {}, !.steps = j]
  BY <1>1 DEF Load
<1>. HIDE DEF j
<1>6. x.phase = "steps" /\ x.steps = j /\ x.at = l.at /\ x.list = {} /\ x.session = l.session
  BY <1>1, <1>5 DEF Load
<1>7. x \in Load
  BY <1>1, <1>4, <1>5 DEF Load
<1>. QED  BY <1>1, <1>4, <1>6, <1>7 DEF LoadOK, ListOK

(* A load gives way to what it becomes.                                     *)
LEMMA ReplaceLoad ==
    ASSUME IInv, NEW l \in loads, NEW x, LoadOK(x), loads' = (loads \ {l}) \cup {x}
    PROVE  IsFiniteSet(loads') /\ \A m \in loads' : LoadOK(m)
<1>1. IsFiniteSet(loads \ {l})
  BY FS_RemoveElement DEF IInv
<1>2. IsFiniteSet(loads')
  BY <1>1, FS_AddElement
<1>. QED  BY <1>2 DEF IInv

LEMMA DropLoad ==
    ASSUME IInv, NEW l \in loads, loads' = loads \ {l}
    PROVE  IsFiniteSet(loads') /\ \A m \in loads' : LoadOK(m)
BY FS_RemoveElement DEF IInv
-----------------------------------------------------------------------------
(* Types.                                                                  *)

LEMMA InitIInv == Init => IInv
<1>. SUFFICES ASSUME Init PROVE IInv
  OBVIOUS
<1>. USE TimelineAssumption
<1>1. rooms \in [1..0 -> Room] /\ 0 \in 0..MaxRuns /\ 0 \in 0..MaxMoves
  BY DEF Init
<1>2. RoomsOK
  BY <1>1 DEF RoomsOK
<1>3. NoSteps \in Journal
  BY DEF NoSteps, Journal
<1>4. PageOK
  <2>1. session \in Sessions /\ error \in BOOLEAN /\ runs = {} /\ active = {}
    BY DEF Init
  <2>2. steps \in Journal /\ tangled = {} /\ asOf = 0 /\ clock = 0
    BY <1>3 DEF Init
  <2>3. ListOK(runs) /\ ListOK(active)
    BY <2>1 DEF ListOK
  <2>. QED  BY <2>1, <2>2, <2>3 DEF PageOK
<1>5. ActOK
  BY <1>1 DEF Init, ActOK, NoAct
<1>. DEFINE first == NewLoad(session, 1)
<1>6. /\ first \in Load /\ first.list = {} /\ first.phase = "list" /\ first.at = 0
  BY <1>1, <1>3 DEF Init, NewLoad, Load
<1>7. LoadOK(first)
  BY <1>6 DEF LoadOK, ListOK, Init
<1>. HIDE DEF first
<1>8. loads = {first}
  BY DEF Init, first
<1>9. IsFiniteSet(loads) /\ \A l \in loads : LoadOK(l)
  BY <1>7, <1>8, FS_Singleton
<1>. QED  BY <1>1, <1>2, <1>4, <1>5, <1>9 DEF Init, IInv

(* A change of the server leaves what the page has and has read, which is   *)
(* now of the past.                                                        *)
LEMMA ServerMoves ==
    ASSUME IInv, Moves, RoomsOK', DOMAIN rooms \subseteq DOMAIN rooms',
           UNCHANGED <<view, loads, asOf, tangled>>,
           slot' \in {"none", "here", "elsewhere"}, owed' \in BOOLEAN, ActOK'
    PROVE  IInv'
<1>1. clock' \in 0..MaxMoves /\ clock < clock' /\ clock \in 0..MaxMoves
  BY TimelineAssumption DEF Moves, IInv
<1>2. asOf \in Nat /\ asOf <= clock
  BY TimelineAssumption DEF IInv, PageOK
<1>3. PageOK'
  BY <1>1, <1>2, ListStays, TimelineAssumption DEF IInv, PageOK, view
<1>4. ASSUME NEW l \in loads' PROVE LoadOK(l)'
  <2>1. LoadOK(l) /\ l.at \in 0..MaxMoves
    BY <1>4 DEF IInv, LoadOK, Load
  <2>2. l.at <= clock' /\ l.at # clock'
    BY <1>1, <2>1, TimelineAssumption DEF LoadOK
  <2>3. ListOK(l.list)'
    BY <2>1, ListStays DEF LoadOK
  <2>. QED  BY <2>1, <2>2, <2>3 DEF LoadOK, Load
<1>. QED  BY <1>1, <1>3, <1>4 DEF IInv

(* An action under way stays what it is while the clock moves.              *)
LEMMA ActStays ==
    ASSUME IInv, Moves, DOMAIN rooms \subseteq DOMAIN rooms', UNCHANGED act
    PROVE  ActOK'
<1>1. clock' \in 0..MaxMoves /\ clock < clock' /\ clock \in 0..MaxMoves
  BY TimelineAssumption DEF Moves, IInv
<1>2. act.at \in 0..MaxMoves
  BY DEF IInv, ActOK
<1>3. act.at <= clock => act.at <= clock' /\ act.at # clock'
  BY <1>1, <1>2, TimelineAssumption
<1>. QED  BY <1>3 DEF IInv, ActOK

(* Nothing on the server moves.                                             *)
LEMMA PageMoves ==
    ASSUME IInv, UNCHANGED <<rooms, clock>>, PageOK', ActOK',
           IsFiniteSet(loads'), \A l \in loads' : LoadOK(l),
           slot' \in {"none", "here", "elsewhere"}, owed' \in BOOLEAN
    PROVE  IInv'
<1>1. \A l : LoadOK(l)' <=> LoadOK(l)
  BY DEF LoadOK, ListOK, RunsOf
<1>2. RoomsOK'
  BY DEF IInv, RoomsOK
<1>. QED  BY <1>1, <1>2 DEF IInv

LEMMA PageStays ==
    ASSUME IInv, UNCHANGED <<rooms, clock, runs, active, steps, asOf, tangled>>,
           session' \in Sessions, error' \in BOOLEAN
    PROVE  PageOK'
BY DEF IInv, PageOK, ListOK

LEMMA ActUnmoved == ASSUME IInv, UNCHANGED <<rooms, clock, act>> PROVE ActOK'
BY DEF IInv, ActOK

(* What an answer marks.                                                    *)
LEMMA MarkOK ==
    ASSUME IInv, NEW part \in {"runs", "steps"}, NEW wrong, Mark(part, wrong)
    PROVE  tangled' \subseteq {"runs", "steps"}
BY DEF Mark, IInv, PageOK

LEMMA LaterOK ==
    ASSUME IInv, NEW at \in 0..MaxMoves, at <= clock, Later(at)
    PROVE  /\ asOf' \in 0..MaxMoves /\ asOf' <= clock
           /\ asOf = clock \/ at = clock => asOf' = clock
BY TimelineAssumption DEF Later, IInv, PageOK

LEMMA EnqueueTypes == ASSUME IInv, NEW s \in Sessions, EnqueueRun(s) PROVE IInv'
<1>1. PICK n \in 0..MaxRuns : rooms \in [1..n -> Room]
  BY DEF IInv, RoomsOK
<1>2. Cardinality(DOMAIN rooms) = n /\ n < MaxRuns /\ n \in Nat
  <2>1. DOMAIN rooms = 1..n /\ n \in Nat
    BY <1>1, TimelineAssumption
  <2>2. Cardinality(1..n) = n
    BY <2>1, FS_Interval
  <2>. QED  BY <2>1, <2>2 DEF EnqueueRun
<1>3. /\ rooms' = [q \in 1..(n + 1) |-> IF q = n + 1
                                        THEN [of |-> s, state |-> "queued", steps |-> 0]
                                        ELSE rooms[q]]
      /\ n + 1 \in 0..MaxRuns
  BY <1>2, TimelineAssumption DEF EnqueueRun
<1>4. [of |-> s, state |-> "queued", steps |-> 0] \in Room
  BY TimelineAssumption DEF Room, States, Going
<1>5. \A q \in 1..(n + 1) : q # n + 1 => q \in 1..n
  BY <1>2
<1>6. rooms' \in [1..(n + 1) -> Room]
  BY <1>1, <1>3, <1>4, <1>5
<1>7. RoomsOK'
  BY <1>3, <1>6 DEF RoomsOK, Room
<1>8. DOMAIN rooms \subseteq DOMAIN rooms'
  BY <1>1, <1>2, <1>6
<1>9. ActOK'
  BY <1>8, ActStays DEF EnqueueRun
<1>. QED
  BY <1>7, <1>8, <1>9, ServerMoves DEF EnqueueRun, RunChanged, Publish, IInv

(* A room that exists changes.                                             *)
LEMMA RoomChanges ==
    ASSUME RoomsOK, NEW r \in DOMAIN rooms, NEW room \in Room,
           rooms' = [rooms EXCEPT ![r] = room]
    PROVE  RoomsOK' /\ DOMAIN rooms' = DOMAIN rooms /\ rooms'[r] = room
<1>1. PICK n \in 0..MaxRuns : rooms \in [1..n -> Room]
  BY DEF RoomsOK
<1>2. rooms' \in [1..n -> Room]
  BY <1>1
<1>3. RoomsOK'
  BY <1>2 DEF RoomsOK, Room
<1>. QED  BY <1>1, <1>3

LEMMA WorkerTypes == ASSUME IInv, NEW r \in DOMAIN rooms, WorkerMoves(r) PROVE IInv'
<1>1. rooms[r] \in Room
  BY RoomAt DEF IInv
<1>2. PICK room \in Room : rooms' = [rooms EXCEPT ![r] = room]
  <2>1. CASE rooms' = [rooms EXCEPT ![r].state = "running"]
    <3>1. [rooms[r] EXCEPT !.state = "running"] \in Room
      BY <1>1 DEF Room, States, Going
    <3>. QED  BY <2>1, <3>1
  <2>2. CASE rooms[r].steps < MaxSteps /\ rooms' = [rooms EXCEPT ![r].steps = @ + 1]
    <3>1. [rooms[r] EXCEPT !.steps = @ + 1] \in Room
      BY <1>1, <2>2, TimelineAssumption DEF Room
    <3>. QED  BY <2>2, <3>1
  <2>3. CASE rooms' = [rooms EXCEPT ![r].state = "ended"]
    <3>1. [rooms[r] EXCEPT !.state = "ended"] \in Room
      BY <1>1 DEF Room, States
    <3>. QED  BY <2>3, <3>1
  <2>. QED  BY <2>1, <2>2, <2>3 DEF WorkerMoves
<1>3. RoomsOK' /\ DOMAIN rooms' = DOMAIN rooms
  BY <1>2, RoomChanges DEF IInv
<1>4. ActOK'
  BY <1>3, ActStays DEF WorkerMoves
<1>. QED  BY <1>3, <1>4, ServerMoves DEF WorkerMoves, IInv

LEMMA ActionTypes == ASSUME IInv, HandleAction PROVE IInv'
<1>. DEFINE after == StateAfter(act.action, rooms[act.run].state)
<1>1. act.run \in DOMAIN rooms /\ rooms[act.run] \in Room
  BY RoomAt DEF IInv, ActOK, HandleAction
<1>2. after \in States
  BY <1>1 DEF StateAfter, Room, States, Going
<1>3. /\ rooms' = [rooms EXCEPT ![act.run].state = after]
      /\ act' = [act EXCEPT !.phase = "answered", !.state = after, !.at = clock']
  BY DEF HandleAction
<1>. HIDE DEF after
<1>4. [rooms[act.run] EXCEPT !.state = after] \in Room
      /\ [rooms[act.run] EXCEPT !.state = after].state = after
  BY <1>1, <1>2 DEF Room
<1>5. /\ RoomsOK' /\ DOMAIN rooms' = DOMAIN rooms /\ rooms'[act.run].state = after
  BY <1>1, <1>3, <1>4, RoomChanges DEF IInv
<1>6. clock' \in 0..MaxMoves
  BY TimelineAssumption DEF HandleAction, Moves, IInv
<1>7. ActOK'
  <2>1. /\ act.run \in 1..MaxRuns \cup {NoRun}
        /\ act' \in [run : 1..MaxRuns \cup {NoRun},
                     action : {"none", "stop", "pause", "continue"},
                     phase : {"idle", "request", "answered"},
                     state : States \cup {"none"}, at : 0..MaxMoves]
        /\ act'.phase = "answered" /\ act'.state = after /\ act'.at = clock'
        /\ act'.run = act.run
    BY <1>2, <1>3, <1>6 DEF IInv, ActOK
  <2>2. clock' <= clock'
    BY <1>6, TimelineAssumption
  <2>. QED  BY <1>1, <1>2, <1>5, <2>1, <2>2 DEF ActOK
<1>. QED
  BY <1>5, <1>7, ServerMoves DEF HandleAction, RunChanged, Publish, IInv

LEMMA AnswerTypes == ASSUME IInv, NEW l \in loads, AnswerLoad(l) PROVE IInv'
<1>1. IsFiniteSet(loads') /\ \A m \in loads' : LoadOK(m)
  <2>1. CASE l.phase = "list"
    BY <2>1, ListedLoad, ReplaceLoad DEF AnswerLoad
  <2>2. CASE l.phase = "steps"
    BY <2>2, SteppedLoad, ReplaceLoad DEF AnswerLoad
  <2>. QED  BY <2>1, <2>2 DEF AnswerLoad
<1>2. UNCHANGED <<rooms, clock, slot, view, act, asOf, tangled>> /\ owed' \in BOOLEAN
  BY DEF AnswerLoad, server, IInv
<1>3. PageOK' /\ ActOK'
  BY <1>2, PageStays, ActUnmoved DEF view, IInv, PageOK
<1>. QED  BY <1>1, <1>2, <1>3, PageMoves DEF IInv

LEMMA ListTypes == ASSUME IInv, NEW l \in loads, TakeList(l) PROVE IInv'
<1>1. LoadOK(l) /\ l.at \in 0..MaxMoves /\ l.at <= clock /\ ListOK(l.list)
  BY DEF IInv, LoadOK, Load
<1>2. /\ runs' = l.list /\ active' = ActiveOf(l.list) /\ error' = FALSE
      /\ UNCHANGED <<rooms, clock, slot, session, act, owed, faults>>
  BY DEF TakeList, server
<1>3. /\ ListOK(active') /\ (active' = {} \/ \E run \in active' : active' = {run})
  BY <1>1, <1>2, ActiveOfOK
<1>4. /\ IsFiniteSet(loads') /\ \A m \in loads' : LoadOK(m)
      /\ steps' \in Journal
  <2>1. CASE active' = {}
    <3>1. NoSteps \in Journal
      BY TimelineAssumption DEF NoSteps, Journal
    <3>2. loads' = loads \ {l} /\ steps' = NoSteps
      BY <2>1 DEF TakeList
    <3>. QED  BY <3>1, <3>2, DropLoad
  <2>2. CASE active' # {}
    <3>1. PICK run \in active' :
             loads' = (loads \ {l}) \cup {[l EXCEPT !.phase = "steps", !.list = {},
                                                    !.steps.run = run.id]}
      BY <2>2 DEF TakeList
    <3>2. run.id \in DOMAIN rooms
      BY <1>3 DEF ListOK
    <3>3. UNCHANGED steps
      BY <2>2 DEF TakeList
    <3>. DEFINE x == [l EXCEPT !.phase = "steps", !.list = {}, !.steps.run = run.id]
    <3>4. LoadOK(x)
      BY <3>2, AskedLoad
    <3>. HIDE DEF x
    <3>5. loads' = (loads \ {l}) \cup {x}
      BY <3>1 DEF x
    <3>6. IsFiniteSet(loads') /\ \A m \in loads' : LoadOK(m)
      BY <3>4, <3>5, ReplaceLoad
    <3>. QED  BY <3>3, <3>6 DEF IInv, PageOK
  <2>. QED  BY <2>1, <2>2
<1>5. tangled' \subseteq {"runs", "steps"} /\ asOf' \in 0..MaxMoves /\ asOf' <= clock
  BY <1>1, MarkOK, LaterOK DEF TakeList
<1>6. \A list : ListOK(list)' <=> ListOK(list)
  BY <1>2 DEF ListOK
<1>7. ListOK(runs') /\ ListOK(active')
  BY <1>1, <1>2, <1>3
<1>8. PageOK'
  BY <1>2, <1>3, <1>4, <1>5, <1>7 DEF IInv, PageOK, ListOK
<1>9. ActOK'
  BY <1>2, ActUnmoved
<1>. QED  BY <1>2, <1>4, <1>8, <1>9, PageMoves DEF IInv

LEMMA StepsTypes == ASSUME IInv, NEW l \in loads, TakeSteps(l) PROVE IInv'
<1>1. l.at \in 0..MaxMoves /\ l.at <= clock /\ l.steps \in Journal
  BY DEF IInv, LoadOK, Load
<1>2. /\ UNCHANGED <<rooms, clock, slot, session, runs, active, error, act, owed>>
      /\ steps' = l.steps /\ loads' = loads \ {l}
  BY DEF TakeSteps, server
<1>3. tangled' \subseteq {"runs", "steps"} /\ asOf' \in 0..MaxMoves /\ asOf' <= clock
  BY <1>1, MarkOK, LaterOK DEF TakeSteps
<1>4. PageOK'
  BY <1>1, <1>2, <1>3 DEF IInv, PageOK, ListOK
<1>5. ActOK'
  BY <1>2, ActUnmoved
<1>. QED  BY <1>2, <1>4, <1>5, DropLoad, PageMoves DEF IInv

LEMMA TakeActionTypes == ASSUME IInv, TakeAction PROVE IInv'
<1>. DEFINE updated == [id |-> act.run, state |-> act.state]
<1>1. /\ act.run \in DOMAIN rooms /\ act.state \in States
      /\ act.at \in 0..MaxMoves /\ act.at <= clock
  BY DEF IInv, ActOK, TakeAction
<1>2. updated \in Shown /\ updated.id = act.run
  BY <1>1, RoomAt DEF IInv, Shown
<1>3. /\ active' = {updated} /\ act' = NoAct
      /\ runs' = {IF run.id = act.run THEN updated ELSE run : run \in runs}
      /\ UNCHANGED <<rooms, clock, slot, session, steps, error, loads, owed>>
  BY DEF TakeAction, server
<1>. HIDE DEF updated
<1>4. ListOK(runs') /\ ListOK(active')
  <2>1. ListOK(runs)
    BY DEF IInv, PageOK
  <2>2. \A run \in runs' : run = updated \/ (run \in runs /\ run.id # act.run)
    BY <1>3
  <2>3. \A run \in runs' : run \in Shown /\ run.id \in DOMAIN rooms
    BY <1>1, <1>2, <2>1, <2>2 DEF ListOK
  <2>4. \A one, other \in runs' : one.id = other.id => one = other
    BY <1>2, <2>1, <2>2 DEF ListOK
  <2>. QED  BY <1>1, <1>2, <1>3, <2>3, <2>4 DEF ListOK
<1>5. tangled' \subseteq {"runs", "steps"} /\ asOf' \in 0..MaxMoves /\ asOf' <= clock
  BY <1>1, MarkOK, LaterOK DEF TakeAction
<1>6. PageOK'
  BY <1>3, <1>4, <1>5 DEF IInv, PageOK, ListOK
<1>7. ActOK'
  BY <1>3, TimelineAssumption DEF ActOK, NoAct
<1>. QED
  BY <1>3, <1>6, <1>7, PageMoves DEF IInv

LEMMA NextIInv == IInv /\ [Next]_vars => IInv'
<1>. SUFFICES ASSUME IInv, [Next]_vars PROVE IInv'
  OBVIOUS
<1>0. /\ owed \in BOOLEAN /\ slot \in {"none", "here", "elsewhere"}
      /\ session \in Sessions /\ error \in BOOLEAN
      /\ IsFiniteSet(loads) /\ \A l \in loads : LoadOK(l)
  BY DEF IInv, PageOK
<1>1. CASE PublishElsewhere \/ LoseNotice
  <2>1. /\ UNCHANGED <<rooms, clock, view, loads, act, asOf, tangled>>
        /\ owed' \in BOOLEAN /\ slot' \in {"none", "here", "elsewhere"}
    BY <1>0, <1>1 DEF PublishElsewhere, LoseNotice, Publish, server
  <2>2. PageOK' /\ ActOK'
    BY <1>0, <2>1, PageStays, ActUnmoved DEF view
  <2>. QED  BY <1>0, <2>1, <2>2, PageMoves
<1>2. CASE Receive
  <2>1. /\ UNCHANGED <<rooms, clock, view, act, asOf, tangled, owed>> /\ slot' = "none"
        /\ StartLoad(session) \/ UNCHANGED loads
    BY <1>2 DEF Receive, server, ghosts
  <2>2. IsFiniteSet(loads') /\ \A l \in loads' : LoadOK(l)
    BY <1>0, <2>1, StartLoadOK
  <2>3. PageOK' /\ ActOK'
    BY <1>0, <2>1, PageStays, ActUnmoved DEF view
  <2>. QED  BY <1>0, <2>1, <2>2, <2>3, PageMoves
<1>3. ASSUME NEW s \in Sessions, SelectSession(s) PROVE IInv'
  <2>1. /\ UNCHANGED <<rooms, clock, slot, runs, active, steps, error, act, asOf, tangled>>
        /\ owed' = TRUE /\ session' = s /\ StartLoad(s)
    BY <1>3 DEF SelectSession, server
  <2>2. IsFiniteSet(loads') /\ \A l \in loads' : LoadOK(l)
    BY <2>1, StartLoadOK
  <2>3. PageOK' /\ ActOK'
    BY <1>0, <2>1, PageStays, ActUnmoved
  <2>. QED  BY <1>0, <2>1, <2>2, <2>3, PageMoves
<1>4. ASSUME NEW l \in loads, FailLoad(l) PROVE IInv'
  <2>1. /\ UNCHANGED <<rooms, clock, slot, session, runs, active, steps, act, asOf, tangled>>
        /\ owed' = TRUE /\ error' = TRUE /\ loads' = loads \ {l}
    BY <1>4 DEF FailLoad, server
  <2>2. PageOK' /\ ActOK'
    BY <1>0, <2>1, PageStays, ActUnmoved
  <2>. QED  BY <1>0, <2>1, <2>2, DropLoad, PageMoves
<1>5. ASSUME NEW action \in {"stop", "pause", "continue"}, Act(action) PROVE IInv'
  <2>1. PICK run \in active : act' = [NoAct EXCEPT !.run = run.id, !.action = action,
                                                   !.phase = "request"]
    BY <1>5 DEF Act
  <2>2. run.id \in DOMAIN rooms /\ run.id \in 1..MaxRuns
    BY RoomAt DEF IInv, PageOK, ListOK
  <2>3. /\ UNCHANGED <<rooms, clock, slot, session, runs, active, steps, loads, asOf,
                       tangled, owed>>
        /\ error' = FALSE
    BY <1>5 DEF Act, server, ghosts
  <2>4. PageOK'
    BY <1>0, <2>3, PageStays
  <2>5. act' = [run |-> run.id, action |-> action, phase |-> "request", state |-> "none",
                at |-> 0]
    BY <2>1 DEF NoAct
  <2>6. ActOK'
    BY <2>2, <2>3, <2>5, TimelineAssumption DEF ActOK
  <2>. QED  BY <1>0, <2>3, <2>4, <2>6, PageMoves
<1>6. CASE FailAction
  <2>1. /\ UNCHANGED <<rooms, clock, slot, session, runs, active, steps, loads, asOf,
                       tangled, owed>>
        /\ error' = TRUE /\ act' = NoAct
    BY <1>6 DEF FailAction, server, ghosts
  <2>2. PageOK'
    BY <1>0, <2>1, PageStays
  <2>3. ActOK'
    BY <2>1, TimelineAssumption DEF ActOK, NoAct
  <2>. QED  BY <1>0, <2>1, <2>2, <2>3, PageMoves
<1>7. CASE UNCHANGED vars
  <2>1. PageOK' /\ ActOK'
    BY <1>0, <1>7, PageStays, ActUnmoved DEF vars
  <2>. QED  BY <1>0, <1>7, <2>1, PageMoves DEF vars
<1>. QED
  BY <1>1, <1>2, <1>3, <1>4, <1>5, <1>6, <1>7, EnqueueTypes, WorkerTypes, ActionTypes,
     AnswerTypes, ListTypes, StepsTypes, TakeActionTypes
     DEF Next, Server, Page

LEMMA TimelineInvariant == Spec => []IInv
BY InitIInv, NextIInv, PTL DEF Spec

(* Whatever answers overlap and sessions change, the page shows one active  *)
(* room at most, and only rooms and steps the server has                   *)
(* (RunTimeline.tsx).                                                      *)
THEOREM TypeCorrect == Spec => []TypeOK
<1>1. ASSUME IInv PROVE TypeOK
  <2>1. \A r \in DOMAIN rooms : rooms[r] \in Room
    BY <1>1, RoomAt DEF IInv
  <2>2. Cardinality(active) <= 1
    <3>1. CASE active = {}
      BY <3>1, FS_EmptySet
    <3>2. ASSUME NEW run, active = {run} PROVE Cardinality(active) <= 1
      BY <3>2, FS_Singleton
    <3>. QED  BY <1>1, <3>1, <3>2 DEF IInv, PageOK
  <2>. QED  BY <1>1, <2>1, <2>2 DEF IInv, PageOK, ListOK, ActOK, TypeOK
<1>. QED  BY <1>1, TimelineInvariant, PTL
-----------------------------------------------------------------------------
(* Currency.                                                               *)

(* A notice or a load that will read the rooms of the session again.        *)
Pending == slot = "here" \/ \E l \in loads : l.phase = "list" /\ l.session = session

(* The list of the session as it is, answered and not yet taken.            *)
Answered == \E l \in loads : l.phase = "listed" /\ l.session = session /\ l.at = clock

(* The latest reading is of now, and the page shows it unless an answer out *)
(* of turn is in the list.                                                  *)
ListCurrent ==
    /\ asOf = clock
    /\ "runs" \notin tangled => runs = RunsOf(session) /\ active = ActiveOf(runs)

(* The journal of the active room is shown, answered or asked for.          *)
StepsCurrent ==
    \/ active = {} /\ steps = NoSteps
    \/ \E run \in active :
          \/ steps = StepsOf(run)
          \/ \E l \in loads : l.phase = "steps" /\ l.steps.run = run.id
          \/ \E l \in loads : l.phase = "stepped" /\ l.steps.run = run.id /\ l.at = clock

CurrentInv ==
    ~owed /\ ~Pending /\ ~Answered => ListCurrent /\ (tangled = {} => StepsCurrent)

LEMMA InitCurrent == Init => CurrentInv
<1>. SUFFICES ASSUME Init PROVE Pending
  BY DEF CurrentInv
<1>1. NewLoad(session, 1).phase = "list" /\ NewLoad(session, 1).session = session
  BY DEF NewLoad
<1>. QED  BY <1>1 DEF Init, Pending

(* A step that leaves the rooms and what the page shows of them, and loads   *)
(* only to read once more.                                                 *)
LEMMA CurrentStays ==
    ASSUME CurrentInv,
           UNCHANGED <<rooms, clock, session, runs, active, steps, loads, asOf, tangled>>,
           owed' \/ (~owed /\ (slot = "here" => slot' = "here"))
    PROVE  CurrentInv'
BY DEF CurrentInv, Pending, Answered, ListCurrent, StepsCurrent, RunsOf, StepsOf

LEMMA AnswerCurrent ==
    ASSUME IInv, CurrentInv, NEW l \in loads, AnswerLoad(l)
    PROVE  CurrentInv'
<1>1. UNCHANGED <<rooms, clock, slot, session, runs, active, steps, asOf, tangled>>
  BY DEF AnswerLoad, server, view
<1>2. CASE l.phase = "list"
  <2>1. PICK x : /\ loads' = (loads \ {l}) \cup {x}
                 /\ x.phase = "listed" /\ x.session = l.session /\ x.at = clock
    BY <1>2, ListedLoad DEF AnswerLoad
  <2>2. CASE l.session = session
    BY <1>1, <2>1, <2>2 DEF CurrentInv, Answered
  <2>3. CASE l.session # session
    <3>1. owed' = owed
      BY <1>2, <2>3 DEF AnswerLoad, IInv
    <3>2. /\ Pending => Pending'
          /\ Answered => Answered'
      BY <1>1, <1>2, <2>1, <2>3 DEF Pending, Answered
    <3>3. StepsCurrent => StepsCurrent'
      BY <1>1, <1>2, <2>1 DEF StepsCurrent, StepsOf
    <3>. QED  BY <1>1, <3>1, <3>2, <3>3 DEF CurrentInv, ListCurrent, RunsOf
  <2>. QED  BY <2>2, <2>3
<1>3. CASE l.phase = "steps"
  <2>1. PICK x : /\ loads' = (loads \ {l}) \cup {x}
                 /\ x.phase = "stepped" /\ x.steps.run = l.steps.run /\ x.at = clock
    BY <1>3, SteppedLoad DEF AnswerLoad
  <2>2. owed' = owed
    BY <1>3 DEF AnswerLoad
  <2>3. /\ Pending => Pending'
        /\ Answered => Answered'
    BY <1>1, <1>3, <2>1 DEF Pending, Answered
  <2>4. StepsCurrent => StepsCurrent'
    BY <1>1, <1>3, <2>1 DEF StepsCurrent, StepsOf
  <2>. QED  BY <1>1, <2>2, <2>3, <2>4 DEF CurrentInv, ListCurrent, RunsOf
<1>. QED  BY <1>2, <1>3 DEF AnswerLoad

(* The reading of the list that is of now shows it, and asks for the        *)
(* journal; any other one is out of turn.                                   *)
LEMMA ListCurrentAfter ==
    ASSUME IInv, CurrentInv, NEW l \in loads, TakeList(l)
    PROVE  CurrentInv'
<1>1. /\ UNCHANGED <<rooms, clock, slot, session, owed>> /\ l.phase = "listed"
      /\ runs' = l.list /\ active' = ActiveOf(l.list)
  BY DEF TakeList, server
<1>2. LoadOK(l) /\ l.at \in 0..MaxMoves /\ l.at <= clock
  BY DEF IInv, LoadOK, Load
<1>3. /\ asOf' \in 0..MaxMoves /\ asOf' <= clock
      /\ asOf = clock \/ l.at = clock => asOf' = clock
  BY <1>2, LaterOK DEF TakeList
<1>4. asOf \in 0..MaxMoves /\ asOf <= clock /\ clock \in 0..MaxMoves
  BY DEF IInv, PageOK
<1>5. \A m \in loads : m # l => m \in loads'
  BY DEF TakeList
<1>6. Pending => Pending'
  BY <1>1, <1>5 DEF Pending
<1>7. Mark("runs", l.at < asOf \/ l.session # session)
  BY DEF TakeList
<1>8. CASE l.at = clock /\ l.session = session
  <2>1. ~(l.at < asOf \/ l.session # session)
    BY <1>4, <1>8, TimelineAssumption
  <2>2. runs' = RunsOf(session) /\ active' = ActiveOf(runs')
    BY <1>1, <1>2, <1>8 DEF LoadOK
  <2>3. ListCurrent'
    BY <1>1, <1>3, <1>8, <2>2 DEF ListCurrent, RunsOf
  <2>4. StepsCurrent'
    <3>1. CASE active' = {}
      BY <3>1 DEF TakeList, StepsCurrent
    <3>2. CASE active' # {}
      <4>1. PICK run \in active' :
               loads' = (loads \ {l}) \cup {[l EXCEPT !.phase = "steps", !.list = {},
                                                      !.steps.run = run.id]}
        BY <3>2 DEF TakeList
      <4>2. run.id \in DOMAIN rooms
        BY <1>1, <1>2, ActiveOfOK DEF LoadOK, ListOK
      <4>3. PICK x : x = [l EXCEPT !.phase = "steps", !.list = {}, !.steps.run = run.id]
        OBVIOUS
      <4>4. x.phase = "steps" /\ x.steps.run = run.id
        BY <1>2, <4>3 DEF LoadOK, Load, Journal
      <4>5. x \in loads'
        BY <4>1, <4>3
      <4>. QED  BY <4>4, <4>5 DEF StepsCurrent
    <3>. QED  BY <3>1, <3>2
  <2>. QED  BY <2>3, <2>4 DEF CurrentInv
<1>9. CASE ~(l.at = clock /\ l.session = session)
  <2>1. Answered => Answered'
    BY <1>1, <1>5, <1>9 DEF Answered
  <2>2. ListCurrent => (l.at < asOf \/ l.session # session)
    BY <1>2, <1>4, <1>9, TimelineAssumption DEF ListCurrent
  <2>3. ListCurrent => "runs" \in tangled'
    BY <1>7, <2>2 DEF Mark
  <2>4. ListCurrent => ListCurrent'
    BY <1>1, <1>3, <2>3 DEF ListCurrent
  <2>. QED  BY <1>1, <1>6, <2>1, <2>3, <2>4 DEF CurrentInv
<1>. QED  BY <1>8, <1>9

(* The journal that is shown is of now and of the active room, or marked.   *)
LEMMA StepsCurrentAfter ==
    ASSUME IInv, CurrentInv, NEW l \in loads, TakeSteps(l)
    PROVE  CurrentInv'
<1>1. /\ UNCHANGED <<rooms, clock, slot, session, runs, active, owed>>
      /\ l.phase = "stepped" /\ steps' = l.steps /\ loads' = loads \ {l}
      /\ Mark("steps", l.at < asOf \/ \A run \in active : run.id # l.steps.run)
  BY DEF TakeSteps, server
<1>2. LoadOK(l) /\ l.at \in 0..MaxMoves /\ l.at <= clock /\ l.steps \in Journal
  BY DEF IInv, LoadOK, Load
<1>3. asOf = clock => asOf' = clock
  BY <1>2, LaterOK DEF TakeSteps
<1>4. /\ Pending => Pending'
      /\ Answered => Answered'
  BY <1>1 DEF Pending, Answered
<1>5. ListCurrent => ListCurrent'
  BY <1>1, <1>3 DEF ListCurrent, RunsOf, Mark
<1>6. ASSUME ListCurrent, tangled' = {} PROVE StepsCurrent'
  <2>1. /\ ~(l.at < asOf)
        /\ \E run \in active : run.id = l.steps.run
    BY <1>1, <1>6 DEF Mark
  <2>2. l.at = clock
    <3>1. asOf = clock /\ clock \in 0..MaxMoves
      BY <1>6 DEF ListCurrent, IInv
    <3>. QED  BY <1>2, <2>1, <3>1, TimelineAssumption
  <2>3. l.steps.count = rooms[l.steps.run].steps
    BY <1>1, <1>2, <2>2 DEF LoadOK
  <2>4. l.steps = [run |-> l.steps.run, count |-> l.steps.count]
    BY <1>2 DEF Journal
  <2>5. PICK run \in active : run.id = l.steps.run
    BY <2>1
  <2>6. steps' = StepsOf(run)
    BY <1>1, <2>3, <2>4, <2>5 DEF StepsOf
  <2>. QED  BY <1>1, <2>6 DEF StepsCurrent, StepsOf
<1>. QED  BY <1>1, <1>4, <1>5, <1>6 DEF CurrentInv

(* What a button made of the active room is what the list says of it, or    *)
(* marked.                                                                  *)
LEMMA ActionCurrentAfter ==
    ASSUME IInv, CurrentInv, TakeAction
    PROVE  CurrentInv'
<1>. DEFINE updated == [id |-> act.run, state |-> act.state]
            wrong == "runs" \in tangled \/ act.at < asOf \/ active # ActiveOf(runs)
                       \/ {updated} # ActiveOf(runs')
<1>1. /\ UNCHANGED <<rooms, clock, slot, session, steps, loads, owed>>
      /\ active' = {updated}
      /\ runs' = {IF run.id = act.run THEN updated ELSE run : run \in runs}
      /\ Mark("runs", wrong)
      /\ act.phase = "answered"
  BY DEF TakeAction, server
<1>2. /\ act.at \in 0..MaxMoves /\ act.at <= clock
      /\ act.at = clock => act.state = rooms[act.run].state
  BY <1>1 DEF IInv, ActOK
<1>3. asOf = clock => asOf' = clock
  BY <1>2, LaterOK DEF TakeAction
<1>4. /\ Pending => Pending'
      /\ Answered => Answered'
  BY <1>1 DEF Pending, Answered
<1>5. "runs" \notin tangled' => ~wrong /\ "runs" \notin tangled /\ tangled' = tangled
  <2>. HIDE DEF wrong
  <2>1. "runs" \notin tangled' => ~wrong /\ tangled' = tangled \ {"runs"}
    BY <1>1 DEF Mark
  <2>2. ~wrong => "runs" \notin tangled
    BY DEF wrong
  <2>. QED  BY <2>1, <2>2
<1>6. ASSUME ListCurrent, "runs" \notin tangled'
      PROVE  runs' = runs /\ active' = active
  <2>1. ~wrong /\ "runs" \notin tangled
    BY <1>5, <1>6
  <2>2. act.at = clock
    <3>1. asOf = clock /\ clock \in 0..MaxMoves
      BY <1>6 DEF ListCurrent, IInv
    <3>. QED  BY <1>2, <2>1, <3>1, TimelineAssumption
  <2>3. runs = RunsOf(session) /\ active = ActiveOf(runs)
    BY <1>6, <2>1 DEF ListCurrent
  <2>4. \A run \in runs : run.id = act.run => run = updated
    BY <1>2, <2>2, <2>3 DEF RunsOf
  <2>. HIDE DEF updated
  <2>5. runs' = runs
    BY <1>1, <2>4
  <2>. QED  BY <1>1, <2>1, <2>3, <2>5
<1>7. ListCurrent => ListCurrent'
  BY <1>1, <1>3, <1>5, <1>6 DEF ListCurrent, RunsOf
<1>8. ASSUME ListCurrent, tangled' = {}, tangled = {} => StepsCurrent PROVE StepsCurrent'
  <2>1. runs' = runs /\ active' = active /\ tangled = {}
    BY <1>5, <1>6, <1>8
  <2>. QED  BY <1>1, <1>8, <2>1 DEF StepsCurrent, StepsOf
<1>. QED  BY <1>1, <1>4, <1>7, <1>8 DEF CurrentInv

LEMMA NextCurrent == IInv /\ CurrentInv /\ [Next]_vars => CurrentInv'
<1>. SUFFICES ASSUME IInv, CurrentInv, [Next]_vars PROVE CurrentInv'
  OBVIOUS
<1>1. ASSUME slot' = "here" \/ owed' PROVE CurrentInv'
  BY <1>1 DEF CurrentInv, Pending
<1>2. ASSUME NEW s \in Sessions, EnqueueRun(s) PROVE CurrentInv'
  BY <1>1, <1>2 DEF EnqueueRun, RunChanged, Publish
<1>3. CASE HandleAction
  BY <1>1, <1>3 DEF HandleAction, RunChanged, Publish
<1>4. ASSUME NEW r \in DOMAIN rooms, WorkerMoves(r) PROVE CurrentInv'
  BY <1>1, <1>4 DEF WorkerMoves
<1>5. ASSUME NEW s \in Sessions, SelectSession(s) PROVE CurrentInv'
  BY <1>1, <1>5 DEF SelectSession
<1>6. ASSUME NEW l \in loads, FailLoad(l) PROVE CurrentInv'
  BY <1>1, <1>6 DEF FailLoad
<1>7. CASE PublishElsewhere \/ LoseNotice
  <2>1. /\ UNCHANGED <<rooms, clock, session, runs, active, steps, loads, asOf, tangled>>
        /\ owed' = (owed \/ slot = "here")
    BY <1>7 DEF PublishElsewhere, LoseNotice, Publish, server, view
  <2>. QED  BY <2>1, CurrentStays DEF IInv
<1>8. CASE Receive
  <2>1. /\ UNCHANGED <<rooms, clock, session, runs, active, steps, asOf, tangled, owed>>
        /\ IF slot = "here" THEN StartLoad(session) ELSE UNCHANGED loads
    BY <1>8 DEF Receive, server, view, ghosts
  <2>2. CASE slot = "here"
    <3>1. \E l \in loads' : l.phase = "list" /\ l.session = session
      BY <2>1, <2>2, StartLoadOK DEF IInv, PageOK
    <3>. QED  BY <2>1, <3>1 DEF CurrentInv, Pending
  <2>3. CASE slot # "here"
    BY <2>1, <2>3, CurrentStays DEF IInv
  <2>. QED  BY <2>2, <2>3
<1>9. (\E action \in {"stop", "pause", "continue"} : Act(action)) \/ FailAction
         \/ UNCHANGED vars =>
         UNCHANGED <<rooms, clock, slot, session, runs, active, steps, loads, asOf,
                     tangled, owed>>
  BY DEF Act, FailAction, vars, server, ghosts
<1>10. UNCHANGED <<rooms, clock, slot, session, runs, active, steps, loads, asOf,
                   tangled, owed>> => CurrentInv'
  BY CurrentStays DEF IInv
<1>. QED
  BY <1>2, <1>3, <1>4, <1>5, <1>6, <1>7, <1>8, <1>9, <1>10, AnswerCurrent,
     ListCurrentAfter, StepsCurrentAfter, ActionCurrentAfter
     DEF Next, Server, Page

(* A timeline at rest shows the rooms of its session, the one that is going *)
(* on and its journal as they are, whatever was enqueued and pressed.       *)
(* Excepted is a page with no list of the session read since a notice was   *)
(* displaced or lost, a read failed or the worker moved, and one on which   *)
(* an answer of overlapping requests came out of turn and none in turn      *)
(* since (RunTimeline.tsx, useRunEvents.ts, events.go).                     *)
THEOREM RestingTimelineCorrect == Spec => []RestingTimelineIsCurrent
<1>1. ASSUME IInv, CurrentInv, AtRest, ~owed, tangled = {} PROVE Current
  <2>1. ~Pending /\ ~Answered
    BY <1>1 DEF AtRest, Pending, Answered
  <2>2. /\ runs = RunsOf(session) /\ active = ActiveOf(runs)
        /\ StepsCurrent /\ loads = {}
    BY <1>1, <2>1 DEF CurrentInv, ListCurrent, AtRest
  <2>3. CASE active = {} /\ steps = NoSteps
    BY <2>2, <2>3 DEF Current
  <2>4. ASSUME NEW r \in active, steps = StepsOf(r) PROVE Current
    <3>. DEFINE going == CHOOSE run \in active : TRUE
    <3>1. active = {r}
      BY <1>1 DEF IInv, PageOK
    <3>2. going = r /\ active # {}
      BY <3>1
    <3>. HIDE DEF going
    <3>3. steps = StepsOf(going)
      BY <2>4, <3>2
    <3>. QED  BY <2>2, <3>2, <3>3 DEF Current, going
  <2>5. \/ active = {} /\ steps = NoSteps
        \/ \E run \in active : steps = StepsOf(run)
    BY <2>2 DEF StepsCurrent
  <2>. QED  BY <2>3, <2>4, <2>5
<1>2. IInv /\ CurrentInv => RestingTimelineIsCurrent
  BY <1>1 DEF RestingTimelineIsCurrent
<1>3. Spec => []CurrentInv
  BY TimelineInvariant, InitCurrent, NextCurrent, PTL DEF Spec
<1>. QED  BY <1>2, <1>3, TimelineInvariant, PTL
=============================================================================
