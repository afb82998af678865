----------------------- MODULE ConversationViewProofs -----------------------
(***************************************************************************)
(* Proofs about the conversation page: its types, that what it shows is the *)
(* beginning of the conversation it has selected and only ever grows, and   *)
(* that at rest it is all of it, for any number of workspaces, sessions,    *)
(* messages, requests and faults.                                          *)
(***************************************************************************)
EXTENDS ConversationView, SequenceTheorems, WellFoundedInduction, TLAPS

(* s is the beginning of t, item by item.                                   *)
Beginning(s, t) == Len(s) <= Len(t) /\ \A i \in 1..Len(s) : s[i] = t[i]

(* What the page may hold of the conversation of k when it is recorded as lg. *)
Whole(k, lg)     == IF k \in Sessions THEN lg[k] ELSE <<>>
Part(k, ids, lg) == ids \in Seq(Ids) /\ Beginning(ids, Whole(k, lg))

Stamps      == 0..MaxMessages + 1
Copies      == [id : Sessions, stamp : Stamps, working : BOOLEAN]
CopiesOK(x) == x \subseteq Copies /\ \A c, d \in x : c.id = d.id => c = d

Wanted(get) ==
    /\ get.kind \in {"messages", "sessions", "create"}
    /\ get.key \in IF get.kind = "messages" THEN Sessions ELSE Workspaces

GetOK(g, lg) ==
    /\ g = [get |-> g.get, twin |-> g.twin, done |-> g.done,
            copies |-> g.copies, ids |-> g.ids]
    /\ Wanted(g.get)
    /\ CopiesOK(g.copies)
    /\ g.get.kind = "messages" => Part(g.get.key, g.ids, lg)

LoopOK(l, lg) ==
    /\ l = [key |-> l.key, phase |-> l.phase, ids |-> l.ids, copy |-> l.copy]
    /\ l.phase \in {"idle", "read", "changes"}
    /\ l.key \in IF l.phase = "idle" THEN Sessions \cup {NoKey} ELSE Sessions
    /\ CopiesOK(l.copy)
    /\ Part(l.key, l.ids, lg)

ServerOK ==
    /\ clock \in 0..MaxMessages
    /\ log \in [Sessions -> Seq(Ids)]
    /\ stamp \in [Sessions -> Stamps]
    /\ working \subseteq {s \in Sessions : Exists(s)}
    /\ slot \in Sessions \cup {NoKey}
    /\ greeting \in BOOLEAN

ListsOK(l) == /\ l = [w \in Workspaces |-> l[w]]
              /\ \A w \in Workspaces : CopiesOK(l[w])

PageOK ==
    /\ route \in Routes
    /\ ListsOK(lists)
    /\ selection \in Sessions \cup {NoKey}
    /\ missed \subseteq Sessions
    /\ pending \in BOOLEAN /\ failed \in BOOLEAN

RequestsOK == LoopOK(loop, log) /\ \A g \in gets : GetOK(g, log)

IInv == ServerOK /\ PageOK /\ RequestsOK /\ Part(selection, messages, log)

-----------------------------------------------------------------------------
(* Beginnings.                                                             *)

(* Item by item is what IsPrefix says.                                      *)
LEMMA PrefixIsBeginning ==
    ASSUME NEW S, NEW s \in Seq(S), NEW t \in Seq(S)
    PROVE  IsPrefix(s, t) <=> Beginning(s, t)
<1>1. SubSeq(s, 1, Len(s)) = s
  BY SubSeqFull
<1>2. Len(s) \in Nat /\ Len(t) \in Nat
  BY LenProperties
<1>3. ASSUME Len(s) <= Len(t)
      PROVE  /\ SubSeq(t, 1, Len(s)) \in Seq(S)
             /\ Len(SubSeq(t, 1, Len(s))) = Len(s)
             /\ \A i \in 1..Len(s) : SubSeq(t, 1, Len(s))[i] = t[i]
  <2>1. \A i \in 1..Len(s) : t[i] \in S
    BY <1>2, <1>3, ElementOfSeq
  <2> QED
    BY <1>2, <1>3, <2>1, SubSeqProperties
<1>4. ASSUME Len(s) <= Len(t)
      PROVE  s = SubSeq(t, 1, Len(s)) <=> \A i \in 1..Len(s) : s[i] = t[i]
  <2> DEFINE u == SubSeq(t, 1, Len(s))
  <2>1. u \in Seq(S) /\ Len(u) = Len(s) /\ \A i \in 1..Len(s) : u[i] = t[i]
    BY <1>3, <1>4
  <2> HIDE DEF u
  <2>2. (\A i \in 1..Len(s) : s[i] = t[i]) => s = u
    BY <2>1, SeqEqual
  <2>3. s = u => \A i \in 1..Len(s) : s[i] = t[i]
    BY <2>1
  <2> QED
    BY <2>2, <2>3 DEF u
<1> QED
  BY <1>1, <1>4 DEF IsPrefix, Beginning

(* Two beginnings of one conversation agree as far as both go: the older is
   not missed and nothing is added that is not there.                       *)
LEMMA ReconcileKeeps ==
    ASSUME NEW t \in Seq(Ids), NEW a \in Seq(Ids), NEW b \in Seq(Ids),
           Beginning(a, t), Beginning(b, t)
    PROVE  /\ Reconcile(a, b) \in Seq(Ids)
           /\ Beginning(Reconcile(a, b), t)
           /\ Beginning(a, Reconcile(a, b))
           /\ Beginning(b, Reconcile(a, b))
<1>1. Len(a) \in Nat /\ Len(b) \in Nat /\ Len(t) \in Nat
  BY LenProperties
<1> DEFINE shared == IF Len(a) < Len(b) THEN Len(a) ELSE Len(b)
<1>2. ~ \E i \in 1..shared : a[i] # b[i]
  BY <1>1 DEF Beginning
<1>3. CASE Len(a) >= Len(b)
  <2>1. Reconcile(a, b) = a
    BY <1>2, <1>3 DEF Reconcile
  <2>2. \A i \in 1..Len(b) : b[i] = a[i]
    BY <1>1, <1>3 DEF Beginning
  <2> QED
    BY <2>1, <2>2, <1>1, <1>3 DEF Beginning
<1>4. CASE ~(Len(a) >= Len(b))
  <2> DEFINE rest == SubSeq(b, Len(a) + 1, Len(b))
  <2>1. Reconcile(a, b) = a \o rest
    BY <1>2, <1>4 DEF Reconcile
  <2>2. \A i \in Len(a) + 1 .. Len(b) : b[i] \in Ids
    BY <1>1, ElementOfSeq
  <2>3. /\ rest \in Seq(Ids) /\ Len(rest) = Len(b) - Len(a)
        /\ \A i \in 1..Len(b) - Len(a) : rest[i] = b[Len(a) + i]
    BY <1>1, <1>4, <2>2, SubSeqProperties, Z3
  <2> HIDE DEF rest
  <2>4. /\ a \o rest \in Seq(Ids) /\ Len(a \o rest) = Len(b)
        /\ \A i \in 1..Len(b) : (a \o rest)[i] = IF i <= Len(a) THEN a[i] ELSE rest[i - Len(a)]
    BY <1>1, <2>3, ConcatProperties
  <2>5. \A i \in 1..Len(b) : (a \o rest)[i] = t[i]
    <3> TAKE i \in 1..Len(b)
    <3>1. CASE i <= Len(a)
      BY <3>1, <1>1, <2>4 DEF Beginning
    <3>2. CASE ~(i <= Len(a))
      <4>1. i - Len(a) \in 1..Len(b) - Len(a)
        BY <1>1, <3>2
      <4>2. rest[i - Len(a)] = b[Len(a) + (i - Len(a))]
        BY <4>1, <2>3
      <4>3. Len(a) + (i - Len(a)) = i
        BY <1>1
      <4> QED
        BY <4>2, <4>3, <3>2, <2>4 DEF Beginning
    <3> QED
      BY <3>1, <3>2
  <2> QED
    BY <1>1, <1>4, <2>1, <2>4, <2>5 DEF Beginning
<1> QED
  BY <1>3, <1>4

-----------------------------------------------------------------------------
(* The session of the page.                                                *)

(* Of the sessions a page has copies of, one was updated last.              *)
LEMMA GreatestIn ==
    ASSUME NEW B \in Nat, NEW T, T \subseteq 0..B, T # {}
    PROVE  \E x \in T : \A y \in T : y <= x
<1> DEFINE U == {B - x : x \in T}
           R == {ss \in Nat \X Nat : ss[1] < ss[2]}
<1>1. U \subseteq Nat /\ U # {}
  <2>1. \A x \in T : B - x \in Nat
    OBVIOUS
  <2>2. U # {}
    OBVIOUS
  <2> QED
    BY <2>1, <2>2
<1>2. IsWellFoundedOn(R, Nat)
  BY NatLessThanWellFounded DEF OpToRel
<1> HIDE DEF R, U
<1>3. \E least \in U : \A v \in U : ~(<<v, least>> \in R)
  BY <1>1, <1>2, WFMin
<1>4. PICK least \in U : \A v \in U : ~(<<v, least>> \in R)
  BY <1>3
<1>5. \A v \in U : ~(v < least)
  BY <1>1, <1>4 DEF R
<1>6. PICK x \in T : least = B - x
  BY DEF U
<1>7. \A y \in T : y <= x
  <2> TAKE y \in T
  <2>1. B - y \in U
    BY DEF U
  <2>2. ~(B - y < B - x)
    BY <1>5, <1>6, <2>1
  <2>3. x \in 0..B /\ y \in 0..B
    OBVIOUS
  <2> QED
    BY <2>2, <2>3
<1> QED
  BY <1>7

(* So the CHOOSE of Newest names one of the sessions there are copies of.   *)
LEMMA NewestIsOne ==
    ASSUME NEW x, x \subseteq Copies, x # {}
    PROVE  Newest(x) \in Sessions
<1> DEFINE T == {c.stamp : c \in x}
<1>1. T \subseteq 0..MaxMessages + 1 /\ T # {}
  BY DEF Copies, Stamps
<1>2. MaxMessages + 1 \in Nat
  BY ConversationAssumption
<1>3. PICK m \in T : \A y \in T : y <= m
  <2> HIDE DEF T
  <2> QED
    BY <1>1, <1>2, GreatestIn
<1>4. PICK c \in x : c.stamp = m
  OBVIOUS
<1>5. \A d \in x : d.stamp <= c.stamp
  BY <1>3, <1>4
<1> DEFINE n == CHOOSE e \in x : \A d \in x : d.stamp <= e.stamp
<1>6. n \in x
  BY <1>5
<1>7. n \in Copies /\ Newest(x) = n.id
  BY <1>6 DEF Newest
<1> QED
  BY <1>7 DEF Copies

(* And the page selects a session, or none.                                 *)
LEMMA SelectedIsSession ==
    ASSUME NEW r \in Routes, NEW l, ListsOK(l)
    PROVE  Selected(r, l) \in Sessions \cup {NoKey}
<1>1. r.ws \in Workspaces
  BY DEF Routes
<1>2. l[r.ws] \subseteq Copies
  BY <1>1 DEF ListsOK, CopiesOK
<1> DEFINE busy == {c \in l[r.ws] : c.working}
           from == IF busy = {} THEN l[r.ws] ELSE busy
<1>3. from \subseteq Copies
  BY <1>2
<1>4. CASE r.page # "conversation" \/ l[r.ws] = {}
  BY <1>4 DEF Selected
<1>5. CASE ~(r.page # "conversation" \/ l[r.ws] = {})
  <2>1. from # {}
    BY <1>5
  <2>2. Selected(r, l) = Newest(from)
    BY <1>5 DEF Selected
  <2> HIDE DEF from
  <2> QED
    BY <1>3, <2>1, <2>2, NewestIsOne
<1> QED
  BY <1>4, <1>5

-----------------------------------------------------------------------------
(* Requests and passes.                                                    *)

Logs == [Sessions -> Seq(Ids)]

(* A conversation is a sequence of ids, and of no session it is empty.      *)
LEMMA WholeIsSeq ==
    ASSUME NEW lg \in Logs, NEW k
    PROVE  Whole(k, lg) \in Seq(Ids) /\ Len(Whole(k, lg)) \in Nat
<1>1. Whole(k, lg) \in Seq(Ids)
  BY EmptySeq DEF Whole, Logs
<1> QED
  BY <1>1, LenProperties

(* Nothing read yet is the beginning of everything.                         *)
LEMMA NothingIsPart ==
    ASSUME NEW lg \in Logs, NEW k
    PROVE  Part(k, <<>>, lg)
<1>1. <<>> \in Seq(Ids) /\ Len(<<>>) = 0
  BY EmptySeq
<1>2. Len(Whole(k, lg)) \in Nat
  BY WholeIsSeq
<1> QED
  BY <1>1, <1>2 DEF Part, Beginning

(* A request that has just been made is one the page may have under way.    *)
LEMMA IssueOK ==
    ASSUME NEW lg \in Logs, NEW base, NEW new,
           \A g \in base : GetOK(g, lg), \A get \in new : Wanted(get)
    PROVE  \A g \in Issue(base, new) : GetOK(g, lg)
<1>1. ASSUME NEW get \in new, NEW twin
      PROVE  GetOK(Asked(get, twin), lg)
  <2>1. Part(get.key, <<>>, lg)
    BY NothingIsPart
  <2>2. Wanted(get)
    OBVIOUS
  <2> QED
    BY <2>1, <2>2 DEF GetOK, Asked, CopiesOK
<1> QED
  BY <1>1 DEF Issue

(* So is a refresh at rest, and one that begins.                            *)
LEMMA PassOK ==
    ASSUME NEW lg \in Logs
    PROVE  /\ LoopOK(Idle, lg)
           /\ \A key \in Sessions : LoopOK(Pass(key), lg)
BY NothingIsPart DEF LoopOK, Idle, Pass, CopiesOK

(* What a change renders: a selection, the refresh and the requests it asks for. *)
LEMMA RenderKeeps ==
    ASSUME IInv, NEW l, NEW p \in BOOLEAN, NEW g, NEW event,
           route' \in Routes, ListsOK(lists'),
           LoopOK(l, log), \A x \in g : GetOK(x, log),
           Render(l, p, g, event)
    PROVE  /\ selection' \in Sessions \cup {NoKey}
           /\ missed' \subseteq Sessions
           /\ pending' \in BOOLEAN
           /\ LoopOK(loop', log)
           /\ \A x \in gets' : GetOK(x, log)
<1> DEFINE key == Selected(route', lists')
           new == IF key \notin {selection, NoKey} THEN {Get("messages", key, FALSE)} ELSE {}
<1>1. log \in Logs
  BY DEF IInv, ServerOK, Logs
<1>2. key \in Sessions \cup {NoKey}
  BY SelectedIsSession
<1> HIDE DEF key
<1>3. \A get \in new : Wanted(get)
  BY <1>2 DEF Wanted, Get
<1>4. gets' = Issue(g, new) /\ selection' = key
  BY DEF Render, key
<1> HIDE DEF new
<1>5. \A x \in gets' : GetOK(x, log)
  BY <1>1, <1>3, <1>4, IssueOK
<1>6. \/ loop' = l /\ pending' \in {p, TRUE}
      \/ key # NoKey /\ loop' = Pass(key) /\ pending' = FALSE
  BY DEF Render, key
<1>7. LoopOK(loop', log) /\ pending' \in BOOLEAN
  BY <1>1, <1>2, <1>6, PassOK
<1>8. missed' \subseteq missed \cup ({key} \ {NoKey})
  BY DEF Render, key
<1>9. missed' \subseteq Sessions
  BY <1>2, <1>8 DEF IInv, PageOK
<1> QED
  BY <1>2, <1>4, <1>5, <1>7, <1>9

-----------------------------------------------------------------------------
(* Messages.                                                               *)

(* What stays selected only grows.                                          *)
Grown == selection' = selection => Beginning(messages, messages')

(* A sequence is a beginning of itself.                                     *)
LEMMA SameIsBeginning ==
    ASSUME NEW S, NEW s \in Seq(S)
    PROVE  Beginning(s, s)
BY LenProperties DEF Beginning

(* What is shown of an answer that is a beginning is one, and takes nothing away. *)
LEMMA ShowKeeps ==
    ASSUME IInv, NEW key, NEW ids, Part(key, ids, log), Show(key, ids)
    PROVE  /\ Part(selection', messages', log)
           /\ failed' \in BOOLEAN
           /\ Grown
<1>1. log \in Logs
  BY DEF IInv, ServerOK, Logs
<1>2. Part(selection, messages, log) /\ failed \in BOOLEAN
  BY DEF IInv, PageOK
<1>3. CASE Emptied
  BY <1>1, <1>3, NothingIsPart DEF Emptied, Grown
<1>4. CASE ~Emptied /\ selection # key
  <2>1. selection' = selection /\ messages' = messages /\ failed' = failed
    BY <1>4 DEF Show
  <2> QED
    BY <1>2, <2>1, SameIsBeginning DEF Part, Grown
<1>5. CASE ~Emptied /\ selection = key
  <2>1. selection' = selection /\ messages' = Reconcile(messages, ids) /\ failed' = failed
    BY <1>5 DEF Show
  <2>2. Whole(key, log) \in Seq(Ids)
    BY <1>1, WholeIsSeq
  <2>3. /\ messages \in Seq(Ids) /\ Beginning(messages, Whole(key, log))
        /\ ids \in Seq(Ids) /\ Beginning(ids, Whole(key, log))
    BY <1>2, <1>5 DEF Part
  <2>4. /\ Reconcile(messages, ids) \in Seq(Ids)
        /\ Beginning(Reconcile(messages, ids), Whole(key, log))
        /\ Beginning(messages, Reconcile(messages, ids))
    BY <2>2, <2>3, ReconcileKeeps
  <2> QED
    BY <1>2, <1>5, <2>1, <2>4 DEF Part, Grown
<1> QED
  BY <1>3, <1>4, <1>5

(* A change of the page, what it renders and what it shows.                 *)
LEMMA PageStep ==
    ASSUME IInv, NEW l, NEW p \in BOOLEAN, NEW g, NEW event, NEW key, NEW ids,
           log' = log, route' \in Routes, ListsOK(lists'),
           LoopOK(l, log), \A x \in g : GetOK(x, log), Part(key, ids, log),
           Render(l, p, g, event), Show(key, ids)
    PROVE  PageOK' /\ RequestsOK' /\ Part(selection, messages, log)' /\ Grown
<1>1. /\ selection' \in Sessions \cup {NoKey}
      /\ missed' \subseteq Sessions
      /\ pending' \in BOOLEAN
      /\ LoopOK(loop', log)
      /\ \A x \in gets' : GetOK(x, log)
  BY RenderKeeps
<1>2. /\ Part(selection', messages', log)
      /\ failed' \in BOOLEAN
      /\ Grown
  BY ShowKeeps
<1> QED
  BY <1>1, <1>2 DEF PageOK, RequestsOK

(* The same where the change brings no messages.                            *)
LEMMA QuietStep ==
    ASSUME IInv, NEW l, NEW p \in BOOLEAN, NEW g, NEW event,
           log' = log, route' \in Routes, ListsOK(lists'),
           LoopOK(l, log), \A x \in g : GetOK(x, log),
           Render(l, p, g, event), Keep
    PROVE  PageOK' /\ RequestsOK' /\ Part(selection, messages, log)' /\ Grown
<1>1. Part(NoKey, <<>>, log)
  BY NothingIsPart DEF IInv, ServerOK, Logs
<1>2. Show(NoKey, <<>>)
  BY DEF Keep
<1> QED
  BY <1>1, <1>2, PageStep

(* What was the beginning of a conversation still is when it goes on.       *)
LEMMA PartGrows ==
    ASSUME NEW lg \in Logs, NEW s \in Sessions, NEW id \in Ids, NEW k, NEW ids,
           Part(k, ids, lg)
    PROVE  Part(k, ids, [lg EXCEPT ![s] = Append(@, id)])
<1> DEFINE on == [lg EXCEPT ![s] = Append(@, id)]
<1> SUFFICES Part(k, ids, on)
  OBVIOUS
<1>1. CASE k # s
  <2>1. Whole(k, on) = Whole(k, lg)
    BY <1>1 DEF Whole, Logs
  <2> QED
    BY <2>1 DEF Part
<1>2. CASE k = s
  <2>1. Whole(k, on) = Append(lg[s], id) /\ Whole(k, lg) = lg[s] /\ lg[s] \in Seq(Ids)
    BY <1>2 DEF Whole, Logs
  <2>2. /\ Len(Append(lg[s], id)) = Len(lg[s]) + 1
        /\ \A i \in 1..Len(lg[s]) : Append(lg[s], id)[i] = lg[s][i]
    BY <2>1, AppendProperties
  <2>3. Len(ids) \in Nat /\ Len(lg[s]) \in Nat
    BY <2>1, LenProperties DEF Part
  <2>4. /\ ids \in Seq(Ids) /\ Len(ids) <= Len(lg[s])
        /\ \A i \in 1..Len(ids) : ids[i] = lg[s][i]
    BY <2>1 DEF Part, Beginning
  <2> HIDE DEF on
  <2>5. \A i \in 1..Len(ids) : ids[i] = Append(lg[s], id)[i]
    BY <2>2, <2>3, <2>4
  <2>6. Len(ids) <= Len(Append(lg[s], id))
    BY <2>2, <2>3, <2>4
  <2> QED
    BY <2>1, <2>4, <2>5, <2>6 DEF Part, Beginning
<1> QED
  BY <1>1, <1>2

-----------------------------------------------------------------------------
(* The steps.                                                              *)

(* The page as it opens.                                                    *)
LEMMA InitIInv == Init => IInv
<1> SUFFICES ASSUME Init PROVE IInv
  OBVIOUS
<1> USE DEF Init
<1>1. log \in Logs
  BY EmptySeq DEF Logs
<1>2. ServerOK
  BY <1>1, ConversationAssumption DEF ServerOK, Logs, Stamps
<1>3. PageOK
  BY DEF PageOK, ListsOK, CopiesOK
<1>4. RequestsOK
  BY <1>1, PassOK DEF RequestsOK
<1>5. Part(selection, messages, log)
  BY <1>1, NothingIsPart
<1> QED
  BY <1>2, <1>3, <1>4, <1>5 DEF IInv

(* What the conversations have in them stays; only the agent adds to them.  *)
LEMMA AgentWritesKeeps ==
    ASSUME IInv, NEW s \in Sessions, AgentWrites(s)
    PROVE  IInv' /\ Grown
<1> USE DEF IInv
<1> DEFINE id == clock + 1
<1>1. id \in Ids /\ clock' \in 0..MaxMessages /\ clock + 2 \in Stamps /\ clock + 2 > 0
  BY ConversationAssumption DEF AgentWrites, ServerOK, Ids, Stamps
<1>2. log \in Logs /\ log' = [log EXCEPT ![s] = Append(@, id)]
  BY DEF AgentWrites, ServerOK, Logs
<1> HIDE DEF id
<1>3. \A k, ids : Part(k, ids, log) => Part(k, ids, log')
  BY <1>1, <1>2, PartGrows
<1>4. log' \in Logs
  <2>1. log[s] \in Seq(Ids)
    BY <1>2 DEF Logs
  <2>2. Append(log[s], id) \in Seq(Ids)
    BY <1>1, <2>1, AppendProperties
  <2> QED
    BY <1>2, <2>2 DEF Logs
<1>5. stamp' \in [Sessions -> Stamps] /\ working' \subseteq {t \in Sessions : stamp'[t] > 0}
  BY <1>1 DEF AgentWrites, ServerOK, Exists, Stamps
<1>6. ServerOK'
  BY <1>1, <1>4, <1>5 DEF AgentWrites, ServerOK, Logs, Exists
<1>7. PageOK'
  <2>1. missed' \subseteq Sessions
    BY DEF AgentWrites, ServerOK, PageOK
  <2> QED
    BY <2>1 DEF AgentWrites, PageOK
<1>8. RequestsOK'
  BY <1>3 DEF AgentWrites, RequestsOK, GetOK, LoopOK
<1>9. Part(selection, messages, log)' /\ Grown
  BY <1>3, SameIsBeginning DEF AgentWrites, Part, Grown
<1> QED
  BY <1>6, <1>7, <1>8, <1>9

(* A step that leaves conversations, selection and messages alone.          *)
LEMMA StillStep ==
    ASSUME IInv, log' = log, selection' = selection, messages' = messages,
           ServerOK', PageOK', RequestsOK'
    PROVE  IInv' /\ Grown
<1>1. Part(selection, messages, log)' /\ Grown
  BY SameIsBeginning DEF IInv, Part, Grown
<1> QED
  BY <1>1 DEF IInv

(* The requests a step adds to those under way.                             *)
LEMMA IssuedOK ==
    ASSUME IInv, NEW g, \A x \in g : GetOK(x, log), NEW new, \A get \in new : Wanted(get)
    PROVE  \A x \in Issue(g, new) : GetOK(x, log)
<1>1. log \in Logs
  BY DEF IInv, ServerOK, Logs
<1> QED
  BY <1>1, IssueOK

LEMMA NavigateKeeps ==
    ASSUME IInv, NEW r \in Routes, Navigate(r)
    PROVE  IInv' /\ Grown
<1> DEFINE new == {Get("sessions", r.ws, r.page = "conversation")}
<1>1. \A get \in new : Wanted(get)
  BY DEF Wanted, Get, Routes
<1>2. \A x \in Issue(gets, new) : GetOK(x, log)
  BY <1>1, IssuedOK DEF IInv, RequestsOK
<1>3. /\ route' \in Routes /\ ListsOK(lists') /\ log' = log
      /\ Render(loop, pending, Issue(gets, new), FALSE) /\ Keep
  BY DEF Navigate, IInv, PageOK, server
<1> HIDE DEF new
<1>4. PageOK' /\ RequestsOK' /\ Part(selection, messages, log)' /\ Grown
  BY <1>2, <1>3, QuietStep DEF IInv, PageOK, RequestsOK
<1>5. ServerOK'
  BY DEF Navigate, IInv, ServerOK, Exists, server, stream
<1> QED
  BY <1>4, <1>5 DEF IInv

LEMMA ReceiveKeeps ==
    ASSUME IInv, Receive
    PROVE  IInv' /\ Grown
<1> DEFINE ws  == IF greeting THEN route.ws ELSE WorkspaceOf[slot]
           new == {Get("sessions", ws, FALSE)}
<1>1. greeting \/ slot \in Sessions
  BY DEF Receive, IInv, ServerOK
<1>2. ws \in Workspaces
  BY <1>1, ConversationAssumption DEF IInv, PageOK, Routes
<1> HIDE DEF ws
<1>3. \A get \in new : Wanted(get)
  BY <1>2 DEF Wanted, Get
<1>4. \A x \in Issue(gets, new) : GetOK(x, log)
  BY <1>3, IssuedOK DEF IInv, RequestsOK
<1>5. /\ route' \in Routes /\ ListsOK(lists') /\ log' = log
      /\ Render(loop, pending, Issue(gets, new), TRUE) /\ Keep
  BY DEF Receive, IInv, PageOK, server, ws
<1> HIDE DEF new
<1>6. PageOK' /\ RequestsOK' /\ Part(selection, messages, log)' /\ Grown
  BY <1>4, <1>5, QuietStep DEF IInv, PageOK, RequestsOK
<1>7. ServerOK'
  BY DEF Receive, IInv, ServerOK, Exists, server
<1> QED
  BY <1>6, <1>7 DEF IInv

LEMMA StatusChangesKeeps ==
    ASSUME IInv, StatusChanges
    PROVE  IInv' /\ Grown
<1> DEFINE new == {Get("messages", selection, FALSE)}
<1>1. \A get \in new : Wanted(get)
  BY DEF Wanted, Get, StatusChanges, IInv, PageOK
<1>2. \A x \in Issue(gets, new) : GetOK(x, log)
  BY <1>1, IssuedOK DEF IInv, RequestsOK
<1>3. /\ route' \in Routes /\ ListsOK(lists') /\ log' = log
      /\ Render(loop, pending, Issue(gets, new), TRUE) /\ Keep
  BY DEF StatusChanges, IInv, PageOK, server
<1> HIDE DEF new
<1>4. PageOK' /\ RequestsOK' /\ Part(selection, messages, log)' /\ Grown
  BY <1>2, <1>3, QuietStep DEF IInv, PageOK, RequestsOK
<1>5. ServerOK'
  BY DEF StatusChanges, IInv, ServerOK, Exists, server, stream
<1> QED
  BY <1>4, <1>5 DEF IInv

(* The copies the controller answers with.                                  *)
LEMMA CopyOfOK ==
    ASSUME ServerOK
    PROVE  /\ \A s \in Sessions : CopiesOK({CopyOf(s)})
           /\ \A w : CopiesOK(ListOf(w))
<1>1. \A s \in Sessions : CopyOf(s) \in Copies /\ CopyOf(s).id = s
  BY DEF CopyOf, Copies, ServerOK
<1> QED
  BY <1>1 DEF CopiesOK, ListOf

(* A request once it is answered.                                          *)
LEMMA AnsweredIs ==
    ASSUME NEW g, NEW x, NEW y,
           g = [get |-> g.get, twin |-> g.twin, done |-> g.done,
                copies |-> g.copies, ids |-> g.ids]
    PROVE  [g EXCEPT !.done = TRUE, !.copies = x, !.ids = y] =
               [get |-> g.get, twin |-> g.twin, done |-> TRUE, copies |-> x, ids |-> y]
<1> DEFINE h == [g EXCEPT !.done = TRUE, !.copies = x, !.ids = y]
<1>1. g \in [get : {g.get}, twin : {g.twin}, done : {g.done},
             copies : {g.copies}, ids : {g.ids}]
  OBVIOUS
<1>2. h \in [get : {g.get}, twin : {g.twin}, done : {TRUE}, copies : {x}, ids : {y}]
  BY ONLY <1>1
<1> HIDE DEF h
<1>3. h = [get |-> g.get, twin |-> g.twin, done |-> TRUE, copies |-> x, ids |-> y]
  BY ONLY <1>2
<1> QED
  BY <1>3 DEF h

LEMMA AnswerKeeps ==
    ASSUME IInv, NEW g \in gets, Answer(g)
    PROVE  IInv' /\ Grown
<1> DEFINE h == [g EXCEPT !.done = TRUE,
                   !.copies = IF g.get.kind = "sessions" THEN ListOf(g.get.key) ELSE {},
                   !.ids = IF g.get.kind = "messages" THEN log[g.get.key] ELSE <<>>]
<1>1. GetOK(g, log)
  BY DEF IInv, RequestsOK
<1>2. /\ h = [get |-> h.get, twin |-> h.twin, done |-> h.done,
              copies |-> h.copies, ids |-> h.ids]
      /\ h.get = g.get
      /\ h.copies = IF g.get.kind = "sessions" THEN ListOf(g.get.key) ELSE {}
      /\ h.ids = IF g.get.kind = "messages" THEN log[g.get.key] ELSE <<>>
  <2> DEFINE x == IF g.get.kind = "sessions" THEN ListOf(g.get.key) ELSE {}
             y == IF g.get.kind = "messages" THEN log[g.get.key] ELSE <<>>
  <2>1. h = [g EXCEPT !.done = TRUE, !.copies = x, !.ids = y]
    OBVIOUS
  <2> HIDE DEF x, y, h
  <2>2. h = [get |-> g.get, twin |-> g.twin, done |-> TRUE, copies |-> x, ids |-> y]
    BY <1>1, <2>1, AnsweredIs DEF GetOK
  <2>3. h.copies = x /\ h.ids = y
    BY <2>2
  <2> QED
    BY <2>2, <2>3 DEF x, y
<1>3. gets' = (gets \ {g}) \cup {h}
  BY DEF Answer
<1> HIDE DEF h
<1>4. CopiesOK(h.copies)
  BY <1>2, CopyOfOK DEF IInv, CopiesOK
<1>5. g.get.kind = "messages" => Part(g.get.key, h.ids, log)
  <2> SUFFICES ASSUME g.get.kind = "messages" PROVE Part(g.get.key, h.ids, log)
    OBVIOUS
  <2>1. g.get.key \in Sessions
    BY <1>1 DEF GetOK, Wanted
  <2>2. log[g.get.key] \in Seq(Ids)
    BY <2>1 DEF IInv, ServerOK
  <2> QED
    BY <1>2, <2>1, <2>2, SameIsBeginning DEF Part, Whole
<1>6. GetOK(h, log)
  BY <1>1, <1>2, <1>4, <1>5 DEF GetOK
<1>7. RequestsOK'
  BY <1>3, <1>6 DEF Answer, IInv, RequestsOK
<1>8. ServerOK'
  <2>1. clock + 1 \in Stamps /\ clock + 1 > 0
    BY ConversationAssumption DEF IInv, ServerOK, Stamps
  <2>2. stamp' \in [Sessions -> Stamps] /\ \A s \in Sessions : stamp[s] > 0 => stamp'[s] > 0
    BY <2>1 DEF Answer, IInv, ServerOK
  <2> QED
    BY <2>2 DEF Answer, IInv, ServerOK, Exists, stream
<1>9. PageOK'
  BY DEF Answer, IInv, PageOK
<1> QED
  BY <1>7, <1>8, <1>9, StillStep DEF Answer

LEMMA TakeMessagesKeeps ==
    ASSUME IInv, NEW g \in gets, TakeMessages(g)
    PROVE  IInv' /\ Grown
<1>1. Part(g.get.key, g.ids, log)
  BY DEF TakeMessages, IInv, RequestsOK, GetOK
<1>2. /\ route' \in Routes /\ ListsOK(lists') /\ log' = log
      /\ Render(loop, pending, gets \ {g}, FALSE) /\ Show(g.get.key, g.ids)
  BY DEF TakeMessages, IInv, PageOK, server
<1>3. PageOK' /\ RequestsOK' /\ Part(selection, messages, log)' /\ Grown
  BY <1>1, <1>2, PageStep DEF IInv, PageOK, RequestsOK
<1>4. ServerOK'
  BY DEF TakeMessages, IInv, ServerOK, Exists, server, stream
<1> QED
  BY <1>3, <1>4 DEF IInv

LEMMA TakeSessionsKeeps ==
    ASSUME IInv, NEW g \in gets, TakeSessions(g)
    PROVE  IInv' /\ Grown
<1> DEFINE new == IF g.get.creates /\ g.copies = {} THEN {Get("create", g.get.key, FALSE)} ELSE {}
<1>1. GetOK(g, log) /\ g.get.key \in Workspaces
  BY DEF TakeSessions, IInv, RequestsOK, GetOK, Wanted
<1>2. \A get \in new : Wanted(get)
  BY <1>1 DEF Wanted, Get
<1>3. \A x \in Issue(gets \ {g}, new) : GetOK(x, log)
  BY <1>2, IssuedOK DEF IInv, RequestsOK
<1>4. /\ route' = route /\ log' = log
      /\ lists' = [lists EXCEPT ![g.get.key] = g.copies]
      /\ Render(loop, pending, Issue(gets \ {g}, new), FALSE) /\ Keep
  BY DEF TakeSessions, server
<1> HIDE DEF new
<1>5. ListsOK(lists')
  BY <1>1, <1>4 DEF IInv, PageOK, ListsOK, GetOK
<1>6. PageOK' /\ RequestsOK' /\ Part(selection, messages, log)' /\ Grown
  BY <1>3, <1>4, <1>5, QuietStep DEF IInv, PageOK, RequestsOK
<1>7. ServerOK'
  BY DEF TakeSessions, IInv, ServerOK, Exists, server, stream
<1> QED
  BY <1>6, <1>7 DEF IInv

LEMMA TakeCreatedKeeps ==
    ASSUME IInv, NEW g \in gets, TakeCreated(g)
    PROVE  IInv' /\ Grown
<1> DEFINE new == {Get("sessions", g.get.key, FALSE)}
<1>1. g.get.key \in Workspaces
  BY DEF TakeCreated, IInv, RequestsOK, GetOK, Wanted
<1>2. \A get \in new : Wanted(get)
  BY <1>1 DEF Wanted, Get
<1>3. \A x \in Issue(gets \ {g}, new) : GetOK(x, log)
  BY <1>2, IssuedOK DEF IInv, RequestsOK
<1>4. /\ route' \in Routes /\ ListsOK(lists') /\ log' = log
      /\ Render(loop, pending, Issue(gets \ {g}, new), FALSE) /\ Keep
  BY DEF TakeCreated, IInv, PageOK, server
<1> HIDE DEF new
<1>5. PageOK' /\ RequestsOK' /\ Part(selection, messages, log)' /\ Grown
  BY <1>3, <1>4, QuietStep DEF IInv, PageOK, RequestsOK
<1>6. ServerOK'
  BY DEF TakeCreated, IInv, ServerOK, Exists, server, stream
<1> QED
  BY <1>5, <1>6 DEF IInv

(* updateSession puts a copy in the place of the one of the same session.   *)
LEMMA UpdatedOK ==
    ASSUME NEW l, ListsOK(l), NEW c \in Copies
    PROVE  ListsOK(Updated(l, c))
<1> DEFINE w == WorkspaceOf[c.id]
           put == {IF d.id = c.id THEN c ELSE d : d \in l[w]}
<1>1. w \in Workspaces
  BY ConversationAssumption DEF Copies
<1>2. CopiesOK(l[w])
  BY <1>1 DEF ListsOK
<1>3. CopiesOK(put)
  BY <1>2 DEF CopiesOK
<1>4. Updated(l, c) = [l EXCEPT ![w] = put]
  BY <1>1 DEF Updated, ListsOK
<1> HIDE DEF w, put
<1> QED
  BY <1>1, <1>3, <1>4 DEF ListsOK

(* A pass of refreshRun is edited as a record: with its two answers, and when
   it goes on to the changes.                                              *)
LEMMA PassEdited ==
    ASSUME NEW l, NEW x, NEW y,
           l = [key |-> l.key, phase |-> l.phase, ids |-> l.ids, copy |-> l.copy]
    PROVE  /\ [l EXCEPT !.ids = x, !.copy = y] =
                  [key |-> l.key, phase |-> l.phase, ids |-> x, copy |-> y]
           /\ [l EXCEPT !.phase = x] =
                  [key |-> l.key, phase |-> x, ids |-> l.ids, copy |-> l.copy]
<1> DEFINE a == [l EXCEPT !.ids = x, !.copy = y]
           b == [l EXCEPT !.phase = x]
<1>1. l \in [key : {l.key}, phase : {l.phase}, ids : {l.ids}, copy : {l.copy}]
  OBVIOUS
<1>2. a \in [key : {l.key}, phase : {l.phase}, ids : {x}, copy : {y}]
  BY ONLY <1>1
<1>3. b \in [key : {l.key}, phase : {x}, ids : {l.ids}, copy : {l.copy}]
  BY ONLY <1>1
<1> HIDE DEF a, b
<1>4. a = [key |-> l.key, phase |-> l.phase, ids |-> x, copy |-> y]
  BY ONLY <1>2
<1>5. b = [key |-> l.key, phase |-> x, ids |-> l.ids, copy |-> l.copy]
  BY ONLY <1>3
<1> QED
  BY <1>4, <1>5 DEF a, b

LEMMA AnswerPassKeeps ==
    ASSUME IInv, AnswerPass
    PROVE  IInv' /\ Grown
<1> DEFINE h == [key |-> loop.key, phase |-> loop.phase,
                 ids |-> log[loop.key], copy |-> {CopyOf(loop.key)}]
<1>1. LoopOK(loop, log) /\ ServerOK /\ PageOK
  BY DEF IInv, RequestsOK
<1>2. loop.phase = "read" /\ loop.key \in Sessions
  BY <1>1 DEF AnswerPass, LoopOK
<1>3. loop' = h
  BY <1>1, PassEdited DEF AnswerPass, LoopOK
<1>4. log[loop.key] \in Seq(Ids)
  BY <1>1, <1>2 DEF ServerOK
<1>5. Part(loop.key, log[loop.key], log)
  BY <1>2, <1>4, SameIsBeginning DEF Part, Whole
<1>6. CopiesOK({CopyOf(loop.key)})
  BY <1>1, <1>2, CopyOfOK
<1>7. LoopOK(h, log)
  BY <1>2, <1>5, <1>6 DEF LoopOK
<1>8. RequestsOK'
  BY <1>3, <1>7 DEF AnswerPass, IInv, RequestsOK, server
<1>9. ServerOK' /\ PageOK'
  BY <1>1 DEF AnswerPass, ServerOK, PageOK, Exists, server, stream
<1> QED
  BY <1>8, <1>9, StillStep DEF AnswerPass, server

LEMMA TakePassKeeps ==
    ASSUME IInv, TakePass
    PROVE  IInv' /\ Grown
<1>1. LoopOK(loop, log) /\ loop.phase = "read" /\ log \in Logs
  BY DEF TakePass, IInv, RequestsOK, ServerOK, Logs
<1>2. /\ loop.key \in Sessions /\ loop.copy \subseteq Copies
      /\ Part(loop.key, loop.ids, log)
  BY <1>1 DEF LoopOK, CopiesOK
<1>3. PICK c \in loop.copy :
          /\ lists' = Updated(lists, c)
          /\ UNCHANGED <<route, latest>>
          /\ CASE ~c.working        -> Render([loop EXCEPT !.phase = "changes"], pending, gets, FALSE)
               [] c.working /\ Again  -> Render(Pass(loop.key), FALSE, gets, FALSE)
               [] c.working /\ ~Again -> Render(Idle, pending, gets, FALSE)
  BY DEF TakePass
<1>4. ListsOK(lists') /\ route' \in Routes
  BY <1>2, <1>3, UpdatedOK DEF IInv, PageOK
<1>5. log' = log /\ Show(loop.key, loop.ids) /\ pending \in BOOLEAN /\ FALSE \in BOOLEAN
  BY DEF TakePass, server, IInv, PageOK
<1>6. \A x \in gets : GetOK(x, log)
  BY DEF IInv, RequestsOK
<1> DEFINE goal == PageOK' /\ RequestsOK' /\ Part(selection, messages, log)' /\ Grown
<1>7. \A l : \A p \in BOOLEAN : LoopOK(l, log) /\ Render(l, p, gets, FALSE) => goal
  <2> TAKE l
  <2> TAKE p \in BOOLEAN
  <2> HAVE LoopOK(l, log) /\ Render(l, p, gets, FALSE)
  <2> QED
    BY <1>2, <1>4, <1>5, <1>6, PageStep
<1>8. c.working \in BOOLEAN
  BY <1>2 DEF Copies
<1>9. LoopOK([loop EXCEPT !.phase = "changes"], log)
  <2>1. [loop EXCEPT !.phase = "changes"] =
            [key |-> loop.key, phase |-> "changes", ids |-> loop.ids, copy |-> loop.copy]
    BY <1>1, PassEdited DEF LoopOK
  <2>2. LoopOK([key |-> loop.key, phase |-> "changes", ids |-> loop.ids, copy |-> loop.copy], log)
    BY <1>1, <1>2 DEF LoopOK
  <2> QED
    BY <2>1, <2>2
<1>10. LoopOK(Pass(loop.key), log) /\ LoopOK(Idle, log)
  BY <1>1, <1>2, PassOK
<1>11. \/ Render([loop EXCEPT !.phase = "changes"], pending, gets, FALSE)
       \/ Render(Pass(loop.key), FALSE, gets, FALSE)
       \/ Render(Idle, pending, gets, FALSE)
  <2> HIDE DEF goal
  <2>1. CASE ~c.working
    BY <2>1, <1>3
  <2>2. CASE c.working /\ Again
    BY <2>2, <1>3
  <2>3. CASE c.working /\ ~Again
    BY <2>3, <1>3
  <2> QED
    BY <1>8, <2>1, <2>2, <2>3
<1> HIDE DEF goal
<1>12. goal
  BY <1>5, <1>7, <1>9, <1>10, <1>11
<1>13. ServerOK'
  BY DEF TakePass, IInv, ServerOK, Exists, server, stream
<1> QED
  BY <1>12, <1>13 DEF IInv, goal

(* The steps that leave the messages and the conversations as they are.     *)
LEMMA ChangesLoadedKeeps ==
    ASSUME IInv, ChangesLoaded
    PROVE  IInv' /\ Grown
<1>1. loop.key \in Sessions /\ log \in Logs
  BY DEF ChangesLoaded, IInv, RequestsOK, LoopOK, ServerOK, Logs
<1>2. LoopOK(loop', log)
  BY <1>1, PassOK DEF ChangesLoaded
<1>3. ServerOK' /\ PageOK' /\ RequestsOK'
  BY <1>2 DEF ChangesLoaded, IInv, ServerOK, PageOK, RequestsOK, Exists, server, stream
<1> QED
  BY <1>3, StillStep DEF ChangesLoaded, server

LEMMA FailPassKeeps ==
    ASSUME IInv, FailPass
    PROVE  IInv' /\ Grown
<1>1. log \in Logs
  BY DEF IInv, ServerOK, Logs
<1>2. LoopOK(loop', log)
  BY <1>1, PassOK DEF FailPass
<1>3. failed' \in BOOLEAN
  BY DEF FailPass, IInv, PageOK
<1>4. ServerOK' /\ PageOK' /\ RequestsOK'
  BY <1>2, <1>3 DEF FailPass, IInv, ServerOK, PageOK, RequestsOK, Exists, server, stream
<1> QED
  BY <1>4, StillStep DEF FailPass, server

LEMMA FailKeeps ==
    ASSUME IInv, NEW g \in gets, Fail(g)
    PROVE  IInv' /\ Grown
<1>1. failed' \in BOOLEAN
  BY DEF Fail, IInv, PageOK
<1>2. ServerOK' /\ PageOK' /\ RequestsOK'
  BY <1>1 DEF Fail, IInv, ServerOK, PageOK, RequestsOK, Exists, server, stream
<1> QED
  BY <1>2, StillStep DEF Fail, server

LEMMA ReconnectKeeps ==
    ASSUME IInv, Reconnect
    PROVE  IInv' /\ Grown
<1>1. ServerOK' /\ PageOK' /\ RequestsOK'
  BY DEF Reconnect, IInv, ServerOK, PageOK, RequestsOK, Exists, server
<1> QED
  BY <1>1, StillStep DEF Reconnect, server

LEMMA StutterKeeps ==
    ASSUME IInv, UNCHANGED vars
    PROVE  IInv' /\ Grown
<1>1. ServerOK' /\ PageOK' /\ RequestsOK'
  BY DEF IInv, ServerOK, PageOK, RequestsOK, Exists, vars
<1> QED
  BY <1>1, StillStep DEF vars

-----------------------------------------------------------------------------
(* Every step keeps the invariant, and adds to what stays selected.         *)
LEMMA NextIInv == IInv /\ [Next]_vars => IInv' /\ Grown
<1> SUFFICES ASSUME IInv, [Next]_vars PROVE IInv' /\ Grown
  OBVIOUS
<1>1. ASSUME NEW s \in Sessions, AgentWrites(s) PROVE IInv' /\ Grown
  BY <1>1, AgentWritesKeeps
<1>2. ASSUME NEW r \in Routes, Navigate(r) PROVE IInv' /\ Grown
  BY <1>2, NavigateKeeps
<1>3. CASE Receive
  BY <1>3, ReceiveKeeps
<1>4. CASE StatusChanges
  BY <1>4, StatusChangesKeeps
<1>5. ASSUME NEW g \in gets, Answer(g) PROVE IInv' /\ Grown
  BY <1>5, AnswerKeeps
<1>6. ASSUME NEW g \in gets, Take(g) PROVE IInv' /\ Grown
  BY <1>6, TakeMessagesKeeps, TakeSessionsKeeps, TakeCreatedKeeps DEF Take
<1>7. CASE AnswerPass
  BY <1>7, AnswerPassKeeps
<1>8. CASE TakePass
  BY <1>8, TakePassKeeps
<1>9. CASE ChangesLoaded
  BY <1>9, ChangesLoadedKeeps
<1>10. CASE FailPass
  BY <1>10, FailPassKeeps
<1>11. ASSUME NEW g \in gets, Fail(g) PROVE IInv' /\ Grown
  BY <1>11, FailKeeps
<1>12. CASE Reconnect
  BY <1>12, ReconnectKeeps
<1>13. CASE UNCHANGED vars
  BY <1>13, StutterKeeps
<1> QED
  BY <1>1, <1>2, <1>3, <1>4, <1>5, <1>6, <1>7, <1>8, <1>9, <1>10, <1>11, <1>12, <1>13
     DEF Next, Step

(* The invariant holds in every state of the page.                          *)
LEMMA Invariant == Spec => []IInv
BY InitIInv, NextIInv, PTL DEF Spec

(* The variables have their types, and a list has one copy of a session at
   most: updateSession and the lists of sessions (useWorkspaceController)
   never leave two.                                                        *)
THEOREM TypeCorrect == Spec => []TypeOK
<1>1. IInv => TypeOK
  <2> SUFFICES ASSUME IInv PROVE TypeOK
    OBVIOUS
  <2>1. \A s \in Sessions : \A i \in DOMAIN log[s] : log[s][i] \in Ids
    <3> TAKE s \in Sessions
    <3>1. log[s] \in Seq(Ids)
      BY DEF IInv, ServerOK
    <3> QED
      BY <3>1, ElementOfSeq, LenProperties
  <2>2. Copies \subseteq Copy
    BY ConversationAssumption DEF Copies, Copy, Stamps
  <2>3. \A w \in Workspaces : /\ lists[w] \subseteq Copy
                              /\ \A c, d \in lists[w] : c.id = d.id => c = d
    BY <2>2 DEF IInv, PageOK, ListsOK, CopiesOK
  <2>4. /\ loop.key \in Sessions \cup {NoKey} /\ loop.phase \in {"idle", "read", "changes"}
        /\ \A g \in gets : g.get.kind \in {"messages", "sessions", "create"}
    BY DEF IInv, RequestsOK, LoopOK, GetOK, Wanted
  <2> QED
    BY <2>1, <2>3, <2>4 DEF TypeOK, IInv, ServerOK, PageOK, Stamps
<1> QED
  BY <1>1, Invariant, PTL

(* Whatever is clicked while answers are on their way, and in whatever order
   they come: the page shows the beginning of the conversation it has
   selected (loadMessages, refreshRun).                                    *)
THEOREM HistoryShown == Spec => []ShownIsHistory
<1>1. IInv => ShownIsHistory
  <2> SUFFICES ASSUME IInv PROVE ShownIsHistory
    OBVIOUS
  <2>1. /\ Part(selection, messages, log) /\ selection \in Sessions \cup {NoKey}
        /\ log \in Logs
    BY DEF IInv, ServerOK, PageOK, Logs
  <2>2. CASE selection = NoKey
    <3>1. messages \in Seq(Ids) /\ Len(messages) <= Len(<<>>)
      BY <2>1, <2>2, ConversationAssumption DEF Part, Whole, Beginning
    <3>2. messages = <<>>
      BY <3>1, EmptySeq, LenProperties
    <3> QED
      BY <2>2, <3>2 DEF ShownIsHistory
  <2>3. CASE selection # NoKey
    <3>1. /\ messages \in Seq(Ids) /\ log[selection] \in Seq(Ids)
          /\ Beginning(messages, log[selection])
      BY <2>1, <2>3 DEF Part, Whole, Logs
    <3> QED
      BY <2>3, <3>1, PrefixIsBeginning DEF ShownIsHistory
  <2> QED
    BY <2>2, <2>3
<1> QED
  BY <1>1, Invariant, PTL

(* An older answer takes nothing away that a newer one has shown, as long as
   the same conversation is selected (reconcileMessages).                  *)
THEOREM NothingLost == Spec => NothingDisappears
<1>1. IInv /\ IInv' /\ Grown => (selection' = selection => IsPrefix(messages, messages'))
  <2> SUFFICES ASSUME IInv, IInv', Grown, selection' = selection
               PROVE  IsPrefix(messages, messages')
    OBVIOUS
  <2>1. messages \in Seq(Ids) /\ messages' \in Seq(Ids) /\ Beginning(messages, messages')
    BY DEF IInv, Part, Grown
  <2> QED
    BY <2>1, PrefixIsBeginning
<1>2. IInv /\ [Next]_vars => [selection' = selection => IsPrefix(messages, messages')]_vars
  BY <1>1, NextIInv
<1> QED
  BY <1>2, Invariant, PTL DEF Spec, NothingDisappears

-----------------------------------------------------------------------------
(* A request, or a refresh, that will show the conversation of k as lg has it. *)
WillRead(g, k, lg) ==
    g.get.kind = "messages" /\ g.get.key = k /\ (~g.done \/ g.ids = lg[k])

WillRefresh(l, p, k, lg) ==
    /\ l.key = k
    /\ \/ l.phase = "read" /\ (l.copy = {} \/ l.ids = lg[k])
       \/ l.phase # "idle" /\ p

(* A notice that will make the page read the conversation it has selected.   *)
Announced == greeting \/ slot = selection

FreshInv ==
    selection \notin missed \cup {NoKey} /\ ~failed =>
        \/ messages = log[selection]
        \/ Announced
        \/ WillRefresh(loop, pending, selection, log)
        \/ \E g \in gets : WillRead(g, selection, log)

(* A request that is issued is under way.                                   *)
LEMMA IssuedIsAsked ==
    ASSUME NEW base, NEW new, NEW get \in new
    PROVE  \E twin : Asked(get, twin) \in Issue(base, new)
<1>. DEFINE twin == CHOOSE t \in 1..MaxGets : ~\E g \in base : g.get = get /\ g.twin = t
<1>1. Asked(get, twin) \in Issue(base, new)
  BY DEF Issue
<1>. QED  BY <1>1

(* What a change renders leaves the requests and the refresh that will read
   what stays selected, and asks for the messages of what is selected anew; an
   event about what stays selected is a refresh of it, or is missed.         *)
LEMMA RenderReads ==
    ASSUME NEW l, NEW p \in BOOLEAN, NEW g, NEW event \in BOOLEAN, NEW lg, Render(l, p, g, event)
    PROVE  /\ g \subseteq gets'
           /\ selection' \notin {selection, NoKey} =>
                 \E x \in gets' : WillRead(x, selection', lg)
           /\ selection' = selection =>
                 /\ missed \subseteq missed'
                 /\ WillRefresh(l, p, selection, lg) => WillRefresh(loop', pending', selection, lg)
                 /\ event /\ selection \notin missed' \cup {NoKey}
                       /\ Matches(latest', selection) =>
                    WillRefresh(loop', pending', selection, lg)
<1>. DEFINE key == Selected(route', lists')
            new == IF key \notin {selection, NoKey} THEN {Get("messages", key, FALSE)} ELSE {}
<1>1. gets' = Issue(g, new) /\ selection' = key
  BY DEF Render
<1>2. /\ ~(key # NoKey /\ Matches(latest', key) /\ (event \/ key # selection)) =>
            loop' = l /\ pending' = p
      /\ key # NoKey /\ Matches(latest', key) /\ (event \/ key # selection) =>
            \/ l.phase # "idle" /\ loop' = l /\ pending' = TRUE
            \/ l.phase = "idle" /\ loop' = Pass(key)
  BY DEF Render
<1>. DEFINE late == /\ key # NoKey /\ Matches(latest', key) /\ (event \/ key # selection)
                    /\ l.phase # "idle" /\ l.key # key
<1>3. missed' = IF key # selection THEN missed \ {key}
                ELSE IF late THEN missed \cup {key} ELSE missed
  BY DEF Render
<1>. HIDE DEF key
<1>4. g \subseteq gets'
  BY <1>1 DEF Issue
<1>5. ASSUME selection' \notin {selection, NoKey}
      PROVE  \E x \in gets' : WillRead(x, selection', lg)
  <2>. DEFINE get == Get("messages", key, FALSE)
  <2>1. new = {get}
    BY <1>1, <1>5
  <2>2. PICK twin : Asked(get, twin) \in gets'
    BY <1>1, <2>1, IssuedIsAsked
  <2>3. WillRead(Asked(get, twin), key, lg)
    BY DEF WillRead, Asked, Get
  <2>. QED  BY <1>1, <2>2, <2>3
<1>6. ASSUME selection' = selection
      PROVE  /\ missed \subseteq missed'
             /\ WillRefresh(l, p, selection, lg) => WillRefresh(loop', pending', selection, lg)
             /\ event /\ selection \notin missed' \cup {NoKey}
                   /\ Matches(latest', selection) =>
                WillRefresh(loop', pending', selection, lg)
  <2>. HIDE DEF new
  <2>0. missed' = IF late THEN missed \cup {key} ELSE missed
    BY <1>1, <1>3, <1>6
  <2>1. Pass(key).key = key /\ Pass(key).phase = "read" /\ Pass(key).copy = {}
    BY DEF Pass
  <2>2. WillRefresh(Pass(key), pending', key, lg)
    BY <2>1 DEF WillRefresh
  <2>3. loop' = Pass(key) => WillRefresh(loop', pending', key, lg)
    BY <2>2
  <2>4. WillRefresh(l, p, key, lg) => l.phase # "idle"
    BY DEF WillRefresh
  <2>5. WillRefresh(l, p, key, lg) => WillRefresh(l, TRUE, key, lg)
    BY DEF WillRefresh
  <2>6. l.phase # "idle" /\ l.key = key => WillRefresh(l, TRUE, key, lg)
    BY DEF WillRefresh
  <2>7. missed \subseteq missed' /\ (late => key \in missed')
    BY <2>0
  <2>. QED  BY <1>1, <1>2, <1>6, <2>3, <2>4, <2>5, <2>6, <2>7
<1>. QED  BY <1>4, <1>5, <1>6

(* The whole conversation stays shown, and is once its messages are taken.   *)
LEMMA ShowsWhole ==
    ASSUME IInv, NEW key, NEW ids, Part(key, ids, log), Show(key, ids),
           selection' = selection, selection # NoKey,
           messages = log[selection] \/ (key = selection /\ ids = log[selection])
    PROVE  messages' = log[selection]
<1>1. selection \in Sessions /\ Whole(selection, log) = log[selection]
  BY DEF IInv, PageOK, Whole
<1>2. log[selection] \in Seq(Ids)
  BY <1>1 DEF IInv, ServerOK
<1>3. messages \in Seq(Ids) /\ Beginning(messages, log[selection])
  BY <1>1 DEF IInv, Part
<1>4. ~Emptied
  BY DEF Emptied
<1>5. CASE key # selection
  BY <1>4, <1>5 DEF Show
<1>6. CASE key = selection
  <2>. DEFINE t == log[selection]
              r == Reconcile(messages, ids)
  <2>1. messages' = r
    BY <1>4, <1>6 DEF Show
  <2>2. ids \in Seq(Ids) /\ Beginning(ids, t)
    BY <1>1, <1>6 DEF Part
  <2>3. r \in Seq(Ids) /\ Beginning(r, t) /\ Beginning(messages, r) /\ Beginning(ids, r)
    BY <1>2, <1>3, <2>2, ReconcileKeeps
  <2>4. Len(t) \in Nat /\ Len(ids) \in Nat /\ Len(messages) \in Nat /\ Len(r) \in Nat
    BY <1>2, <1>3, <2>2, <2>3, LenProperties
  <2>. HIDE DEF r, t
  <2>5. Len(r) = Len(t)
    BY <1>3, <1>6, <2>2, <2>3, <2>4 DEF Beginning, t
  <2>6. \A i \in 1..Len(r) : r[i] = t[i]
    BY <2>3 DEF Beginning
  <2>7. t \in Seq(Ids)
    BY <1>2 DEF t
  <2>8. r = t
    BY <2>3, <2>5, <2>6, <2>7, SeqEqual
  <2>. QED  BY <2>1, <2>8 DEF t
<1>. QED  BY <1>5, <1>6

(* What is shown, or will be, before a change that leaves the loop l, its mark p
   and the requests g, and shows what was read of key, is so after it.       *)
Stays(l, p, g, event, key, ids) ==
    \/ selection \in missed \/ failed
    \/ messages = log[selection]
    \/ key = selection /\ ids = log[selection]
    \/ greeting' \/ slot' = selection
    \/ WillRefresh(l, p, selection, log)
    \/ event /\ Matches(latest', selection)
    \/ \E x \in g : WillRead(x, selection, log)

LEMMA FreshStep ==
    ASSUME IInv, NEW l, NEW p \in BOOLEAN, NEW g, NEW event \in BOOLEAN, NEW key, NEW ids,
           log' = log, Render(l, p, g, event), Show(key, ids), Part(key, ids, log),
           selection # NoKey => Stays(l, p, g, event, key, ids)
    PROVE  FreshInv'
<1>. SUFFICES ASSUME selection' \notin missed' \cup {NoKey}, ~failed'
              PROVE  \/ messages' = log[selection']
                     \/ greeting' \/ slot' = selection'
                     \/ WillRefresh(loop', pending', selection', log)
                     \/ \E x \in gets' : WillRead(x, selection', log)
  BY DEF FreshInv, Announced
<1>1. CASE selection' # selection
  BY <1>1, RenderReads
<1>2. CASE selection' = selection
  <2>1. failed' = failed
    BY <1>2 DEF Show, Emptied
  <2>2. missed \subseteq missed' /\ g \subseteq gets'
    BY <1>2, RenderReads
  <2>3. Stays(l, p, g, event, key, ids) /\ selection \notin missed /\ ~failed
    BY <1>2, <2>1, <2>2
  <2>4. CASE messages = log[selection] \/ (key = selection /\ ids = log[selection])
    BY <1>2, <2>4, ShowsWhole
  <2>5. CASE WillRefresh(l, p, selection, log) \/ (event /\ Matches(latest', selection))
    BY <1>2, <2>5, RenderReads
  <2>6. CASE \E x \in g : WillRead(x, selection, log)
    BY <1>2, <2>2, <2>6
  <2>. QED  BY <1>2, <2>3, <2>4, <2>5, <2>6 DEF Stays
<1>. QED  BY <1>1, <1>2

(* The same where the change brings no messages.                            *)
LEMMA QuietFresh ==
    ASSUME IInv, NEW l, NEW p \in BOOLEAN, NEW g, NEW event \in BOOLEAN,
           log' = log, Render(l, p, g, event), Keep,
           selection # NoKey => Stays(l, p, g, event, NoKey, <<>>)
    PROVE  FreshInv'
<1>1. Part(NoKey, <<>>, log)
  BY NothingIsPart DEF IInv, ServerOK, Logs
<1>2. Show(NoKey, <<>>)
  BY DEF Keep
<1>. QED  BY <1>1, <1>2, FreshStep

LEMMA NavigateFresh ==
    ASSUME IInv, FreshInv, NEW r \in Routes, Navigate(r)
    PROVE  FreshInv'
<1>. DEFINE g == Issue(gets, {Get("sessions", r.ws, r.page = "conversation")})
<1>1. Render(loop, pending, g, FALSE) /\ Keep /\ UNCHANGED <<log, slot, greeting>>
  BY DEF Navigate, server, stream
<1>2. gets \subseteq g
  BY DEF Issue
<1>. HIDE DEF g
<1>3. selection # NoKey => Stays(loop, pending, g, FALSE, NoKey, <<>>)
  BY <1>1, <1>2 DEF FreshInv, Announced, Stays
<1>. QED  BY <1>1, <1>3, QuietFresh DEF IInv, PageOK

LEMMA ReceiveFresh ==
    ASSUME IInv, FreshInv, Receive
    PROVE  FreshInv'
<1>. DEFINE g == Issue(gets, {Get("sessions", IF greeting THEN route.ws
                                             ELSE WorkspaceOf[slot], FALSE)})
<1>1. Render(loop, pending, g, TRUE) /\ Keep /\ UNCHANGED log
      /\ latest' = IF greeting THEN "connected" ELSE slot
  BY DEF Receive, server
<1>2. gets \subseteq g
  BY DEF Issue
<1>. HIDE DEF g
<1>3. Announced => Matches(latest', selection)
  BY <1>1 DEF Announced, Matches
<1>4. selection # NoKey => Stays(loop, pending, g, TRUE, NoKey, <<>>)
  BY <1>1, <1>2, <1>3 DEF FreshInv, Stays
<1>. QED  BY <1>1, <1>4, QuietFresh DEF IInv, PageOK

LEMMA StatusChangesFresh ==
    ASSUME IInv, FreshInv, StatusChanges
    PROVE  FreshInv'
<1>. DEFINE g == Issue(gets, {Get("messages", selection, FALSE)})
<1>1. Render(loop, pending, g, TRUE) /\ Keep /\ UNCHANGED <<log, slot, greeting>>
  BY DEF StatusChanges, server, stream
<1>2. gets \subseteq g
  BY DEF Issue
<1>. HIDE DEF g
<1>3. selection # NoKey => Stays(loop, pending, g, TRUE, NoKey, <<>>)
  BY <1>1, <1>2 DEF FreshInv, Announced, Stays
<1>. QED  BY <1>1, <1>3, QuietFresh DEF IInv, PageOK

LEMMA TakeMessagesFresh ==
    ASSUME IInv, FreshInv, NEW g \in gets, TakeMessages(g)
    PROVE  FreshInv'
<1>1. /\ Render(loop, pending, gets \ {g}, FALSE) /\ Show(g.get.key, g.ids)
      /\ UNCHANGED <<log, slot, greeting>> /\ g.done /\ g.get.kind = "messages"
  BY DEF TakeMessages, server, stream
<1>2. Part(g.get.key, g.ids, log)
  BY <1>1 DEF IInv, RequestsOK, GetOK
<1>3. WillRead(g, selection, log) => g.get.key = selection /\ g.ids = log[selection]
  BY <1>1 DEF WillRead
<1>4. selection # NoKey => Stays(loop, pending, gets \ {g}, FALSE, g.get.key, g.ids)
  BY <1>1, <1>3 DEF FreshInv, Announced, Stays
<1>. QED  BY <1>1, <1>2, <1>4, FreshStep DEF IInv, PageOK

LEMMA TakeOtherFresh ==
    ASSUME IInv, FreshInv, NEW g \in gets, TakeSessions(g) \/ TakeCreated(g)
    PROVE  FreshInv'
<1>1. PICK new : /\ Render(loop, pending, Issue(gets \ {g}, new), FALSE) /\ Keep
                 /\ UNCHANGED <<log, slot, greeting>> /\ g.get.kind # "messages"
  BY DEF TakeSessions, TakeCreated, server, stream
<1>2. gets \ {g} \subseteq Issue(gets \ {g}, new)
  BY DEF Issue
<1>3. ~WillRead(g, selection, log)
  BY <1>1 DEF WillRead
<1>4. selection # NoKey =>
         Stays(loop, pending, Issue(gets \ {g}, new), FALSE, NoKey, <<>>)
  BY <1>1, <1>2, <1>3 DEF FreshInv, Announced, Stays
<1>. QED  BY <1>1, <1>4, QuietFresh DEF IInv, PageOK

LEMMA TakePassFresh ==
    ASSUME IInv, FreshInv, TakePass
    PROVE  FreshInv'
<1>1. /\ Show(loop.key, loop.ids) /\ UNCHANGED <<log, slot, greeting>>
      /\ loop.phase = "read" /\ loop.copy # {}
  BY DEF TakePass, server, stream
<1>2. LoopOK(loop, log) /\ Part(loop.key, loop.ids, log)
  BY DEF IInv, RequestsOK, LoopOK
<1>3. PICK c \in loop.copy :
         CASE ~c.working        -> Render([loop EXCEPT !.phase = "changes"], pending, gets, FALSE)
           [] c.working /\ Again  -> Render(Pass(loop.key), FALSE, gets, FALSE)
           [] c.working /\ ~Again -> Render(Idle, pending, gets, FALSE)
  BY DEF TakePass
<1>4. c.working \in BOOLEAN
  BY <1>2 DEF LoopOK, CopiesOK, Copies
<1>5. WillRefresh(loop, pending, selection, log) =>
         (loop.key = selection /\ loop.ids = log[selection]) \/ Again
  BY <1>1 DEF WillRefresh, Again
<1>6. ASSUME NEW l, NEW p \in BOOLEAN, Render(l, p, gets, FALSE),
             Again => WillRefresh(l, p, selection, log)
      PROVE  FreshInv'
  <2>1. selection # NoKey => Stays(l, p, gets, FALSE, loop.key, loop.ids)
    BY <1>1, <1>5, <1>6 DEF FreshInv, Announced, Stays
  <2>. QED  BY <1>1, <1>2, <1>6, <2>1, FreshStep
<1>7. CASE ~c.working
  <2>. DEFINE l == [loop EXCEPT !.phase = "changes"]
  <2>1. l.phase = "changes" /\ l.key = loop.key
    BY <1>2, PassEdited DEF LoopOK
  <2>2. Render(l, pending, gets, FALSE)
    BY <1>3, <1>7
  <2>. HIDE DEF l
  <2>3. Again => WillRefresh(l, pending, selection, log)
    BY <2>1 DEF Again, WillRefresh
  <2>. QED  BY <1>6, <2>2, <2>3 DEF IInv, PageOK
<1>8. CASE c.working /\ Again
  <2>1. Render(Pass(loop.key), FALSE, gets, FALSE)
    BY <1>3, <1>8
  <2>2. Again => WillRefresh(Pass(loop.key), FALSE, selection, log)
    BY DEF Again, WillRefresh, Pass
  <2>. QED  BY <1>6, <2>1, <2>2
<1>9. CASE c.working /\ ~Again
  <2>1. Render(Idle, pending, gets, FALSE)
    BY <1>3, <1>9
  <2>. QED  BY <1>6, <1>9, <2>1 DEF IInv, PageOK
<1>. QED  BY <1>4, <1>7, <1>8, <1>9

(* The steps that change nothing of what is selected and shown.             *)

LEMMA AgentWritesFresh ==
    ASSUME IInv, FreshInv, NEW s \in Sessions, AgentWrites(s)
    PROVE  FreshInv'
<1>1. /\ UNCHANGED <<greeting, selection, messages, loop, pending, gets, failed>>
      /\ slot' = s /\ missed' = missed \cup ({slot} \ {s, NoKey})
      /\ log' = [log EXCEPT ![s] = Append(@, clock + 1)]
  BY DEF AgentWrites
<1>2. CASE selection = s
  BY <1>1, <1>2 DEF FreshInv, Announced
<1>3. CASE selection # s /\ selection \in Sessions
  <2>1. log'[selection] = log[selection]
    BY <1>1, <1>3 DEF IInv, ServerOK
  <2>2. \A g : WillRead(g, selection, log) <=> WillRead(g, selection, log')
    BY <2>1 DEF WillRead
  <2>3. WillRefresh(loop, pending, selection, log)
           <=> WillRefresh(loop, pending, selection, log')
    BY <2>1 DEF WillRefresh
  <2>4. slot = selection /\ selection # NoKey => selection \in missed'
    BY <1>1, <1>3
  <2>. QED  BY <1>1, <2>1, <2>2, <2>3, <2>4 DEF FreshInv, Announced
<1>4. CASE selection = NoKey
  BY <1>1, <1>4 DEF FreshInv
<1>. QED  BY <1>2, <1>3, <1>4 DEF IInv, PageOK

LEMMA AnswerFresh ==
    ASSUME IInv, FreshInv, NEW g \in gets, Answer(g)
    PROVE  FreshInv'
<1>. DEFINE x == IF g.get.kind = "sessions" THEN ListOf(g.get.key) ELSE {}
            y == IF g.get.kind = "messages" THEN log[g.get.key] ELSE <<>>
            h == [g EXCEPT !.done = TRUE, !.copies = x, !.ids = y]
<1>1. /\ gets' = (gets \ {g}) \cup {h}
      /\ UNCHANGED <<log, slot, greeting, selection, messages, loop, pending, failed, missed>>
  BY DEF Answer, stream
<1>2. g = [get |-> g.get, twin |-> g.twin, done |-> g.done,
           copies |-> g.copies, ids |-> g.ids]
  BY DEF IInv, RequestsOK, GetOK
<1>3. h = [g EXCEPT !.done = TRUE, !.copies = x, !.ids = y]
  OBVIOUS
<1>. HIDE DEF x, y, h
<1>4. h = [get |-> g.get, twin |-> g.twin, done |-> TRUE, copies |-> x, ids |-> y]
  BY <1>2, <1>3, AnsweredIs
<1>5. h.get = g.get /\ h.ids = y
  BY <1>4
<1>6. WillRead(g, selection, log) => WillRead(h, selection, log)
  BY <1>5 DEF WillRead, y
<1>7. (\E r \in gets : WillRead(r, selection, log)) =>
         \E r \in gets' : WillRead(r, selection, log)
  BY <1>1, <1>6
<1>. QED  BY <1>1, <1>7 DEF FreshInv, Announced

LEMMA FailFresh ==
    ASSUME FreshInv, NEW g \in gets, Fail(g)
    PROVE  FreshInv'
<1>1. /\ gets' = gets \ {g}
      /\ failed' = (failed \/ (g.get.kind = "messages" /\ selection = g.get.key))
      /\ UNCHANGED <<log, slot, greeting, selection, messages, loop, pending, missed>>
  BY DEF Fail, server, stream
<1>2. WillRead(g, selection, log) => failed'
  BY <1>1 DEF WillRead
<1>. QED  BY <1>1, <1>2 DEF FreshInv, Announced

LEMMA AnswerPassFresh ==
    ASSUME IInv, FreshInv, AnswerPass
    PROVE  FreshInv'
<1>1. /\ loop' = [loop EXCEPT !.ids = log[loop.key], !.copy = {CopyOf(loop.key)}]
      /\ loop.phase = "read"
      /\ UNCHANGED <<log, slot, greeting, selection, messages, gets, pending, failed, missed>>
  BY DEF AnswerPass, server, stream
<1>2. loop' = [key |-> loop.key, phase |-> loop.phase,
               ids |-> log[loop.key], copy |-> {CopyOf(loop.key)}]
  BY <1>1, PassEdited DEF IInv, RequestsOK, LoopOK
<1>3. loop'.key = loop.key /\ loop'.phase = "read" /\ loop'.ids = log[loop.key]
  BY <1>1, <1>2
<1>4. WillRefresh(loop, pending, selection, log) => WillRefresh(loop', pending, selection, log)
  BY <1>3 DEF WillRefresh
<1>. QED  BY <1>1, <1>4 DEF FreshInv, Announced

LEMMA ChangesLoadedFresh ==
    ASSUME FreshInv, ChangesLoaded
    PROVE  FreshInv'
<1>1. /\ loop.phase = "changes" /\ loop' = IF Again THEN Pass(loop.key) ELSE Idle
      /\ UNCHANGED <<log, slot, greeting, selection, messages, gets, failed, missed>>
  BY DEF ChangesLoaded, server, stream
<1>2. ASSUME WillRefresh(loop, pending, selection, log)
      PROVE  WillRefresh(loop', pending', selection, log)
  <2>1. Again /\ loop.key = selection
    BY <1>1, <1>2 DEF WillRefresh, Again
  <2>2. loop' = Pass(selection)
    BY <1>1, <2>1
  <2>. QED  BY <2>2 DEF WillRefresh, Pass
<1>. QED  BY <1>1, <1>2 DEF FreshInv, Announced

LEMMA FailPassFresh ==
    ASSUME FreshInv, FailPass
    PROVE  FreshInv'
<1>1. /\ failed' = (failed \/ selection = loop.key)
      /\ UNCHANGED <<log, slot, greeting, selection, messages, gets, missed>>
  BY DEF FailPass, server, stream
<1>2. WillRefresh(loop, pending, selection, log) => failed'
  BY <1>1 DEF WillRefresh
<1>. QED  BY <1>1, <1>2 DEF FreshInv, Announced

LEMMA InitFresh == Init => FreshInv
BY DEF Init, FreshInv

LEMMA NextFresh == IInv /\ FreshInv /\ [Next]_vars => FreshInv'
<1>. SUFFICES ASSUME IInv, FreshInv, [Next]_vars PROVE FreshInv'
  OBVIOUS
<1>1. ASSUME NEW s \in Sessions, AgentWrites(s) PROVE FreshInv'
  BY <1>1, AgentWritesFresh
<1>2. ASSUME NEW r \in Routes, Navigate(r) PROVE FreshInv'
  BY <1>2, NavigateFresh
<1>3. CASE Receive
  BY <1>3, ReceiveFresh
<1>4. CASE StatusChanges
  BY <1>4, StatusChangesFresh
<1>5. ASSUME NEW g \in gets, Answer(g) \/ Take(g) \/ Fail(g) PROVE FreshInv'
  BY <1>5, AnswerFresh, TakeMessagesFresh, TakeOtherFresh, FailFresh DEF Take
<1>6. CASE AnswerPass
  BY <1>6, AnswerPassFresh
<1>7. CASE TakePass
  BY <1>7, TakePassFresh
<1>8. CASE ChangesLoaded
  BY <1>8, ChangesLoadedFresh
<1>9. CASE FailPass
  BY <1>9, FailPassFresh
<1>10. CASE Reconnect
  <2>1. greeting'
    BY <1>10 DEF Reconnect
  <2>. QED  BY <2>1 DEF FreshInv, Announced
<1>11. CASE UNCHANGED vars
  <2>1. UNCHANGED <<log, slot, greeting, selection, messages, loop, pending, gets, failed,
                    missed>>
    BY <1>11 DEF vars
  <2>. QED  BY <2>1 DEF FreshInv, Announced
<1>. QED
  BY <1>1, <1>2, <1>3, <1>4, <1>5, <1>6, <1>7, <1>8, <1>9, <1>10, <1>11 DEF Next, Step

(* A page at rest shows the whole conversation it has selected, whichever    *)
(* notice came in the middle of whichever refresh (refreshPending), unless a *)
(* notice about it was displaced or came while another was being refreshed,  *)
(* or a read failed (useWorkspaceController.ts, useServerEvents.ts).         *)
THEOREM RestingPageCorrect == Spec => []RestingPageIsCurrent
<1>1. ASSUME IInv, FreshInv PROVE RestingPageIsCurrent
  <2>1. AtRest => ~WillRefresh(loop, pending, selection, log) /\ gets = {} /\ ~greeting
                  /\ slot = NoKey
    BY DEF AtRest, WillRefresh
  <2>. QED  BY <1>1, <2>1 DEF FreshInv, Announced, RestingPageIsCurrent
<1>2. Spec => []FreshInv
  BY Invariant, InitFresh, NextFresh, PTL DEF Spec
<1>. QED  BY <1>1, <1>2, Invariant, PTL
=============================================================================
