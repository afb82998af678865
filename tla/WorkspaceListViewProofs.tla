----------------------- MODULE WorkspaceListViewProofs -----------------------
(***************************************************************************)
(* Proofs about WorkspaceListView, for any number of workspaces and of     *)
(* calls under way: its types, the lock of a deletion, the poll that       *)
(* watches a preparation, and the operations it offers.                    *)
(***************************************************************************)
EXTENDS WorkspaceListView, TLAPS

Reading == Lists \cup {Unanswered}

(* What the phase of a call says of it.                                     *)
CallsOK ==
    \A c \in Slots :
        /\ calls[c].phase = "idle" => calls[c].op = "none"
        /\ calls[c].phase \in {"request", "removing"} => calls[c].op \in Ops
        /\ calls[c].op \in Ops => calls[c].ws \in Workspaces
        /\ calls[c].op # "initial" => calls[c].active \in Reading /\ calls[c].archive \in Reading

IInv == TypeOK /\ CallsOK

-----------------------------------------------------------------------------
(* A new call is a call, with nothing read yet.                             *)
LEMMA NewCallTypes ==
    ASSUME NEW op \in Ops \cup {"none", "initial", "poll", "reload"},
           NEW w \in Workspaces \cup {NoWorkspace}, NEW phase \in Phases
    PROVE  /\ NewCall(op, w, phase) \in Call
           /\ NewCall(op, w, phase).op = op /\ NewCall(op, w, phase).ws = w
           /\ NewCall(op, w, phase).phase = phase
           /\ NewCall(op, w, phase).active \in Reading
           /\ NewCall(op, w, phase).archive \in Reading
  BY DEF NewCall, Call, Answers, Reading

(* What may replace a call without touching the others.                     *)
LEMMA ReplaceCall ==
    ASSUME IInv, NEW c \in Slots,
           NEW op \in Ops \cup {"none", "initial", "poll", "reload"},
           NEW w \in Workspaces \cup {NoWorkspace}, NEW phase \in Phases,
           phase = "idle" => op = "none",
           phase \in {"request", "removing"} => op \in Ops,
           op \in Ops => w \in Workspaces,
           calls' = [calls EXCEPT ![c] = NewCall(op, w, phase)]
    PROVE  calls' \in [Slots -> Call] /\ CallsOK'
<1>1. calls \in [Slots -> Call] /\ CallsOK
  BY DEF IInv, TypeOK
<1>2. calls' \in [Slots -> Call]
  BY <1>1, NewCallTypes
<1>3. ASSUME NEW d \in Slots
      PROVE  /\ calls'[d].phase = "idle" => calls'[d].op = "none"
             /\ calls'[d].phase \in {"request", "removing"} => calls'[d].op \in Ops
             /\ calls'[d].op \in Ops => calls'[d].ws \in Workspaces
             /\ calls'[d].op # "initial" => calls'[d].active \in Reading /\ calls'[d].archive \in Reading
  <2>1. CASE d = c
    <3>1. calls'[d] = NewCall(op, w, phase)
      BY <2>1, <1>1
    <3>2. /\ NewCall(op, w, phase).op = op /\ NewCall(op, w, phase).ws = w
          /\ NewCall(op, w, phase).phase = phase
          /\ NewCall(op, w, phase).active \in Reading
          /\ NewCall(op, w, phase).archive \in Reading
      BY NewCallTypes
    <3> QED
      BY <3>1, <3>2
  <2>2. CASE d # c
    <3>1. calls'[d] = calls[d]
      BY <2>2, <1>1
    <3> QED
      BY <3>1, <1>1 DEF CallsOK
  <2> QED
    BY <2>1, <2>2
<1>4. Reading' = Reading
  BY DEF Reading, Lists, Unanswered
<1> QED
  BY <1>2, <1>3, <1>4 DEF CallsOK

(* A call that ends or goes on is a call, and the lock stays a set of
   workspaces.                                                             *)
LEMMA ProceedTypes ==
    ASSUME IInv, NEW c \in Slots, NEW phase \in {"removing", "fetch", "refetch"},
           phase = "removing" => calls[c].op \in Ops, Proceed(c, phase)
    PROVE  calls' \in [Slots -> Call] /\ CallsOK'
<1>1. calls[c] \in Call /\ (calls[c].op \in Ops => calls[c].ws \in Workspaces)
  BY DEF IInv, TypeOK, CallsOK
<1>2. /\ calls[c].op \in Ops \cup {"none", "initial", "poll", "reload"}
      /\ calls[c].ws \in Workspaces \cup {NoWorkspace}
  BY <1>1 DEF Call
<1>3. calls' = [calls EXCEPT ![c] = NewCall(calls[c].op, calls[c].ws, phase)]
  BY DEF Proceed, IInv, TypeOK
<1>4. phase \in Phases /\ phase # "idle" /\ phase # "request"
  BY DEF Phases
<1> QED
  BY <1>1, <1>2, <1>3, <1>4, ReplaceCall

LEMMA EndTypes ==
    ASSUME IInv, NEW c \in Slots, End(c)
    PROVE  calls' \in [Slots -> Call] /\ CallsOK' /\ deleting' \subseteq Workspaces
<1>1. deleting' \subseteq Workspaces
  BY DEF IInv, TypeOK, End, Release
<1>2. calls' = [calls EXCEPT ![c] = NewCall("none", NoWorkspace, "idle")]
  BY DEF End, NoCall
<1>3. "none" \notin Ops /\ "idle" \in Phases
  BY DEF Ops, Phases
<1> QED
  BY <1>1, <1>2, <1>3, ReplaceCall

LEMMA FailTypes ==
    ASSUME IInv, NEW c \in Slots, FailCall(c)
    PROVE  calls' \in [Slots -> Call] /\ CallsOK' /\ deleting' \subseteq Workspaces
<1>1. CASE Proceed(c, "refetch") /\ UNCHANGED deleting
  BY <1>1, ProceedTypes DEF IInv, TypeOK
<1>2. CASE End(c)
  BY <1>2, EndTypes
<1> QED
  BY <1>1, <1>2 DEF FailCall

(* What a handler writes is a status.                                       *)
LEMMA PerformTypes ==
    ASSUME TypeOK, NEW op \in Ops, NEW w \in Workspaces, Perform(op, w)
    PROVE  status' \in Lists /\ archived' \subseteq Workspaces /\ queued' \subseteq Workspaces
<1>1. StatusAfter(op, w) \in Statuses \cup {Absent}
  BY DEF StatusAfter, TypeOK, Lists, Statuses
<1> QED
  BY <1>1 DEF Perform, TypeOK, Lists

LEMMA JobTypes ==
    ASSUME TypeOK, NEW w \in Workspaces, JobWrites(w)
    PROVE  status' \in Lists /\ queued' \subseteq Workspaces
<1>1. NextStatuses(w) \subseteq Statuses
  BY DEF NextStatuses, Statuses
<1> QED
  BY <1>1 DEF JobWrites, TypeOK, Lists

-----------------------------------------------------------------------------
LEMMA InitIInv == Init => IInv
<1> SUFFICES ASSUME Init
             PROVE  IInv
  OBVIOUS
<1>1. PICK first \in Slots :
          calls = [c \in Slots |-> IF c = first THEN NewCall("initial", NoWorkspace, "fetch")
                                   ELSE NewCall("none", NoWorkspace, "idle")]
  BY DEF Init, NoCall
<1>2. \A c \in Slots : calls[c] = IF c = first THEN NewCall("initial", NoWorkspace, "fetch")
                                  ELSE NewCall("none", NoWorkspace, "idle")
  BY <1>1
<1>3. {"fetch", "idle"} \subseteq Phases /\ "none" \notin Ops /\ "initial" \notin Ops
  BY DEF Phases, Ops
<1>4. calls \in [Slots -> Call]
  BY <1>1, <1>3, NewCallTypes
<1>5. CallsOK
  BY <1>2, <1>3, NewCallTypes DEF CallsOK
<1>6. status \in Lists /\ shown \in Lists /\ shelved \in Lists
  BY DEF Init, Lists, Nothing
<1>7. archived \subseteq Workspaces /\ faults \in 0..MaxFaults
  BY ListAssumption DEF Init
<1> QED
  BY <1>4, <1>5, <1>6, <1>7 DEF Init, IInv, TypeOK

(* Every step keeps the types, and what phases say.                         *)
LEMMA NextIInv == IInv /\ [Next]_vars => IInv'
<1> SUFFICES ASSUME IInv, [Next]_vars
             PROVE  IInv'
  OBVIOUS
<1> USE DEF IInv
<1>a. Reading' = Reading /\ Lists' = Lists
  BY DEF Reading, Lists, Unanswered
<1>1. ASSUME NEW w \in Workspaces, JobWrites(w)
      PROVE  IInv'
  BY <1>1, <1>a, JobTypes DEF JobWrites, copy, page, TypeOK, CallsOK
<1>2. ASSUME NEW c \in Slots, Handle(c)
      PROVE  IInv'
  <2>1. calls[c].op \in Ops /\ calls[c].ws \in Workspaces
    BY <1>2 DEF Handle, CallsOK
  <2>2. status' \in Lists /\ archived' \subseteq Workspaces /\ queued' \subseteq Workspaces
    BY <1>2, <2>1, PerformTypes DEF Handle
  <2>3. calls' \in [Slots -> Call] /\ CallsOK'
    <3>1. CASE Proceed(c, "removing")
      BY <3>1, <2>1, ProceedTypes
    <3>2. CASE calls' = [calls EXCEPT ![c] = NewCall("reload", NoWorkspace, "fetch")]
      <4>1. "reload" \notin Ops /\ "fetch" \in Phases
        BY DEF Ops, Phases
      <4> QED
        BY <3>2, <4>1, ReplaceCall
    <3> QED
      BY <1>2, <3>1, <3>2 DEF Handle
  <2> QED
    BY <1>2, <2>2, <2>3 DEF Handle, copy, page, TypeOK
<1>3. ASSUME NEW c \in Slots, Refuse(c)
      PROVE  IInv'
  BY <1>3, FailTypes DEF Refuse, server, copy, page, TypeOK
<1>4. ASSUME NEW c \in Slots, Remove(c)
      PROVE  IInv'
  <2>1. calls[c].op \in Ops /\ calls[c].ws \in Workspaces
    BY <1>4 DEF Remove, CallsOK
  <2>2. calls' \in [Slots -> Call] /\ CallsOK'
    BY <1>4, ProceedTypes DEF Remove
  <2>3. status' \in Lists /\ archived' \subseteq Workspaces /\ queued' \subseteq Workspaces
    BY <1>4, <2>1 DEF Remove, TypeOK, Lists, Statuses
  <2> QED
    BY <1>4, <2>2, <2>3 DEF Remove, copy, page, TypeOK
<1>5. ASSUME NEW c \in Slots, LoseRequest(c)
      PROVE  IInv'
  <2>1. calls[c].op \in Ops /\ calls[c].ws \in Workspaces
    BY <1>5 DEF LoseRequest, CallsOK
  <2>2. calls' \in [Slots -> Call] /\ CallsOK' /\ deleting' \subseteq Workspaces
    BY <1>5, FailTypes DEF LoseRequest
  <2>3. status' \in Lists /\ archived' \subseteq Workspaces /\ queued' \subseteq Workspaces
    <3>1. CASE UNCHANGED server
      BY <3>1 DEF server, TypeOK, Lists
    <3>2. CASE Perform(calls[c].op, calls[c].ws)
      BY <3>2, <2>1, PerformTypes
    <3>3. CASE /\ status' = [status EXCEPT ![calls[c].ws] = "deletion_failed"]
               /\ UNCHANGED <<archived, queued>>
      BY <3>3, <2>1 DEF TypeOK, Lists, Statuses
    <3> QED
      BY <1>5, <3>1, <3>2, <3>3 DEF LoseRequest
  <2>4. faults' \in 0..MaxFaults
    BY <1>5, ListAssumption DEF LoseRequest, TypeOK
  <2> QED
    BY <1>5, <2>2, <2>3, <2>4 DEF LoseRequest, copy, page, TypeOK
<1>6. ASSUME NEW c \in Slots, Answer(c)
      PROVE  IInv'
  <2>1. ActiveList \in Lists /\ ArchivedList \in Lists
    BY DEF ActiveList, ArchivedList, TypeOK, Lists
  <2>2. calls[c] \in Call
    BY DEF TypeOK
  <2> DEFINE new == [calls[c] EXCEPT
          !.active  = IF calls[c].active = Unanswered THEN ActiveList ELSE calls[c].active,
          !.archive = IF calls[c].archive = Unanswered THEN ArchivedList ELSE calls[c].archive]
  <2>3. calls' = [calls EXCEPT ![c] = new]
    BY <1>6, <2>2 DEF Answer, TypeOK, Call
  <2>4. /\ new \in Call /\ new.op = calls[c].op /\ new.ws = calls[c].ws
        /\ new.phase = calls[c].phase
        /\ new.active \in {calls[c].active, ActiveList}
        /\ new.archive \in {calls[c].archive, ArchivedList}
    BY <2>1, <2>2 DEF Call, Answers
  <2> HIDE DEF new
  <2>5. calls' \in [Slots -> Call]
    BY <2>3, <2>4 DEF TypeOK
  <2>6. CallsOK'
    BY <2>1, <2>3, <2>4, <1>a DEF CallsOK, TypeOK, Reading
  <2> QED
    BY <1>6, <2>5, <2>6 DEF Answer, server, copy, page, TypeOK
<1>7. ASSUME NEW c \in Slots, ApplyRefresh(c)
      PROVE  IInv'
  <2>1. calls[c].active \in Lists /\ calls[c].archive \in Lists
    BY <1>7 DEF ApplyRefresh, CallsOK, Settled, Reading
  <2>2. shown' \in Lists /\ shelved' \in Lists /\ timer' \in BOOLEAN
    BY <1>7, <2>1 DEF ApplyRefresh, Rearm
  <2> QED
    BY <1>7, <2>2, EndTypes DEF ApplyRefresh, server, TypeOK
<1>8. ASSUME NEW c \in Slots, ApplyInitial(c)
      PROVE  IInv'
  <2>1. calls[c].active \in Lists \cup {Failed} /\ calls[c].archive \in Lists \cup {Failed}
    BY <1>8 DEF ApplyInitial, Settled, TypeOK, Call, Answers
  <2>2. shown' \in Lists /\ shelved' \in Lists
    BY <1>8, <2>1 DEF ApplyInitial, TypeOK
  <2>3. timer' \in BOOLEAN /\ loadError' \in BOOLEAN /\ loading' \in BOOLEAN
    BY <1>8 DEF ApplyInitial, Rearm, TypeOK
  <2> QED
    BY <1>8, <2>2, <2>3, EndTypes DEF ApplyInitial, server, TypeOK
<1>9. ASSUME NEW c \in Slots, PollFires(c)
      PROVE  IInv'
  <2>1. "poll" \notin Ops /\ "fetch" \in Phases
    BY DEF Ops, Phases
  <2>2. calls' \in [Slots -> Call] /\ CallsOK'
    BY <1>9, <2>1, ReplaceCall DEF PollFires
  <2> QED
    BY <1>9, <2>2 DEF PollFires, server, copy, TypeOK
<1>10. ASSUME NEW c \in Slots, FailFetch(c)
       PROVE  IInv'
  <2>1. faults' \in 0..MaxFaults
    BY <1>10, ListAssumption DEF FailFetch, TypeOK
  <2>2. calls' \in [Slots -> Call] /\ CallsOK' /\ deleting' \subseteq Workspaces /\ loadError' \in BOOLEAN
    <3>1. CASE calls[c].op = "initial"
      <4>1. PICK half \in {"active", "archive"} : calls' = [calls EXCEPT ![c][half] = Failed]
        BY <1>10, <3>1 DEF FailFetch
      <4>2. calls[c] \in Call
        BY DEF TypeOK
      <4>3. Failed \in Answers
        BY DEF Answers
      <4> DEFINE new == [calls[c] EXCEPT ![half] = Failed]
      <4>4. calls' = [calls EXCEPT ![c] = new]
        BY <4>1
      <4>5. new \in Call /\ new.op = calls[c].op /\ new.ws = calls[c].ws /\ new.phase = calls[c].phase
        <5>1. CASE half = "active"
          BY <4>2, <4>3, <5>1 DEF Call
        <5>2. CASE half = "archive"
          BY <4>2, <4>3, <5>2 DEF Call
        <5> QED
          BY <5>1, <5>2
      <4> HIDE DEF new
      <4>6. calls' \in [Slots -> Call] /\ CallsOK'
        BY <3>1, <4>4, <4>5, <1>a DEF CallsOK, TypeOK
      <4> QED
        BY <1>10, <3>1, <4>6 DEF FailFetch, TypeOK
    <3>2. CASE calls[c].op # "initial"
      <4>1. loadError' \in BOOLEAN
        BY <1>10, <3>2 DEF FailFetch, TypeOK
      <4> QED
        BY <1>10, <3>2, <4>1, FailTypes DEF FailFetch
    <3> QED
      BY <3>1, <3>2
  <2> QED
    BY <1>10, <2>1, <2>2 DEF FailFetch, server, copy, TypeOK
<1>11. ASSUME NEW c \in Slots, NEW op \in Ops, NEW w \in Workspaces, Click(c, op, w)
       PROVE  IInv'
  <2>1. "request" \in Phases
    BY DEF Phases
  <2>2. calls' \in [Slots -> Call] /\ CallsOK'
    BY <1>11, <2>1, ReplaceCall DEF Click
  <2>3. deleting' \subseteq Workspaces
    BY <1>11 DEF Click, TypeOK
  <2> QED
    BY <1>11, <2>2, <2>3 DEF Click, server, copy, page, TypeOK
<1>12. CASE UNCHANGED vars
  BY <1>12, <1>a DEF vars, TypeOK, CallsOK
<1> QED
  BY <1>1, <1>2, <1>3, <1>4, <1>5, <1>6, <1>7, <1>8, <1>9, <1>10, <1>11, <1>12
     DEF Next, CallStep

(* However calls overlap and come back, what the page and the controller keep
   has its type, and so a list that is shown is one that was answered.       *)
THEOREM TypeCorrect == Spec => []TypeOK
<1>1. IInv => TypeOK
  BY DEF IInv
<1> QED
  BY InitIInv, NextIInv, <1>1, PTL DEF Spec

-----------------------------------------------------------------------------
(* A call that is no deletion, and may not become one, leaves the lock.      *)
LEMMA LockKept ==
    ASSUME IInv, LockIsExact, UNCHANGED deleting,
           calls' \in [Slots -> Call],
           \A d \in Slots, w \in Workspaces : Deletion(d, w)' <=> Deletion(d, w)
    PROVE  LockIsExact'
  BY DEF LockIsExact, IInv, TypeOK

(* A call that ends releases what it held, and nothing else.                 *)
LEMMA LockReleased ==
    ASSUME IInv, LockIsExact, NEW c \in Slots, End(c)
    PROVE  LockIsExact'
<1>1. /\ calls \in [Slots -> Call] /\ deleting \subseteq Workspaces
      /\ calls[c].op = "delete" => calls[c].ws \in Workspaces
  BY DEF IInv, TypeOK, CallsOK, Ops
<1>2. calls'[c].op = "none" /\ \A d \in Slots \ {c} : calls'[d] = calls[d]
  BY <1>1 DEF End, NoCall, NewCall
<1>3. \A d \in Slots, w \in Workspaces : Deletion(d, w)' <=> Deletion(d, w) /\ d # c
  BY <1>2 DEF Deletion
<1>4. deleting' = IF calls[c].op = "delete" THEN deleting \ {calls[c].ws} ELSE deleting
  BY DEF End, Release
<1>5. CASE calls[c].op = "delete"
  <2>1. Deletion(c, calls[c].ws)
    BY <1>5 DEF Deletion
  <2>2. \A d \in Slots : Deletion(d, calls[c].ws) => d = c
    BY <1>1, <1>5, <2>1 DEF LockIsExact
  <2>3. \A w \in Workspaces : Deletion(c, w) => w = calls[c].ws
    BY DEF Deletion
  <2> QED
    BY <1>1, <1>3, <1>4, <1>5, <2>2, <2>3 DEF LockIsExact
<1>6. CASE calls[c].op # "delete"
  <2>1. \A w : ~Deletion(c, w)
    BY <1>6 DEF Deletion
  <2> QED
    BY <1>1, <1>3, <1>4, <1>6, <2>1 DEF LockIsExact
<1> QED
  BY <1>5, <1>6

(* A call that goes on is about what it was about.                          *)
LEMMA ProceedKeeps ==
    ASSUME IInv, NEW c \in Slots, NEW phase, Proceed(c, phase)
    PROVE  \A d \in Slots, w \in Workspaces : Deletion(d, w)' <=> Deletion(d, w)
<1>1. calls \in [Slots -> Call]
  BY DEF IInv, TypeOK
<1>2. calls'[c].op = calls[c].op /\ calls'[c].ws = calls[c].ws
  BY <1>1 DEF Proceed, NewCall
<1>3. \A d \in Slots \ {c} : calls'[d] = calls[d]
  BY <1>1 DEF Proceed
<1> QED
  BY <1>2, <1>3 DEF Deletion

LEMMA LockAfterFail ==
    ASSUME IInv, LockIsExact, NEW c \in Slots, FailCall(c), calls' \in [Slots -> Call]
    PROVE  LockIsExact'
<1>1. CASE Proceed(c, "refetch") /\ UNCHANGED deleting
  BY <1>1, ProceedKeeps, LockKept
<1>2. CASE End(c)
  BY <1>2, LockReleased
<1> QED
  BY <1>1, <1>2 DEF FailCall

(* A slot that holds no deletion takes a call that is none.                  *)
LEMMA NoDeletion ==
    ASSUME IInv, LockIsExact, NEW c \in Slots, NEW op, NEW ws, NEW phase,
           op # "delete", calls[c].op # "delete", UNCHANGED deleting,
           calls' = [calls EXCEPT ![c] = NewCall(op, ws, phase)],
           calls' \in [Slots -> Call]
    PROVE  LockIsExact'
<1>1. calls'[c].op = op /\ \A d \in Slots \ {c} : calls'[d] = calls[d]
  BY DEF NewCall, IInv, TypeOK
<1>2. \A d \in Slots, w \in Workspaces : Deletion(d, w)' <=> Deletion(d, w)
  BY <1>1 DEF Deletion
<1> QED
  BY <1>2, LockKept

LEMMA LockInit == Init => LockIsExact
<1> SUFFICES ASSUME Init
             PROVE  LockIsExact
  OBVIOUS
<1>1. \A c \in Slots : calls[c].op # "delete"
  BY DEF Init, NoCall, NewCall
<1> QED
  BY <1>1 DEF Init, LockIsExact, Deletion

LEMMA LockNext == IInv /\ IInv' /\ LockIsExact /\ [Next]_vars => LockIsExact'
<1> SUFFICES ASSUME IInv, IInv', LockIsExact, [Next]_vars
             PROVE  LockIsExact'
  OBVIOUS
<1>a. calls \in [Slots -> Call] /\ calls' \in [Slots -> Call] /\ deleting \subseteq Workspaces
  BY DEF IInv, TypeOK
<1>1. CASE UNCHANGED <<calls, deleting>>
  BY <1>1, <1>a, LockKept DEF Deletion
<1>2. ASSUME NEW c \in Slots, Handle(c)
      PROVE  LockIsExact'
  <2>1. CASE calls[c].op = "delete"
    BY <1>2, <2>1, <1>a, ProceedKeeps, LockKept DEF Handle
  <2>2. CASE calls[c].op # "delete"
    BY <1>2, <2>2, <1>a, NoDeletion DEF Handle
  <2> QED
    BY <2>1, <2>2
<1>3. ASSUME NEW c \in Slots, Refuse(c) \/ LoseRequest(c)
      PROVE  LockIsExact'
  BY <1>3, <1>a, LockAfterFail DEF Refuse, LoseRequest
<1>4. ASSUME NEW c \in Slots, Remove(c)
      PROVE  LockIsExact'
  <2>1. UNCHANGED deleting /\ (Proceed(c, "fetch") \/ Proceed(c, "refetch"))
    BY <1>4 DEF Remove
  <2> QED
    BY <2>1, <1>a, ProceedKeeps, LockKept
<1>5. ASSUME NEW c \in Slots, Answer(c)
      PROVE  LockIsExact'
  <2>1. \A d \in Slots : calls'[d].op = calls[d].op /\ calls'[d].ws = calls[d].ws
    BY <1>5, <1>a DEF Answer, Call
  <2>2. \A d \in Slots, w \in Workspaces : Deletion(d, w)' <=> Deletion(d, w)
    BY <2>1 DEF Deletion
  <2> QED
    BY <1>5, <2>2, <1>a, LockKept DEF Answer
<1>6. ASSUME NEW c \in Slots, ApplyRefresh(c) \/ ApplyInitial(c)
      PROVE  LockIsExact'
  BY <1>6, LockReleased DEF ApplyRefresh, ApplyInitial
<1>7. ASSUME NEW c \in Slots, PollFires(c)
      PROVE  LockIsExact'
  <2>1. calls[c].op = "none"
    BY <1>7 DEF PollFires, Idle, IInv, CallsOK
  <2> QED
    BY <1>7, <2>1, <1>a, NoDeletion DEF PollFires
<1>8. ASSUME NEW c \in Slots, FailFetch(c)
      PROVE  LockIsExact'
  <2>1. CASE calls[c].op = "initial"
    <3>1. PICK half \in {"active", "archive"} : calls' = [calls EXCEPT ![c][half] = Failed]
      BY <1>8, <2>1 DEF FailFetch
    <3>2. \A d \in Slots : calls'[d].op = calls[d].op /\ calls'[d].ws = calls[d].ws
      BY <3>1, <1>a DEF Call
    <3>3. \A d \in Slots, w \in Workspaces : Deletion(d, w)' <=> Deletion(d, w)
      BY <3>2 DEF Deletion
    <3> QED
      BY <1>8, <2>1, <3>3, <1>a, LockKept DEF FailFetch
  <2>2. CASE calls[c].op # "initial"
    BY <1>8, <2>2, <1>a, LockAfterFail DEF FailFetch
  <2> QED
    BY <2>1, <2>2
<1>9. ASSUME NEW c \in Slots, NEW op \in Ops, NEW w \in Workspaces, Click(c, op, w)
      PROVE  LockIsExact'
  <2>1. calls[c].op = "none"
    BY <1>9 DEF Click, Idle, IInv, CallsOK
  <2>2. CASE op # "delete"
    BY <1>9, <2>1, <2>2, <1>a, NoDeletion DEF Click
  <2>3. CASE op = "delete"
    <3>1. w \notin deleting /\ deleting' = deleting \cup {w}
      BY <1>9, <2>3 DEF Click, MayStart
    <3>2. calls'[c].op = "delete" /\ calls'[c].ws = w /\ \A d \in Slots \ {c} : calls'[d] = calls[d]
      BY <1>9, <2>3, <1>a DEF Click, NewCall
    <3>3. \A d \in Slots, x \in Workspaces :
              Deletion(d, x)' <=> (d = c /\ x = w) \/ Deletion(d, x)
      BY <3>2, <2>1 DEF Deletion
    <3>4. \A d \in Slots : ~Deletion(d, w)
      BY <3>1 DEF LockIsExact
    <3> QED
      BY <3>1, <3>3, <3>4, <1>a DEF LockIsExact
  <2> QED
    BY <2>2, <2>3
<1>10. ASSUME NEW w \in Workspaces, JobWrites(w)
       PROVE  LockIsExact'
  BY <1>1, <1>10 DEF JobWrites
<1> QED
  BY <1>1, <1>2, <1>3, <1>4, <1>5, <1>6, <1>7, <1>8, <1>9, <1>10 DEF Next, CallStep, vars

(* For any workspaces and any number of calls: one deletion of a workspace is
   under way in the page at a time, and its lock is held exactly as long.    *)
THEOREM LockCorrect == Spec => []LockIsExact
  BY InitIInv, NextIInv, LockInit, LockNext, PTL DEF Spec

-----------------------------------------------------------------------------
LEMMA WatchedNext ==
    IInv /\ PreparationIsWatched /\ [Next]_vars => PreparationIsWatched'
<1> SUFFICES ASSUME IInv, PreparationIsWatched, [Next]_vars
             PROVE  PreparationIsWatched'
  OBVIOUS
<1>a. calls \in [Slots -> Call]
  BY DEF IInv, TypeOK
<1>b. ASSUME UNCHANGED <<shown, timer, loadError>>,
             \A d \in Slots : calls[d].op = "poll" => calls'[d].op = "poll"
      PROVE  PreparationIsWatched'
  BY <1>b DEF PreparationIsWatched
<1>c. ASSUME NEW c \in Slots, calls[c].op # "poll", UNCHANGED <<shown, timer, loadError>>,
             \A d \in Slots \ {c} : calls'[d] = calls[d]
      PROVE  PreparationIsWatched'
  BY <1>b, <1>c
<1>d. ASSUME NEW c \in Slots, FailCall(c)
      PROVE  \A d \in Slots \ {c} : calls'[d] = calls[d]
  BY <1>d, <1>a DEF FailCall, Proceed, End
<1>1. ASSUME NEW w \in Workspaces, JobWrites(w)
      PROVE  PreparationIsWatched'
  BY <1>1, <1>b DEF JobWrites, copy, page
<1>2. ASSUME NEW c \in Slots, Handle(c) \/ Refuse(c) \/ Remove(c) \/ LoseRequest(c)
      PROVE  PreparationIsWatched'
  <2>1. calls[c].phase \in {"request", "removing"}
    BY <1>2 DEF Handle, Refuse, Remove, LoseRequest
  <2>2. calls[c].op # "poll"
    BY <2>1 DEF IInv, CallsOK, Ops
  <2>3. UNCHANGED <<shown, timer, loadError>>
    BY <1>2 DEF Handle, Refuse, Remove, LoseRequest, copy, page
  <2>4. \A d \in Slots \ {c} : calls'[d] = calls[d]
    BY <1>2, <1>a, <1>d DEF Handle, Refuse, Remove, LoseRequest, Proceed
  <2> QED
    BY <2>2, <2>3, <2>4, <1>c
<1>3. ASSUME NEW c \in Slots, Answer(c)
      PROVE  PreparationIsWatched'
  <2>1. \A d \in Slots : calls'[d].op = calls[d].op
    BY <1>3, <1>a DEF Answer, Call
  <2> QED
    BY <1>3, <2>1, <1>b DEF Answer, copy, page
<1>4. ASSUME NEW c \in Slots, ApplyRefresh(c)
      PROVE  PreparationIsWatched'
  BY <1>4 DEF ApplyRefresh, Rearm, PreparationIsWatched
<1>5. ASSUME NEW c \in Slots, ApplyInitial(c)
      PROVE  PreparationIsWatched'
  BY <1>5 DEF ApplyInitial, Rearm, PreparationIsWatched
<1>6. ASSUME NEW c \in Slots, PollFires(c)
      PROVE  PreparationIsWatched'
  <2>1. calls'[c].op = "poll"
    BY <1>6, <1>a DEF PollFires, NewCall
  <2> QED
    BY <2>1 DEF PreparationIsWatched
<1>7. ASSUME NEW c \in Slots, FailFetch(c)
      PROVE  PreparationIsWatched'
  <2>1. UNCHANGED <<shown, timer>>
    BY <1>7 DEF FailFetch, copy
  <2>2. CASE calls[c].op = "poll"
    BY <1>7, <2>2 DEF FailFetch, PreparationIsWatched
  <2>3. CASE calls[c].op = "initial"
    <3>1. \A d \in Slots \ {c} : calls'[d] = calls[d]
      BY <1>7, <2>3, <1>a DEF FailFetch
    <3> QED
      BY <1>7, <2>1, <2>3, <3>1, <1>c DEF FailFetch
  <2>4. CASE calls[c].op \notin {"initial", "poll"}
    <3>1. FailCall(c) /\ (loadError => loadError') /\ (loadError' => loadError)
      BY <1>7, <2>4 DEF FailFetch
    <3> QED
      BY <2>1, <2>4, <3>1, <1>d DEF PreparationIsWatched
  <2> QED
    BY <2>2, <2>3, <2>4
<1>8. ASSUME NEW c \in Slots, NEW op \in Ops, NEW w \in Workspaces, Click(c, op, w)
      PROVE  PreparationIsWatched'
  <2>1. calls[c].op = "none"
    BY <1>8 DEF Click, Idle, IInv, CallsOK
  <2> QED
    BY <1>8, <2>1, <1>a, <1>c DEF Click, copy, page
<1>9. CASE UNCHANGED vars
  BY <1>9, <1>b DEF vars
<1> QED
  BY <1>1, <1>2, <1>3, <1>4, <1>5, <1>6, <1>7, <1>8, <1>9 DEF Next, CallStep

(* For any workspaces and any number of calls: a page that shows a preparation
   has its next refresh coming, or has given up with an error.              *)
THEOREM WatchedCorrect == Spec => []PreparationIsWatched
<1>1. Init => PreparationIsWatched
  BY DEF Init, PreparationIsWatched, Nothing, Refreshing, Absent
<1> QED
  BY <1>1, InitIInv, NextIInv, WatchedNext, PTL DEF Spec
-----------------------------------------------------------------------------
(* A page that shows a workspace as it is gives it a status in the one list *)
(* or in the other, and in none if it is absent.                           *)
LEMMA ShownAsItIs ==
    ASSUME TypeOK, shown = ActiveList, shelved = ArchivedList, NEW w \in Workspaces
    PROVE  /\ shown[w] # Absent => w \notin archived /\ status[w] = shown[w]
           /\ shelved[w] # Absent => w \in archived /\ status[w] = shelved[w]
           /\ shown[w] = Absent /\ shelved[w] = Absent => status[w] = Absent
  BY DEF ActiveList, ArchivedList

(* The statuses at which some page offers an operation.                     *)
LEMMA OfferedAt ==
    ASSUME NEW w \in Workspaces, NEW op \in Ops \ {"archive", "delete"}, Offered(op, w)
    PROVE  /\ op = "create"     => shown[w] = Absent /\ shelved[w] = Absent
           /\ op = "initialize" => shown[w] = "initialization_failed"
           /\ op = "configure"  => shown[w] = "needs_configuration"
           /\ op = "stop"       => shown[w] = "ready"
           /\ op = "resume"     => shown[w] = "stopped"
           /\ op = "restore"    => shelved[w] \in Statuses \ {"deletion_failed", "deleting"}
<1>1. /\ \A s : Offers(OnRow, op, s) => \/ op = "resume" /\ s = "stopped"
                                        \/ op = "stop" /\ s = "ready"
      /\ \A s : Offers(OnMenu, op, s) => \/ op = "resume" /\ s = "stopped"
                                         \/ op = "stop" /\ s = "ready"
  BY DEF Offers, OnRow, OnMenu
<1>2. \A s : Offers(OnReadiness, op, s) =>
                \/ op = "resume" /\ s = "stopped"
                \/ op = "configure" /\ s = "needs_configuration"
                \/ op = "initialize" /\ s = "initialization_failed"
  BY DEF Offers, OnReadiness
<1>3. \A s : Offers(OnShelf, op, s) => op = "restore" /\ s \in Statuses \ {"deletion_failed"}
  BY DEF Offers, OnShelf
<1> QED
  BY <1>1, <1>2, <1>3
     DEF Offered, OfferedOnRow, OfferedOnOverview, OfferedOnShelf, BeingDeleted

(* For any workspaces: what the pages offer on a workspace they show as it  *)
(* is, archive and delete apart, goes through: the tables of the buttons   *)
(* and the guards of the handlers agree status by status                   *)
(* (WorkspaceReadiness.tsx:52-192, archive.go:50-101).                     *)
THEOREM OffersCorrect == Spec => []OfferedIsAccepted
<1>1. ASSUME TypeOK, shown = ActiveList, shelved = ArchivedList,
             NEW w \in Workspaces, NEW op \in Ops \ {"archive", "delete"}, Offered(op, w)
      PROVE  Accepts(op, w)
  <2>1. Absent \notin Statuses
    BY DEF Absent, Statuses
  <2>2. CASE op \in {"create", "initialize", "configure"}
    BY <1>1, <2>1, <2>2, ShownAsItIs, OfferedAt DEF Accepts, Absent
  <2>3. CASE op \in {"stop", "resume", "restore"}
    BY <1>1, <2>1, <2>3, ShownAsItIs, OfferedAt DEF Accepts, Absent
  <2> QED
    BY <1>1, <2>2, <2>3 DEF Ops
<1>2. TypeOK => OfferedIsAccepted
  BY <1>1 DEF OfferedIsAccepted
<1> QED
  BY <1>2, TypeCorrect, PTL
=============================================================================
