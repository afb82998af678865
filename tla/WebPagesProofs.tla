---------------------------- MODULE WebPagesProofs ----------------------------
(***************************************************************************)
(* Proofs about the pages of a workspace, for any number of workspaces,       *)
(* messages, repositories, variables, requests and changes: no message is     *)
(* hidden, the feed is what was said and done, one activity of it works at     *)
(* most, tasks stay where they were made, the creation form holds branches of  *)
(* the repository it is about, and the variables panel at rest lists what its *)
(* workspace has.                                                         *)
(***************************************************************************)
EXTENDS WebPages, SequenceTheorems, WellFoundedInduction, FiniteSetTheorems, TLAPS

-----------------------------------------------------------------------------
(* The creation form.                                                      *)

ReadSet == [of : Repositories, current : BOOLEAN]

(* Only the read of the chosen repository still stands, and while it does the
   form says so.                                                           *)
FormInv ==
    /\ repository \in Repositories \cup {None} /\ offered \in Repositories \cup {None}
    /\ reads \subseteq ReadSet
    /\ \A read \in reads : read.current => read.of = repository /\ reading
    /\ AnsweredBranchesFit

(* The form as it opens.                                                    *)
LEMMA FormInitInv == FormInit => FormInv
  BY DEF FormInit, FormInv, AnsweredBranchesFit

(* Choosing: the read before is withdrawn and the new one is the only that
   stands.                                                                 *)
LEMMA ChooseKeeps ==
    ASSUME FormInv, NEW r \in Repositories, ChooseRepository(r)
    PROVE  FormInv'
<1>1. CASE r = repository
  BY <1>1 DEF ChooseRepository, FormInv, AnsweredBranchesFit, fetch, choice
<1>2. CASE r # repository
  <2>1. /\ repository' = r /\ reading' = TRUE /\ offered' = offered
        /\ reads' = Withdrawn \cup {[of |-> r, current |-> TRUE]}
    BY <1>2 DEF ChooseRepository
  <2>2. ASSUME NEW old \in Withdrawn PROVE old \in ReadSet /\ ~old.current
    <3>1. PICK read \in reads : old = [read EXCEPT !.current = FALSE]
      BY DEF Withdrawn
    <3>2. read \in ReadSet
      BY DEF FormInv
    <3> QED
      BY <3>1, <3>2 DEF ReadSet
  <2>3. reads' \subseteq ReadSet /\ \A read \in reads' : read.current => read.of = r
    <3> DEFINE new == [of |-> r, current |-> TRUE]
    <3>1. new \in ReadSet /\ new.of = r
      BY DEF ReadSet
    <3> HIDE DEF new
    <3>2. reads' = Withdrawn \cup {new}
      BY <2>1 DEF new
    <3> QED
      BY <2>2, <3>1, <3>2
  <2>4. AnsweredBranchesFit'
    BY <2>1 DEF AnsweredBranchesFit
  <2>5. \A read \in reads' : read.current => read.of = repository' /\ reading'
    BY <2>1, <2>3
  <2> QED
    BY <2>1, <2>3, <2>4, <2>5 DEF FormInv
<1> QED
  BY <1>1, <1>2

(* An answer that stands is the last one there is to wait for.              *)
LEMMA AnsweredKeeps ==
    ASSUME FormInv, NEW read \in reads, BranchesAnswered(read) \/ BranchesFail(read)
    PROVE  FormInv'
<1>1. read \in ReadSet
  BY DEF FormInv
<1>2. reads' = reads \ {read} /\ repository' = repository
  BY DEF BranchesAnswered, BranchesFail
<1>3. CASE read.current
  <2>1. reading /\ read.of = repository
    BY <1>3 DEF FormInv
  <2>2. \A other \in reads' : ~other.current
    BY <1>1, <1>2, <1>3, <2>1 DEF FormInv, ReadSet
  <2>3. CASE BranchesAnswered(read)
    <3>1. offered' = repository /\ base' = DefaultOf[repository] /\ existing' = None
      BY <1>3, <2>1, <2>3 DEF BranchesAnswered, Stands
    <3>2. repository \in Repositories
      BY <1>1, <2>1 DEF ReadSet
    <3> QED
      BY <1>2, <2>2, <3>1, <3>2 DEF FormInv, AnsweredBranchesFit
  <2>4. CASE BranchesFail(read)
    BY <1>2, <1>3, <2>2, <2>4 DEF BranchesFail, Stands, FormInv, AnsweredBranchesFit, choice
  <2> QED
    BY <2>3, <2>4
<1>4. CASE ~read.current
  <2>1. /\ UNCHANGED <<offered, base, existing>>
        /\ reading' <=> reading
        /\ refused' <=> refused
    BY <1>1, <1>4 DEF BranchesAnswered, BranchesFail, Stands, choice
  <2> QED
    BY <1>2, <2>1 DEF FormInv, AnsweredBranchesFit
<1> QED
  BY <1>3, <1>4

(* What the fields take is a branch that is offered, or none.               *)
LEMMA FieldKeeps ==
    ASSUME FormInv, SelectBase \/ SelectExisting \/ ChangeMode
    PROVE  FormInv'
<1>1. UNCHANGED <<repository, offered, reads, reading, refused>>
  BY DEF SelectBase, SelectExisting, ChangeMode, fetch
<1>2. ASSUME repository # None, ~reading, ~refused
      PROVE  /\ base' \in BranchesOf[repository] \cup {DefaultOf[repository], None}
             /\ existing' \in BranchesOf[repository] \cup {None}
  <2>1. /\ offered = repository
        /\ base \in BranchesOf[repository] \cup {DefaultOf[repository], None}
        /\ existing \in BranchesOf[repository] \cup {None}
    BY <1>2 DEF FormInv, AnsweredBranchesFit
  <2>2. Names = BranchesOf[repository]
    BY <1>2, <2>1 DEF Names
  <2>3. DefaultBranch = DefaultOf[repository]
    BY <1>2 DEF DefaultBranch
  <2> QED
    BY <2>1, <2>2, <2>3 DEF SelectBase, SelectExisting, ChangeMode
<1> QED
  BY <1>1, <1>2 DEF FormInv, AnsweredBranchesFit

(* Every step of the form keeps it.                                         *)
LEMMA FormNextInv ==
    ASSUME FormInv, FormNext
    PROVE  FormInv'
<1>1. ASSUME NEW r \in Repositories, ChooseRepository(r) PROVE FormInv'
  BY <1>1, ChooseKeeps
<1>2. ASSUME NEW read \in reads, BranchesAnswered(read) \/ BranchesFail(read) PROVE FormInv'
  BY <1>2, AnsweredKeeps
<1>3. CASE SelectBase \/ SelectExisting \/ ChangeMode
  BY <1>3, FieldKeeps
<1>4. CASE ChangeRepository \/ WriteName \/ EditVariables \/ SubmitForm
  BY <1>4 DEF ChangeRepository, WriteName, EditVariables, SubmitForm, fetch, choice,
              FormInv, AnsweredBranchesFit
<1>5. CASE ChangeSource
  BY <1>5 DEF ChangeSource, FormUnmounted, FormInv, AnsweredBranchesFit
<1> QED
  BY <1>1, <1>2, <1>3, <1>4, <1>5 DEF FormNext

-----------------------------------------------------------------------------
(* The variables panel.                                                    *)

LoadSet == [ws : Workspaces, current : BOOLEAN, answered : BOOLEAN,
            items : SUBSET Variables, at : Nat]
OpSet   == [kind : {"upsert", "delete"}, ws : Workspaces, name : Variables,
            phase : {"request", "reload", "reloaded"}, items : SUBSET Variables, at : Nat]

PanelTypes ==
    /\ stored \in [Workspaces -> SUBSET Variables]
    /\ changes \in Nat /\ asOf \in Nat
    /\ loads \subseteq LoadSet /\ ops \subseteq OpSet
    /\ typed \subseteq Variables
    /\ tangled \in BOOLEAN /\ owed \in BOOLEAN

(* With the change each workspace last had: a reading from after it is what is
   stored.                                                                 *)
Since(c, x) == x.at <= changes /\ (x.at >= c[x.ws] => x.items = stored[x.ws])

(* What the page is to show, or shows already if nothing came out of turn.  *)
Coming(c, shown) ==
    \/ \E l \in loads : l.current /\ (l.answered => l.at >= c[shown])
    \/ \E op \in ops : op.ws = shown /\ op.phase # "request"
                       /\ (op.phase = "reloaded" => op.at >= c[shown])
    \/ asOf >= c[shown] /\ (~tangled => listed = stored[shown])

Dated(c) ==
    /\ \A l \in loads : l.answered => Since(c, l)
    /\ \A op \in ops : op.phase = "reloaded" => Since(c, op)

Dates == [Workspaces -> 0..changes]

PanelInv(shown) ==
    /\ PanelTypes
    /\ \A l \in loads : l.current => l.ws = shown
    /\ \E c \in Dates : Dated(c) /\ (~owed => Coming(c, shown))

(* A panel at rest has nothing coming: it shows it.                         *)
LEMMA PanelShows ==
    ASSUME NEW shown, PanelInv(shown)
    PROVE  EnvironmentShownIsStored(shown)
BY DEF PanelInv, Coming, EnvironmentShownIsStored, PanelAtRest

(* A panel that has just been mounted or is about another workspace.        *)
LEMMA LoadOK ==
    ASSUME NEW w \in Workspaces
    PROVE  /\ Load(w) \in LoadSet /\ Load(w).ws = w
           /\ Load(w).current = TRUE /\ Load(w).answered = FALSE
BY DEF Load, LoadSet

(* A panel that is there again has a first reading to come.                 *)
LEMMA PanelMountedInv ==
    ASSUME PanelTypes, ops = {}, NEW w \in Workspaces, PanelMounted(w)
    PROVE  PanelInv(w)'
<1>1. /\ stored' \in [Workspaces -> SUBSET Variables] /\ loads' = {Load(w)} /\ ops' = {}
      /\ UNCHANGED <<changes, typed, asOf, tangled, owed>>
  BY DEF PanelMounted, form, past
<1>2. PanelTypes'
  BY <1>1, LoadOK DEF PanelTypes
<1> DEFINE c == [x \in Workspaces |-> 0]
<1>3. c \in Dates'
  BY <1>1 DEF PanelTypes, Dates
<1>4. Dated(c)' /\ Coming(c, w)'
  BY <1>1, LoadOK DEF Dated, Coming
<1> HIDE DEF c
<1> QED
  BY <1>1, <1>2, <1>3, <1>4, LoadOK DEF PanelInv

(* About another workspace, it has that one's to come; earlier loads are void. *)
LEMMA ShowWorkspaceInv ==
    ASSUME NEW shown, PanelInv(shown), NEW w \in Workspaces, ShowWorkspace(w)
    PROVE  PanelInv(w)'
<1> DEFINE old == {[l EXCEPT !.current = FALSE] : l \in loads}
<1>1. /\ loads' = old \cup {Load(w)}
      /\ typed' = {} /\ asOf' = 0 /\ tangled' = FALSE /\ owed' = FALSE
      /\ UNCHANGED <<stored, changes, ops>>
  BY DEF ShowWorkspace, FormReset
<1>2. ASSUME NEW m \in old
      PROVE  m \in LoadSet /\ ~m.current
             /\ \E l \in loads : /\ m.ws = l.ws /\ m.at = l.at /\ m.items = l.items
                               /\ m.answered = l.answered
  <2>1. PICK l \in loads : m = [l EXCEPT !.current = FALSE]
    OBVIOUS
  <2>2. l \in LoadSet
    BY DEF PanelInv, PanelTypes
  <2>3. m \in LoadSet /\ m = [ws |-> l.ws, current |-> FALSE, answered |-> l.answered,
                              items |-> l.items, at |-> l.at]
    BY <2>1, <2>2 DEF LoadSet
  <2> QED
    BY <2>3
<1> HIDE DEF old
<1>3. PanelTypes'
  BY <1>1, <1>2, LoadOK DEF PanelInv, PanelTypes
<1>4. \A l \in loads' : l.current => l.ws = w
  BY <1>1, <1>2, LoadOK
<1>5. PICK c \in Dates : Dated(c)
  BY DEF PanelInv
<1>6. Dated(c)'
  <2>1. \A l \in loads' : l.answered => Since(c, l)
    <3> SUFFICES ASSUME NEW m \in loads', m.answered PROVE Since(c, m)
      BY <1>1 DEF Since
    <3>1. m \in old
      BY <1>1, LoadOK
    <3>2. PICK l \in loads : m.ws = l.ws /\ m.at = l.at /\ m.items = l.items
                            /\ m.answered = l.answered
      BY <1>2, <3>1
    <3>3. Since(c, l)
      BY <1>5, <3>2 DEF Dated
    <3> QED
      BY <3>2, <3>3 DEF Since
  <2> QED
    BY <1>1, <1>5, <2>1 DEF Dated, Since
<1>7. Coming(c, w)'
  BY <1>1, LoadOK DEF Coming
<1> QED
  BY <1>1, <1>3, <1>4, <1>5, <1>6, <1>7 DEF PanelInv, Dates

(* A new call is no reading.                                                *)
LEMMA StartsInv ==
    ASSUME NEW shown \in Workspaces, PanelInv(shown),
           Submit(shown) \/ \E v \in Variables : RemoveVariable(shown, v)
    PROVE  PanelInv(shown)'
<1>1. PICK op \in OpSet : op.phase = "request" /\ ops' = ops \cup {op}
  <2>1. \A kind \in {"upsert", "delete"}, v \in Variables :
            Op(kind, shown, v) \in OpSet /\ Op(kind, shown, v).phase = "request"
    BY DEF Op, OpSet
  <2>2. typed \subseteq Variables
    BY DEF PanelInv, PanelTypes
  <2> QED
    BY <2>1, <2>2 DEF Submit, RemoveVariable, Start
<1>2. UNCHANGED <<stored, changes, listed, loads, typed, asOf, tangled, owed>>
  BY DEF Submit, RemoveVariable, form, past
<1>3. PICK c \in Dates : Dated(c) /\ (~owed => Coming(c, shown))
  BY DEF PanelInv
<1>4. PanelTypes'
  BY <1>1, <1>2 DEF PanelInv, PanelTypes
<1>5. Dated(c)'
  BY <1>1, <1>2, <1>3 DEF Dated, Since
<1>6. ~owed' => Coming(c, shown)'
  BY <1>1, <1>2, <1>3 DEF Coming
<1> QED
  BY <1>2, <1>3, <1>4, <1>5, <1>6 DEF PanelInv, Dates

(* What a call and a load become.                                           *)
LEMMA OpEdited ==
    ASSUME NEW op \in OpSet, NEW items \in SUBSET Variables, NEW at \in Nat
    PROVE  /\ [op EXCEPT !.phase = "reload"] \in OpSet
           /\ [op EXCEPT !.phase = "reload"].ws = op.ws
           /\ [op EXCEPT !.phase = "reload"].phase = "reload"
           /\ [op EXCEPT !.phase = "reloaded", !.items = items, !.at = at] \in
                  [kind : {op.kind}, ws : {op.ws}, name : {op.name},
                   phase : {"reloaded"}, items : {items}, at : {at}]
BY DEF OpSet

LEMMA LoadEdited ==
    ASSUME NEW l \in LoadSet, NEW items \in SUBSET Variables, NEW at \in Nat
    PROVE  [l EXCEPT !.answered = TRUE, !.items = items, !.at = at] \in
               [ws : {l.ws}, current : {l.current}, answered : {TRUE},
                items : {items}, at : {at}]
BY DEF LoadSet

(* A change dates the workspace it is in, and no other.                     *)
LEMMA ChangeDates ==
    ASSUME PanelTypes, NEW c \in Dates,
           NEW op, op.ws \in Workspaces, op.name \in Variables, Change(op)
    PROVE  /\ stored' \in [Workspaces -> SUBSET Variables] /\ changes' \in Nat
           /\ \E d \in [Workspaces -> 0..changes'] :
                 /\ \A x : x.ws \in Workspaces /\ x.at \in Nat /\ Since(c, x) => Since(d, x)'
                 /\ \A w \in Workspaces \ {op.ws} : d[w] = c[w] /\ stored'[w] = stored[w]
<1>1. changes \in Nat /\ changes' = changes + 1
  BY DEF PanelTypes, Change
<1>2. stored' \in [Workspaces -> SUBSET Variables]
      /\ \A w \in Workspaces \ {op.ws} : stored'[w] = stored[w]
  BY DEF PanelTypes, Change
<1>3. PICK d : d = [c EXCEPT ![op.ws] = changes + 1]
  OBVIOUS
<1>4. d \in [Workspaces -> 0..changes']
  BY <1>1, <1>3 DEF Dates
<1>5. d[op.ws] = changes + 1 /\ \A w \in Workspaces \ {op.ws} : d[w] = c[w]
  BY <1>3 DEF Dates
<1>6. ASSUME NEW x, x.ws \in Workspaces, x.at \in Nat, Since(c, x)
      PROVE  Since(d, x)'
  BY <1>1, <1>2, <1>5, <1>6 DEF Since
<1> QED
  BY <1>1, <1>2, <1>4, <1>5, <1>6

(* What is coming still comes when nothing of it is taken away.             *)
LEMMA ComingStays ==
    ASSUME NEW c, NEW d, NEW shown, Coming(c, shown),
           d[shown] = c[shown], stored'[shown] = stored[shown],
           \A l \in loads : l.current => l \in loads',
           \A op \in ops : op.ws = shown /\ op.phase # "request" => op \in ops',
           UNCHANGED <<listed, asOf, tangled>>
    PROVE  Coming(d, shown)'
BY DEF Coming

(* The server carried out a call of the page: its reload will show that.    *)
LEMMA ChangedInv ==
    ASSUME NEW shown \in Workspaces, PanelInv(shown), NEW op \in ops, Changed(op)
    PROVE  PanelInv(shown)'
<1>1. op \in OpSet /\ op.phase = "request"
  BY DEF PanelInv, PanelTypes, Changed
<1>2. PICK c \in Dates : Dated(c) /\ (~owed => Coming(c, shown))
  BY DEF PanelInv
<1>3. op.ws \in Workspaces /\ op.name \in Variables
  BY <1>1 DEF OpSet
<1>4. stored' \in [Workspaces -> SUBSET Variables] /\ changes' \in Nat
  BY <1>2, <1>3, ChangeDates DEF PanelInv, Changed
<1>5. PICK d \in [Workspaces -> 0..changes'] :
          /\ \A x : x.ws \in Workspaces /\ x.at \in Nat /\ Since(c, x) => Since(d, x)'
          /\ \A w \in Workspaces \ {op.ws} : d[w] = c[w] /\ stored'[w] = stored[w]
  BY <1>2, <1>3, ChangeDates DEF PanelInv, Changed
<1>6. PICK r \in OpSet : r.ws = op.ws /\ r.phase = "reload" /\ ops' = (ops \ {op}) \cup {r}
  BY <1>1, OpEdited DEF Changed, Reloads
<1>7. UNCHANGED <<listed, loads, asOf, tangled, owed>> /\ typed' = {}
  BY DEF Changed, FormReset, past
<1>8. PanelTypes'
  BY <1>4, <1>6, <1>7 DEF PanelInv, PanelTypes
<1>9. Dated(d)'
  BY <1>2, <1>5, <1>6, <1>7 DEF Dated, PanelInv, PanelTypes, LoadSet, OpSet
<1>10. ~owed' => Coming(d, shown)'
  <2>1. CASE op.ws = shown
    BY <2>1, <1>6 DEF Coming
  <2>2. CASE op.ws # shown
    <3>1. d[shown] = c[shown] /\ stored'[shown] = stored[shown]
      BY <2>2, <1>5
    <3> QED
      BY <3>1, <1>1, <1>2, <1>6, <1>7, ComingStays
  <2> QED
    BY <2>1, <2>2
<1> QED
  BY <1>7, <1>8, <1>9, <1>10 DEF PanelInv, Dates

(* A change nothing of the page asked for is owed, if it is in its workspace. *)
LEMMA ElsewhereInv ==
    ASSUME NEW shown \in Workspaces, PanelInv(shown), ChangedElsewhere(shown)
    PROVE  PanelInv(shown)'
<1>1. PICK w \in Workspaces, v \in Variables, kind \in {"upsert", "delete"} :
          Change(Op(kind, w, v)) /\ owed' = (owed \/ w = shown)
  BY DEF ChangedElsewhere
<1>2. PICK c \in Dates : Dated(c) /\ (~owed => Coming(c, shown))
  BY DEF PanelInv
<1>3. Op(kind, w, v).ws = w /\ Op(kind, w, v).name = v
  BY DEF Op
<1>4. stored' \in [Workspaces -> SUBSET Variables] /\ changes' \in Nat
  BY <1>1, <1>2, <1>3, ChangeDates DEF PanelInv
<1>5. PICK d \in [Workspaces -> 0..changes'] :
          /\ \A x : x.ws \in Workspaces /\ x.at \in Nat /\ Since(c, x) => Since(d, x)'
          /\ \A u \in Workspaces \ {w} : d[u] = c[u] /\ stored'[u] = stored[u]
  BY <1>1, <1>2, <1>3, ChangeDates DEF PanelInv
<1>6. UNCHANGED <<listed, loads, ops, typed, asOf, tangled>>
  BY DEF ChangedElsewhere, form
<1>7. owed' \in BOOLEAN /\ (~owed' => ~owed /\ w # shown)
  BY <1>1 DEF PanelInv, PanelTypes
<1>8. PanelTypes'
  BY <1>4, <1>6, <1>7 DEF PanelInv, PanelTypes
<1>9. Dated(d)'
  BY <1>2, <1>5, <1>6 DEF Dated, PanelInv, PanelTypes, LoadSet, OpSet
<1>10. ~owed' => Coming(d, shown)'
  BY <1>2, <1>5, <1>6, <1>7, ComingStays
<1> QED
  BY <1>6, <1>8, <1>9, <1>10 DEF PanelInv, Dates

(* A call that ends without its reload leaves a change owed.                 *)
LEMMA OpFailsInv ==
    ASSUME NEW shown \in Workspaces, PanelInv(shown), NEW op \in ops, OpFails(op, shown)
    PROVE  PanelInv(shown)'
<1>1. op \in OpSet
  BY DEF PanelInv, PanelTypes
<1>2. op.ws \in Workspaces /\ op.name \in Variables
  BY <1>1 DEF OpSet
<1>3. PICK c \in Dates : Dated(c) /\ (~owed => Coming(c, shown))
  BY DEF PanelInv
<1>4. ops' = ops \ {op} /\ UNCHANGED <<listed, loads, typed, asOf, tangled>>
  BY DEF OpFails
<1>5. CASE op.phase # "reload" /\ UNCHANGED <<stored, changes, owed>>
  <2>1. op.phase = "request"
    BY <1>5 DEF OpFails
  <2>2. PanelTypes'
    BY <1>4, <1>5 DEF PanelInv, PanelTypes
  <2>3. Dated(c)'
    BY <1>3, <1>4, <1>5 DEF Dated, Since
  <2>4. ~owed' => Coming(c, shown)'
    BY <1>3, <1>4, <1>5, <2>1, ComingStays
  <2> QED
    BY <1>3, <1>4, <1>5, <2>2, <2>3, <2>4 DEF PanelInv, Dates
<1>6. CASE Change(op) /\ op.phase = "request" /\ owed' = (owed \/ op.ws = shown)
  <2>1. stored' \in [Workspaces -> SUBSET Variables] /\ changes' \in Nat
    BY <1>2, <1>3, <1>6, ChangeDates DEF PanelInv
  <2>2. PICK d \in [Workspaces -> 0..changes'] :
            /\ \A x : x.ws \in Workspaces /\ x.at \in Nat /\ Since(c, x) => Since(d, x)'
            /\ \A u \in Workspaces \ {op.ws} : d[u] = c[u] /\ stored'[u] = stored[u]
    BY <1>2, <1>3, <1>6, ChangeDates DEF PanelInv
  <2>3. owed' \in BOOLEAN /\ (~owed' => ~owed /\ op.ws # shown)
    BY <1>6 DEF PanelInv, PanelTypes
  <2>4. PanelTypes'
    BY <1>4, <2>1, <2>3 DEF PanelInv, PanelTypes
  <2>5. Dated(d)'
    BY <1>3, <1>4, <2>2 DEF Dated, PanelInv, PanelTypes, LoadSet, OpSet
  <2>6. ~owed' => Coming(d, shown)'
    BY <1>3, <1>4, <1>6, <2>2, <2>3, ComingStays
  <2> QED
    BY <1>4, <2>4, <2>5, <2>6 DEF PanelInv, Dates
<1>7. CASE UNCHANGED <<stored, changes>> /\ owed' = (owed \/ op.ws = shown)
  <2>1. owed' \in BOOLEAN /\ (~owed' => ~owed /\ op.ws # shown)
    BY <1>7 DEF PanelInv, PanelTypes
  <2>2. PanelTypes'
    BY <1>4, <1>7, <2>1 DEF PanelInv, PanelTypes
  <2>3. Dated(c)'
    BY <1>3, <1>4, <1>7 DEF Dated, Since
  <2>4. ~owed' => Coming(c, shown)'
    BY <1>3, <1>4, <1>7, <2>1, ComingStays
  <2> QED
    BY <1>3, <1>4, <1>7, <2>2, <2>3, <2>4 DEF PanelInv, Dates
<1> QED
  BY <1>5, <1>6, <1>7 DEF OpFails

(* A reading has every change so far.                                       *)
LEMMA AnswerReloadInv ==
    ASSUME NEW shown \in Workspaces, PanelInv(shown), NEW op \in ops, AnswerReload(op, shown)
    PROVE  PanelInv(shown)'
<1>1. op \in OpSet /\ op.ws \in Workspaces
  BY DEF PanelInv, PanelTypes, OpSet
<1>2. PICK c \in Dates : Dated(c) /\ (~owed => Coming(c, shown))
  BY DEF PanelInv
<1>3. stored[op.ws] \in SUBSET Variables /\ changes \in Nat
      /\ \A w \in Workspaces : changes >= c[w]
  BY <1>1 DEF PanelInv, PanelTypes, Dates
<1>4. PICK r : /\ r = [op EXCEPT !.phase = "reloaded", !.items = stored[op.ws], !.at = changes]
               /\ ops' = (ops \ {op}) \cup {r}
  BY DEF AnswerReload
<1>5. r \in OpSet /\ r.ws = op.ws /\ r.phase = "reloaded" /\ r.items = stored[op.ws] /\ r.at = changes
  <2>1. r \in [kind : {op.kind}, ws : {op.ws}, name : {op.name},
               phase : {"reloaded"}, items : {stored[op.ws]}, at : {changes}]
    BY <1>1, <1>3, <1>4, OpEdited
  <2> QED
    BY <1>1, <1>3, <2>1 DEF OpSet
<1>6. /\ UNCHANGED <<stored, changes, listed, loads, typed, asOf, tangled>>
      /\ owed' = (owed /\ op.ws # shown)
  BY DEF AnswerReload, Reads, form
<1>7. owed' \in BOOLEAN /\ (~owed' => ~owed \/ op.ws = shown)
  BY <1>6 DEF PanelInv, PanelTypes
<1>8. PanelTypes'
  BY <1>4, <1>5, <1>6, <1>7 DEF PanelInv, PanelTypes
<1>9. Dated(c)'
  <2>1. Since(c, r)'
    BY <1>3, <1>5, <1>6 DEF Since
  <2> QED
    BY <1>2, <1>4, <1>6, <2>1 DEF Dated, Since
<1>10. ~owed' => Coming(c, shown)'
  <2>1. CASE op.ws = shown
    BY <2>1, <1>1, <1>3, <1>4, <1>5, <1>6 DEF Coming
  <2>2. CASE op.ws # shown
    BY <2>2, <1>2, <1>4, <1>6, <1>7, ComingStays
  <2> QED
    BY <2>1, <2>2
<1> QED
  BY <1>2, <1>6, <1>8, <1>9, <1>10 DEF PanelInv, Dates

(* So has a load, if it still stands.                                       *)
LEMMA AnswerLoadInv ==
    ASSUME NEW shown \in Workspaces, PanelInv(shown), NEW l \in loads, AnswerLoad(l, shown)
    PROVE  PanelInv(shown)'
<1>1. l \in LoadSet /\ l.ws \in Workspaces /\ l.current \in BOOLEAN
      /\ (l.current => l.ws = shown)
  BY DEF PanelInv, PanelTypes, LoadSet
<1>2. PICK c \in Dates : Dated(c) /\ (~owed => Coming(c, shown))
  BY DEF PanelInv
<1>3. stored[l.ws] \in SUBSET Variables /\ changes \in Nat
      /\ \A w \in Workspaces : changes >= c[w]
  BY <1>1 DEF PanelInv, PanelTypes, Dates
<1>4. PICK r : /\ r = [l EXCEPT !.answered = TRUE, !.items = stored[l.ws], !.at = changes]
               /\ loads' = (loads \ {l}) \cup {r}
  BY DEF AnswerLoad
<1>5. r \in LoadSet /\ r.ws = l.ws /\ r.current = l.current
      /\ r.items = stored[l.ws] /\ r.at = changes
  <2>1. r \in [ws : {l.ws}, current : {l.current}, answered : {TRUE},
               items : {stored[l.ws]}, at : {changes}]
    BY <1>1, <1>3, <1>4, LoadEdited
  <2> QED
    BY <1>1, <1>3, <2>1 DEF LoadSet
<1>6. UNCHANGED <<stored, changes, listed, ops, typed, asOf, tangled>>
  BY DEF AnswerLoad, form
<1>7. owed' \in BOOLEAN /\ (~l.current => owed' = owed)
  BY DEF AnswerLoad, Reads, PanelInv, PanelTypes
<1>8. PanelTypes'
  BY <1>4, <1>5, <1>6, <1>7 DEF PanelInv, PanelTypes
<1>9. Dated(c)'
  <2>1. Since(c, r)'
    BY <1>3, <1>5, <1>6 DEF Since
  <2> QED
    BY <1>2, <1>4, <1>6, <2>1 DEF Dated, Since
<1>10. ~owed' => Coming(c, shown)'
  <2>1. CASE l.current
    BY <2>1, <1>3, <1>4, <1>5, <1>6 DEF Coming
  <2>2. CASE ~l.current
    BY <2>2, <1>2, <1>4, <1>6, <1>7, ComingStays
  <2> QED
    BY <2>1, <2>2
<1>11. \A x \in loads' : x.current => x.ws = shown
  BY <1>1, <1>4, <1>5 DEF PanelInv
<1> QED
  BY <1>2, <1>6, <1>8, <1>9, <1>10, <1>11 DEF PanelInv, Dates

(* An answer that is shown: of another workspace or older than one shown
   before, it is out of turn; else it is what the workspace has, or another
   that will be is still to come.                                          *)
LEMMA DisplayedInv ==
    ASSUME NEW shown \in Workspaces, PanelTypes, NEW c \in Dates,
           NEW x, x.at \in Nat, Since(c, x), stored' = stored,
           Displays(x.ws, x.items, x.at, shown)
    PROVE  /\ asOf' \in Nat /\ tangled' \in BOOLEAN
           /\ x.at >= c[shown] => Coming(c, shown)'
           /\ asOf >= c[shown] => Coming(c, shown)'
<1>1. asOf \in Nat /\ c[shown] \in Nat
  BY DEF PanelTypes, Dates
<1>2. /\ listed' = x.items
      /\ tangled' = (x.ws # shown \/ x.at < asOf)
      /\ asOf' = IF x.at > asOf THEN x.at ELSE asOf
  BY DEF Displays
<1>3. asOf' \in Nat /\ tangled' \in BOOLEAN /\ asOf' >= asOf /\ asOf' >= x.at
  BY <1>1, <1>2
<1>4. (x.at >= c[shown] \/ asOf >= c[shown]) => Coming(c, shown)'
  <2> SUFFICES ASSUME x.at >= c[shown] \/ asOf >= c[shown] PROVE Coming(c, shown)'
    OBVIOUS
  <2>1. asOf' >= c[shown]
    BY <1>1, <1>3
  <2>2. CASE tangled'
    BY <2>1, <2>2 DEF Coming
  <2>3. CASE ~tangled'
    <3>1. x.ws = shown /\ x.at >= asOf
      <4>1. ~(x.ws # shown \/ x.at < asOf)
        BY <1>2, <2>3, Zenon
      <4> QED
        BY <1>1, <4>1
    <3>2. x.at >= c[shown]
      BY <1>1, <3>1
    <3> QED
      BY <2>1, <3>1, <3>2, <1>2 DEF Since, Coming
  <2> QED
    BY <1>3, <2>2, <2>3
<1>5. /\ x.at >= c[shown] => Coming(c, shown)'
      /\ asOf >= c[shown] => Coming(c, shown)'
  BY <1>4
<1>6. asOf' \in Nat /\ tangled' \in BOOLEAN
  BY <1>3
<1> QED
  BY <1>5, <1>6

(* An answer is taken: it was what was to come, or that comes still.        *)
LEMMA TakeReloadInv ==
    ASSUME NEW shown \in Workspaces, PanelInv(shown), NEW op \in ops, TakeReload(op, shown)
    PROVE  PanelInv(shown)'
<1>1. op \in OpSet /\ op.at \in Nat /\ op.phase = "reloaded" /\ PanelTypes
  BY DEF PanelInv, PanelTypes, OpSet, TakeReload
<1>2. PICK c \in Dates : Dated(c) /\ (~owed => Coming(c, shown))
  BY DEF PanelInv
<1>3. /\ ops' = ops \ {op} /\ UNCHANGED <<stored, changes, loads, typed, owed>>
      /\ stored' = stored /\ Displays(op.ws, op.items, op.at, shown)
  BY DEF TakeReload
<1>4. Since(c, op)
  BY <1>1, <1>2 DEF Dated
<1>5. /\ asOf' \in Nat /\ tangled' \in BOOLEAN
      /\ op.at >= c[shown] => Coming(c, shown)'
      /\ asOf >= c[shown] => Coming(c, shown)'
  BY <1>1, <1>3, <1>4, DisplayedInv
<1>6. PanelTypes'
  BY <1>1, <1>3, <1>5 DEF PanelTypes
<1>7. Dated(c)'
  BY <1>2, <1>3 DEF Dated, Since
<1>8. ~owed' => Coming(c, shown)'
  <2> SUFFICES ASSUME ~owed PROVE Coming(c, shown)'
    BY <1>3
  <2>1. CASE asOf >= c[shown] \/ op.at >= c[shown]
    BY <2>1, <1>5
  <2>2. CASE ~(asOf >= c[shown] \/ op.at >= c[shown])
    <3>1. \/ \E l \in loads : l.current /\ (l.answered => l.at >= c[shown])
          \/ \E o \in ops : o # op /\ o.ws = shown /\ o.phase # "request"
                            /\ (o.phase = "reloaded" => o.at >= c[shown])
      BY <1>1, <1>2, <2>2 DEF Coming
    <3> QED
      BY <1>3, <3>1 DEF Coming
  <2> QED
    BY <2>1, <2>2
<1> QED
  BY <1>2, <1>3, <1>6, <1>7, <1>8 DEF PanelInv, Dates

(* A load that was withdrawn is not shown.                                  *)
LEMMA TakeLoadInv ==
    ASSUME NEW shown \in Workspaces, PanelInv(shown), NEW l \in loads, TakeLoad(l, shown)
    PROVE  PanelInv(shown)'
<1>1. l \in LoadSet /\ l.at \in Nat /\ l.answered /\ PanelTypes
  BY DEF PanelInv, PanelTypes, LoadSet, TakeLoad
<1>2. PICK c \in Dates : Dated(c) /\ (~owed => Coming(c, shown))
  BY DEF PanelInv
<1>3. /\ loads' = loads \ {l} /\ UNCHANGED <<stored, changes, ops, typed, owed>>
      /\ stored' = stored
  BY DEF TakeLoad, form
<1>4. Since(c, l)
  BY <1>1, <1>2 DEF Dated
<1>5. Dated(c)'
  BY <1>2, <1>3 DEF Dated, Since
<1>6. CASE l.current
  <2>1. Displays(l.ws, l.items, l.at, shown)
    BY <1>6 DEF TakeLoad
  <2>2. /\ asOf' \in Nat /\ tangled' \in BOOLEAN
        /\ l.at >= c[shown] => Coming(c, shown)'
        /\ asOf >= c[shown] => Coming(c, shown)'
    BY <1>1, <1>3, <1>4, <2>1, DisplayedInv
  <2>3. PanelTypes'
    BY <1>1, <1>3, <2>2 DEF PanelTypes
  <2>4. ~owed' => Coming(c, shown)'
    <3> SUFFICES ASSUME ~owed PROVE Coming(c, shown)'
      BY <1>3
    <3>1. CASE asOf >= c[shown] \/ l.at >= c[shown]
      BY <3>1, <2>2
    <3>2. CASE ~(asOf >= c[shown] \/ l.at >= c[shown])
      <4>1. \/ \E x \in loads : x # l /\ x.current /\ (x.answered => x.at >= c[shown])
            \/ \E op \in ops : op.ws = shown /\ op.phase # "request"
                               /\ (op.phase = "reloaded" => op.at >= c[shown])
        BY <1>1, <1>2, <3>2 DEF Coming
      <4> QED
        BY <1>3, <4>1 DEF Coming
    <3> QED
      BY <3>1, <3>2
  <2> QED
    BY <1>2, <1>3, <1>5, <2>3, <2>4 DEF PanelInv, Dates
<1>7. CASE ~l.current
  <2>1. UNCHANGED <<listed, tangled, asOf>>
    BY <1>7 DEF TakeLoad
  <2>2. PanelTypes'
    BY <1>1, <1>3, <2>1 DEF PanelTypes
  <2>3. ~owed' => Coming(c, shown)'
    BY <1>2, <1>3, <1>7, <2>1, ComingStays
  <2> QED
    BY <1>2, <1>3, <1>5, <2>2, <2>3 DEF PanelInv, Dates
<1> QED
  BY <1>6, <1>7

(* A load that fails leaves a reading owed.                                 *)
LEMMA FailLoadInv ==
    ASSUME NEW shown \in Workspaces, PanelInv(shown), NEW l \in loads, FailLoad(l)
    PROVE  PanelInv(shown)'
<1>1. PICK c \in Dates : Dated(c) /\ (~owed => Coming(c, shown))
  BY DEF PanelInv
<1>2. /\ loads' = loads \ {l} /\ owed' = (owed \/ l.current)
      /\ UNCHANGED <<stored, changes, listed, ops, typed, asOf, tangled>>
  BY DEF FailLoad, form
<1>3. owed' \in BOOLEAN /\ (~owed' => ~owed /\ ~l.current)
  BY <1>2 DEF PanelInv, PanelTypes
<1>4. PanelTypes'
  BY <1>2, <1>3 DEF PanelInv, PanelTypes
<1>5. Dated(c)'
  BY <1>1, <1>2 DEF Dated, Since
<1>6. ~owed' => Coming(c, shown)'
  BY <1>1, <1>2, <1>3, ComingStays
<1> QED
  BY <1>1, <1>2, <1>4, <1>5, <1>6 DEF PanelInv, Dates

(* What is typed in the form changes nothing of that.                       *)
LEMMA FormFieldsInv ==
    ASSUME NEW shown \in Workspaces, PanelInv(shown),
           typed' \subseteq Variables,
           UNCHANGED <<stored, changes, listed, loads, ops, past>>
    PROVE  PanelInv(shown)'
<1>1. UNCHANGED <<stored, changes, listed, loads, ops, asOf, tangled, owed>>
  BY DEF past
<1>2. PICK c \in Dates : Dated(c) /\ (~owed => Coming(c, shown))
  BY DEF PanelInv
<1>3. PanelTypes'
  BY <1>1 DEF PanelInv, PanelTypes
<1>4. Dated(c)'
  BY <1>1, <1>2 DEF Dated, Since
<1>5. ~owed' => Coming(c, shown)'
  BY <1>1, <1>2, ComingStays
<1> QED
  BY <1>1, <1>2, <1>3, <1>4, <1>5 DEF PanelInv, Dates

(* Every step of the panel keeps it.                                        *)
LEMMA PanelNextInv ==
    ASSUME NEW shown \in Workspaces, PanelInv(shown), PanelNext(shown)
    PROVE  PanelInv(shown)'
<1>1. CASE Submit(shown) \/ \E v \in Variables : RemoveVariable(shown, v)
  BY <1>1, StartsInv
<1>2. CASE Cancel \/ \E v \in Variables : TypeName(v) \/ ReplaceVariable(v)
  <2>1. typed' \subseteq Variables /\ UNCHANGED <<stored, changes, listed, loads, ops, past>>
    BY <1>2 DEF Cancel, TypeName, ReplaceVariable, FormReset
  <2> QED
    BY <2>1, FormFieldsInv
<1>3. CASE ChangedElsewhere(shown)
  BY <1>3, ElsewhereInv
<1>4. ASSUME NEW l \in loads, AnswerLoad(l, shown) \/ TakeLoad(l, shown) \/ FailLoad(l)
      PROVE  PanelInv(shown)'
  BY <1>4, AnswerLoadInv, TakeLoadInv, FailLoadInv
<1>5. ASSUME NEW op \in ops, \/ Changed(op) \/ OpFails(op, shown)
                             \/ AnswerReload(op, shown) \/ TakeReload(op, shown)
      PROVE  PanelInv(shown)'
  BY <1>5, ChangedInv, OpFailsInv, AnswerReloadInv, TakeReloadInv
<1> QED
  BY <1>1, <1>2, <1>3, <1>4, <1>5 DEF PanelNext

-----------------------------------------------------------------------------
(* Induction, as a fact about sets of numbers.                              *)
LEMMA UpTo ==
    ASSUME NEW n \in Nat, NEW G, 0 \in G, \A k \in 0..n : k \in G /\ k < n => k + 1 \in G
    PROVE  \A k \in 0..n : k \in G
<1>. DEFINE U == {k \in 0..n : k \notin G}
            R == {ss \in Nat \X Nat : ss[1] < ss[2]}
<1>. SUFFICES ASSUME U # {} PROVE FALSE
  OBVIOUS
<1>1. U \subseteq Nat
  OBVIOUS
<1>2. IsWellFoundedOn(R, Nat)
  BY NatLessThanWellFounded DEF OpToRel
<1>. HIDE DEF R
<1>3. PICK least \in U : \A v \in U : ~(<<v, least>> \in R)
  <2>. HIDE DEF U
  <2>. QED  BY <1>1, <1>2, WFMin
<1>4. \A v \in U : ~(v < least)
  BY <1>1, <1>3 DEF R
<1>5. least \in 0..n /\ least \notin G /\ least # 0
  OBVIOUS
<1>6. least - 1 \in 0..n /\ least - 1 < least /\ least - 1 < n
  BY <1>5
<1>7. least - 1 \in G
  BY <1>4, <1>6
<1>8. (least - 1) + 1 \in G
  BY <1>6, <1>7
<1>. QED  BY <1>5, <1>8

(* The greatest of the first numbers, and of those there are.               *)
LEMMA GreatestIs ==
    ASSUME NEW k \in Nat, NEW s \in SUBSET (1..k + 1), k + 1 \in s
    PROVE  Max(s) = k + 1
<1>1. \A x \in s : (\A y \in s : x >= y) => x = k + 1
  <2>. TAKE x \in s
  <2>. HAVE \A y \in s : x >= y
  <2>1. x >= k + 1 /\ x \in 1..k + 1
    OBVIOUS
  <2>. QED  BY <2>1
<1>2. \A y \in s : k + 1 >= y
  OBVIOUS
<1>. QED  BY <1>1, <1>2 DEF Max

-----------------------------------------------------------------------------
(* The pass over the messages, message by message.                          *)

Blank == [items |-> <<>>, open |-> 0, request |-> 0]

LEMMA FeedFoldIs ==
    ASSUME NEW list, NEW n \in Nat
    PROVE  \E it : it = [s \in SUBSET (1..n) |->
                           IF s = {} THEN Blank
                           ELSE ReadMessage(it[s \ {Max(s)}], list[Max(s)])]
<1>. DEFINE Is(k, it) == it = [s \in SUBSET (1..k) |->
                           IF s = {} THEN Blank
                           ELSE ReadMessage(it[s \ {Max(s)}], list[Max(s)])]
            G == {k \in Nat : \E it : Is(k, it)}
<1>1. 0 \in G
  <2>. DEFINE it == [s \in SUBSET (1..0) |-> Blank]
  <2>1. \A s \in SUBSET (1..0) : s = {}
    OBVIOUS
  <2>2. Is(0, it)
    BY <2>1
  <2>. QED  BY <2>2
<1>2. ASSUME NEW k \in Nat, k \in G PROVE k + 1 \in G
  <2>1. PICK it : Is(k, it)
    BY <1>2
  <2>. DEFINE on == [s \in SUBSET (1..k + 1) |->
                       IF k + 1 \in s THEN ReadMessage(it[s \ {k + 1}], list[k + 1]) ELSE it[s]]
  <2>2. ASSUME NEW s \in SUBSET (1..k + 1)
        PROVE  on[s] = IF s = {} THEN Blank
                       ELSE ReadMessage(on[s \ {Max(s)}], list[Max(s)])
    <3>1. CASE k + 1 \in s
      <4>1. Max(s) = k + 1
        BY <3>1, GreatestIs
      <4>2. on[s \ {k + 1}] = it[s \ {k + 1}]
        OBVIOUS
      <4>3. on[s] = ReadMessage(it[s \ {k + 1}], list[k + 1])
        BY <3>1
      <4>. QED  BY <3>1, <4>1, <4>2, <4>3
    <3>2. CASE k + 1 \notin s
      <4>1. s \in SUBSET (1..k) /\ s \ {Max(s)} \in SUBSET (1..k)
        <5>1. \A y \in s : y \in 1..k
          BY <3>2
        <5>. QED  BY <5>1
      <4>2. on[s] = it[s] /\ on[s \ {Max(s)}] = it[s \ {Max(s)}]
        BY <3>2
      <4>3. it[s] = IF s = {} THEN Blank
                    ELSE ReadMessage(it[s \ {Max(s)}], list[Max(s)])
        BY <2>1, <4>1
      <4>. QED  BY <4>2, <4>3
    <3>. QED  BY <3>1, <3>2
  <2>3. Is(k + 1, on)
    BY <2>2
  <2>. HIDE DEF Is, on
  <2>4. \E x : Is(k + 1, x)
    BY <2>3
  <2>. QED  BY <2>4
<1>. HIDE DEF G
<1>3. n \in G
  BY <1>1, <1>2, UpTo
<1>. QED  BY <1>3 DEF G

LEMMA FeedPass ==
    ASSUME NEW list, NEW n \in Nat, DOMAIN list = 1..n
    PROVE  \E f : /\ f[0] = Blank
                  /\ \A k \in 0..n : k < n => f[k + 1] = ReadMessage(f[k], list[k + 1])
                  /\ Feed(list) = f[n].items
<1>. DEFINE Is(it) == it = [s \in SUBSET (1..n) |->
                           IF s = {} THEN Blank
                           ELSE ReadMessage(it[s \ {Max(s)}], list[Max(s)])]
            it == CHOOSE x : Is(x)
            f == [k \in 0..n |-> it[1..k]]
<1>1. Is(it)
  <2>1. \E x : Is(x)
    BY FeedFoldIs
  <2>. HIDE DEF Is
  <2>. QED  BY <2>1
<1>2. Feed(list) = it[1..n].items
  BY DEF Feed, FoldLeft, MapThenFoldSet, Blank
<1>. HIDE DEF it
<1>3. f[0] = Blank
  <2>1. 1..0 = {}
    OBVIOUS
  <2>. QED  BY <1>1, <2>1
<1>4. ASSUME NEW k \in 0..n, k < n PROVE f[k + 1] = ReadMessage(f[k], list[k + 1])
  <2>. DEFINE s == 1..k + 1
  <2>1. k \in Nat /\ k + 1 \in 0..n /\ s \in SUBSET (1..n) /\ k + 1 \in s
    BY <1>4
  <2>2. s \ {k + 1} = 1..k
    BY <2>1
  <2>3. Max(s) = k + 1
    BY <2>1, GreatestIs
  <2>4. f[k + 1] = it[s] /\ f[k] = it[1..k]
    BY <2>1
  <2>. HIDE DEF s, f
  <2>5. it[s] = ReadMessage(it[s \ {Max(s)}], list[Max(s)])
    BY <1>1, <2>1
  <2>. QED  BY <2>2, <2>3, <2>4, <2>5
<1>5. Feed(list) = f[n].items
  BY <1>2
<1>. HIDE DEF f
<1>. QED  BY <1>3, <1>4, <1>5

(* And over the past conversations, the latest first.                       *)

Before(after, e) == e.messages \o after
Told(last, list) == FoldLeft(Before, last, list)
TellIs(it, last, list, n) ==
    it = [s \in SUBSET (1..n) |-> IF s = {} THEN last
                                  ELSE Before(it[s \ {Max(s)}], list[Max(s)])]
LEMMA PastFoldIs ==
    ASSUME NEW list, NEW last, NEW n \in Nat
    PROVE  \E it : TellIs(it, last, list, n)
<1>. DEFINE Is(k, it) == TellIs(it, last, list, k)
            G == {k \in Nat : \E it : Is(k, it)}
<1>. USE DEF TellIs
<1>1. 0 \in G
  <2>. DEFINE it == [s \in SUBSET (1..0) |-> last]
  <2>1. \A s \in SUBSET (1..0) : s = {}
    OBVIOUS
  <2>2. Is(0, it)
    BY <2>1
  <2>. QED  BY <2>2
<1>2. ASSUME NEW k \in Nat, k \in G PROVE k + 1 \in G
  <2>1. PICK it : Is(k, it)
    BY <1>2
  <2>. DEFINE on == [s \in SUBSET (1..k + 1) |->
                       IF k + 1 \in s THEN Before(it[s \ {k + 1}], list[k + 1]) ELSE it[s]]
  <2>2. ASSUME NEW s \in SUBSET (1..k + 1)
        PROVE  on[s] = IF s = {} THEN last
                       ELSE Before(on[s \ {Max(s)}], list[Max(s)])
    <3>1. CASE k + 1 \in s
      <4>1. Max(s) = k + 1
        BY <3>1, GreatestIs
      <4>2. on[s \ {k + 1}] = it[s \ {k + 1}]
        OBVIOUS
      <4>3. on[s] = Before(it[s \ {k + 1}], list[k + 1])
        BY <3>1
      <4>. QED  BY <3>1, <4>1, <4>2, <4>3
    <3>2. CASE k + 1 \notin s
      <4>1. s \in SUBSET (1..k) /\ s \ {Max(s)} \in SUBSET (1..k)
        <5>1. \A y \in s : y \in 1..k
          BY <3>2
        <5>. QED  BY <5>1
      <4>2. on[s] = it[s] /\ on[s \ {Max(s)}] = it[s \ {Max(s)}]
        BY <3>2
      <4>3. it[s] = IF s = {} THEN last
                    ELSE Before(it[s \ {Max(s)}], list[Max(s)])
        BY <2>1, <4>1
      <4>. QED  BY <4>2, <4>3
    <3>. QED  BY <3>1, <3>2
  <2>3. Is(k + 1, on)
    BY <2>2
  <2>. HIDE DEF Is, on
  <2>4. \E x : Is(k + 1, x)
    BY <2>3
  <2>. QED  BY <2>4
<1>. HIDE DEF G
<1>3. n \in G
  BY <1>1, <1>2, UpTo
<1>. QED  BY <1>3 DEF G

LEMMA PastPass ==
    ASSUME NEW list, NEW last, NEW n \in Nat, DOMAIN list = 1..n
    PROVE  \E f : /\ f[0] = last
                  /\ \A k \in 0..n : k < n => f[k + 1] = Before(f[k], list[k + 1])
                  /\ Told(last, list) = f[n]
<1>. DEFINE it == CHOOSE x : TellIs(x, last, list, n)
            f == [k \in 0..n |-> it[1..k]]
<1>1. TellIs(it, last, list, n)
  BY PastFoldIs
<1>2. Told(last, list) = it[1..n]
  BY DEF Told, FoldLeft, MapThenFoldSet, TellIs
<1>. HIDE DEF it
<1>3. f[0] = last
  <2>1. 1..0 = {}
    OBVIOUS
  <2>. QED  BY <1>1, <2>1 DEF TellIs
<1>4. ASSUME NEW k \in 0..n, k < n PROVE f[k + 1] = Before(f[k], list[k + 1])
  <2>. DEFINE s == 1..k + 1
  <2>1. k \in Nat /\ k + 1 \in 0..n /\ s \in SUBSET (1..n) /\ k + 1 \in s
    BY <1>4
  <2>2. s \ {k + 1} = 1..k
    BY <2>1
  <2>3. Max(s) = k + 1
    BY <2>1, GreatestIs
  <2>4. f[k + 1] = it[s] /\ f[k] = it[1..k]
    BY <2>1
  <2>. HIDE DEF s, f
  <2>5. it[s] = Before(it[s \ {Max(s)}], list[Max(s)])
    BY <1>1, <2>1 DEF TellIs
  <2>. QED  BY <2>2, <2>3, <2>4, <2>5
<1>5. Told(last, list) = f[n]
  BY <1>2
<1>. HIDE DEF f
<1>. QED  BY <1>3, <1>4, <1>5

-----------------------------------------------------------------------------
(* The conversation and its past ones.                                      *)

Roles      == {"user", "calls", "tool", "assistant"}
MessageSet == [id : Nat, role : Roles, calls : Seq(CallIds)]
PastSet    == [id : Nat, messages : Seq(MessageSet)]

(* Where the messages were cut: what is past is what is between two cuts, and
   what is shown is after the first.                                       *)
Cuts(c) ==
    /\ c \in [0..Len(history) -> 0..Len(messages)]
    /\ c[0] = start /\ c[Len(history)] = 0
    /\ \A k \in 1..Len(history) :
          /\ c[k] <= c[k - 1]
          /\ history[k].messages = SubSeq(messages, c[k] + 1, c[k - 1])

ChatInv ==
    /\ ChatTypeOK
    /\ messages \in Seq(MessageSet) /\ history \in Seq(PastSet)
    /\ \E c : Cuts(c)

(* So the past and the present together are the conversation.               *)
LEMMA ToldIsAll ==
    ASSUME ChatInv
    PROVE  NothingHidden
<1>. DEFINE n == Len(history)
            all == Len(messages)
<1>1. /\ messages \in Seq(MessageSet) /\ all \in Nat
      /\ n \in Nat /\ DOMAIN history = 1..n /\ start \in 0..all
  BY LenProperties DEF ChatInv, ChatTypeOK
<1>2. PICK c : Cuts(c)
  BY DEF ChatInv
<1>3. /\ c \in [0..n -> 0..all] /\ c[0] = start /\ c[n] = 0
      /\ \A k \in 1..n : /\ c[k] <= c[k - 1]
                         /\ history[k].messages = SubSeq(messages, c[k] + 1, c[k - 1])
  BY <1>2 DEF Cuts
<1>4. PICK f : /\ f[0] = ActiveMessages
               /\ \A k \in 0..n : k < n => f[k + 1] = Before(f[k], history[k + 1])
               /\ Told(ActiveMessages, history) = f[n]
  <2>. HIDE DEF n, all
  <2>1. n \in Nat /\ DOMAIN history = 1..n
    BY <1>1
  <2>2. \E f : /\ f[0] = ActiveMessages
               /\ \A k \in 0..n : k < n => f[k + 1] = Before(f[k], history[k + 1])
               /\ Told(ActiveMessages, history) = f[n]
    BY ONLY <2>1, PastPass
  <2>. QED  BY ONLY <2>2
<1>. DEFINE G == {k \in 0..n : f[k] = SubSeq(messages, c[k] + 1, all)}
<1>. HIDE DEF n, all
<1>5. 0 \in G
  BY <1>1, <1>3, <1>4 DEF ActiveMessages, all
<1>6. ASSUME NEW k \in 0..n, k \in G, k < n PROVE k + 1 \in G
  <2>1. k + 1 \in 1..n /\ (k + 1) - 1 = k
    BY <1>1, <1>6
  <2>2. /\ c[k + 1] \in 0..all /\ c[k] \in 0..all /\ c[k + 1] <= c[k]
        /\ history[k + 1].messages = SubSeq(messages, c[k + 1] + 1, c[k])
    BY <1>3, <2>1
  <2>3. f[k + 1] = SubSeq(messages, c[k + 1] + 1, c[k]) \o SubSeq(messages, c[k] + 1, all)
    BY <1>4, <1>6, <2>2 DEF Before
  <2>4. /\ c[k + 1] + 1 \in 1..Len(messages) + 1
        /\ c[k] \in (c[k + 1] + 1) - 1..Len(messages)
        /\ all \in c[k]..Len(messages)
    BY <1>1, <2>2 DEF all
  <2>5. f[k + 1] = SubSeq(messages, c[k + 1] + 1, all)
    BY <1>1, <2>3, <2>4, ConcatAdjacentSubSeq
  <2>. QED  BY <2>1, <2>5
<1>7. n \in G
  <2>. HIDE DEF G
  <2>1. \A k \in 0..n : k \in G /\ k < n => k + 1 \in G
    BY <1>6
  <2>2. \A k \in 0..n : k \in G
    BY <1>1, <1>5, <2>1, UpTo
  <2>. QED  BY <1>1, <2>2
<1>8. f[n] = messages
  BY <1>1, <1>3, <1>7, SubSeqFull DEF all
<1>. QED  BY <1>4, <1>8 DEF NothingHidden, Told, Before, FoldLeft, MapThenFoldSet, n

-----------------------------------------------------------------------------
(* The steps of the pane.                                                  *)

(* What an agent says next is a message.                                    *)
LEMMA NextIsMessage ==
    ASSUME NEW list \in Seq(MessageSet), NEW m \in Continuations(list)
    PROVE  m \in MessageSet
<1>. DEFINE id == Len(list) + 1
<1>1. id \in Nat /\ DOMAIN list = 1..Len(list)
  BY LenProperties
<1>2. <<>> \in Seq(CallIds)
  BY EmptySeq
<1>3. \A c \in CallIds : <<c>> \in Seq(CallIds)
  OBVIOUS
<1>4. \A c, d \in CallIds : <<c, d>> \in Seq(CallIds)
  OBVIOUS
<1>5. CallLists \subseteq Seq(CallIds)
  <2>1. \A l \in CallLists : \/ \E c \in CallIds : l = <<c>>
                             \/ \E c, d \in CallIds : l = <<c, d>>
    BY DEF CallLists
  <2>. QED  BY <1>3, <1>4, <2>1
<1>6. Called(list) \subseteq CallIds
  <2>1. ASSUME NEW i \in DOMAIN list PROVE ToSet(list[i].calls) \subseteq CallIds
    <3>1. list[i] \in MessageSet
      BY <1>1, ElementOfSeq
    <3>2. list[i].calls \in Seq(CallIds)
      BY <3>1 DEF MessageSet
    <3>. QED  BY <3>2, LenProperties, ElementOfSeq DEF ToSet
  <2>2. Turn(list) \subseteq DOMAIN list
    BY DEF Turn
  <2>. QED  BY <2>1, <2>2 DEF Called
<1>7. \A role \in Roles : \A calls \in Seq(CallIds) : Message(id, role, calls) \in MessageSet
  BY <1>1 DEF Message, MessageSet
<1>8. \E role \in Roles : \E calls \in Seq(CallIds) : m = Message(id, role, calls)
  <2>1. \/ m = Message(id, "user", <<>>)
        \/ \E c \in Called(list) : m = Message(id, "tool", <<c>>)
        \/ m = Message(id, "assistant", <<>>)
        \/ \E calls \in CallLists : m = Message(id, "calls", calls)
    BY DEF Continuations
  <2>2. {"user", "tool", "assistant", "calls"} \subseteq Roles
    BY DEF Roles
  <2>. HIDE DEF id
  <2>. QED  BY <1>2, <1>3, <1>5, <1>6, <2>1, <2>2
<1>. QED  BY <1>7, <1>8

LEMMA ArrivesKeeps ==
    ASSUME ChatInv, MessageArrives
    PROVE  ChatInv'
<1>. DEFINE n == Len(history)
            all == Len(messages)
<1>1. PICK m \in MessageSet : messages' = Append(messages, m)
  BY NextIsMessage DEF MessageArrives, ChatInv
<1>2. UNCHANGED <<session, working, start, history, viewing, draft, taskMode, sends,
                  tray, compact>>
  BY DEF MessageArrives, contexts, composer, control
<1>3. messages \in Seq(MessageSet) /\ all \in Nat /\ n \in Nat
  BY LenProperties DEF ChatInv
<1>4. messages' \in Seq(MessageSet) /\ Len(messages') = all + 1
  BY <1>1, <1>3, AppendProperties
<1>9. <<m>> \in Seq(MessageSet)
  OBVIOUS
<1>10. messages' = messages \o <<m>>
  BY <1>1, <1>3, AppendIsConcat
<1>5. ChatTypeOK'
  BY <1>2, <1>3, <1>4 DEF ChatInv, ChatTypeOK
<1>6. PICK c : Cuts(c)
  BY DEF ChatInv
<1>7. ASSUME NEW k \in 1..n
      PROVE  history[k].messages = SubSeq(messages', c[k] + 1, c[k - 1])
  <2>1. /\ c[k] \in 0..all /\ c[k - 1] \in 0..all /\ c[k] <= c[k - 1]
        /\ history[k].messages = SubSeq(messages, c[k] + 1, c[k - 1])
    <3>1. k - 1 \in 0..n /\ k \in 0..n
      BY <1>3
    <3>. QED  BY <1>6, <3>1 DEF Cuts
  <2>2. CASE c[k] = c[k - 1]
    BY <1>3, <2>1, <2>2, SubSeqEmpty
  <2>3. CASE c[k] < c[k - 1]
    <3>1. c[k] + 1 \in 1..Len(messages) /\ c[k - 1] \in 1..Len(messages)
      BY <1>3, <2>1, <2>3
    <3>2. SubSeq(messages \o <<m>>, c[k] + 1, c[k - 1]) = SubSeq(messages, c[k] + 1, c[k - 1])
      BY <1>3, <1>9, <3>1, SubSeqOfConcat1
    <3>. QED  BY <2>1, <1>10, <3>2
  <2>4. c[k] = c[k - 1] \/ c[k] < c[k - 1]
    BY <1>3, <2>1
  <2>. QED  BY <2>2, <2>3, <2>4
<1>8. Cuts(c)'
  <2>1. 0..all \subseteq 0..all + 1
    BY <1>3
  <2>2. c \in [0..n -> 0..all + 1]
    BY <1>6, <2>1 DEF Cuts
  <2>. QED  BY <1>2, <1>4, <1>6, <1>7, <2>2 DEF Cuts
<1>. QED  BY <1>2, <1>4, <1>5, <1>8 DEF ChatInv

(* A conversation that begins has been cut nowhere.                         *)
LEMMA EmptyIsChat ==
    ASSUME messages' = <<>>, start' = 0, history' = <<>>, viewing' = 0,
           session' \in Sessions, working' \subseteq Sessions,
           draft' \in BOOLEAN, taskMode' \in BOOLEAN, sends' \in 0..MaxSends,
           tray' = FALSE, compact' = "idle"
    PROVE  ChatInv'
<1>1. /\ messages' \in Seq(MessageSet) /\ history' \in Seq(PastSet)
      /\ Len(messages') = 0 /\ Len(history') = 0
  BY EmptySeq
<1>2. ~(tray' /\ taskMode')
  OBVIOUS
<1>. DEFINE c == [k \in 0..0 |-> 0]
<1>3. Cuts(c)'
  BY <1>1 DEF Cuts
<1>4. ChatTypeOK'
  BY ONLY <1>1, <1>2, start' = 0, viewing' = 0,
          session' \in Sessions, working' \subseteq Sessions, draft' \in BOOLEAN,
          taskMode' \in BOOLEAN, sends' \in 0..MaxSends, compact' = "idle", ChatAssumption
     DEF ChatTypeOK
<1>. QED  BY <1>1, <1>3, <1>4 DEF ChatInv

LEMMA SessionsKeep ==
    ASSUME ChatInv, SessionsChange
    PROVE  ChatInv'
<1>1. session' \in Sessions /\ working' \subseteq Sessions /\ UNCHANGED <<taskMode, sends>>
  BY DEF SessionsChange
<1>2. CASE session' = session
  <2>1. UNCHANGED <<messages, start, history, viewing, draft, tray, compact>>
    BY <1>2 DEF SessionsChange, contexts, control
  <2>2. ChatTypeOK'
    BY <1>1, <2>1 DEF ChatInv, ChatTypeOK
  <2>3. \A c : Cuts(c) <=> Cuts(c)'
    BY <2>1 DEF Cuts
  <2>. QED  BY <2>1, <2>2, <2>3 DEF ChatInv
<1>3. CASE session' # session
  <2>1. /\ messages' = <<>> /\ start' = 0 /\ history' = <<>> /\ viewing' = 0
        /\ draft' = FALSE /\ tray' = FALSE /\ compact' = "idle"
    BY <1>3 DEF SessionsChange, ContextsReset, ControlReset
  <2>2. draft' \in BOOLEAN /\ taskMode' \in BOOLEAN /\ sends' \in 0..MaxSends
    BY <1>1, <2>1 DEF ChatInv, ChatTypeOK
  <2>. QED  BY <1>1, <2>1, <2>2, EmptyIsChat
<1>. QED  BY <1>2, <1>3

LEMMA UnmountKeeps ==
    ASSUME ChatInv, ChatUnmounted
    PROVE  ChatInv'
<1>1. /\ messages' = <<>> /\ start' = 0 /\ history' = <<>> /\ viewing' = 0
      /\ draft' = FALSE /\ tray' = FALSE /\ compact' = "idle" /\ taskMode' = FALSE
      /\ sends' = 0 /\ working' = {} /\ session' = session
  BY DEF ChatUnmounted, ContextsReset, ControlReset
<1>2. draft' \in BOOLEAN /\ taskMode' \in BOOLEAN
  BY <1>1
<1>4. sends' \in 0..MaxSends
  <2>1. sends' = 0
    BY <1>1
  <2>. QED  BY ONLY <2>1, ChatAssumption DEF ChatAssumption
<1>3. session' \in Sessions /\ working' \subseteq Sessions
  <2>1. session \in Sessions
    BY DEF ChatInv, ChatTypeOK
  <2>. QED  BY ONLY <1>1, <2>1
<1>. QED  BY <1>1, <1>2, <1>3, <1>4, EmptyIsChat

LEMMA ChatInitInv == ChatInit => ChatInv
<1>. SUFFICES ASSUME ChatInit PROVE ChatInv
  OBVIOUS
<1>1. /\ messages \in Seq(MessageSet) /\ history \in Seq(PastSet)
      /\ Len(messages) = 0 /\ Len(history) = 0
  BY EmptySeq DEF ChatInit
<1>. DEFINE c == [k \in 0..0 |-> 0]
<1>2. Cuts(c)
  BY <1>1 DEF Cuts, ChatInit
<1>3. tray = FALSE
  BY DEF ChatInit
<1>4. ~(tray /\ taskMode)
  BY ONLY <1>3
<1>5. /\ session \in Sessions /\ working \subseteq Sessions /\ start = 0 /\ viewing = 0
      /\ draft \in BOOLEAN /\ taskMode \in BOOLEAN /\ sends = 0 /\ compact = "idle"
  BY DEF ChatInit
<1>6. ChatTypeOK
  BY ONLY <1>1, <1>4, <1>5, ChatAssumption DEF ChatTypeOK
<1>. QED  BY <1>1, <1>2, <1>6 DEF ChatInv

(* The composer, its tray and what is viewed leave the messages as they are. *)
LEMMA ComposerKeeps ==
    ASSUME ChatInv, UNCHANGED <<session, working, messages, start, history>>,
           viewing' \in {viewing, 0} \cup {history[i].id : i \in DOMAIN history},
           draft' \in BOOLEAN, taskMode' \in BOOLEAN, sends' \in 0..MaxSends,
           ~(tray' /\ taskMode'), compact' \in {"idle", "working", "done"}
    PROVE  ChatInv'
<1>1. ChatTypeOK'
  BY DEF ChatInv, ChatTypeOK
<1>2. \A c : Cuts(c) <=> Cuts(c)'
  BY DEF Cuts
<1>. QED  BY <1>1, <1>2 DEF ChatInv

-----------------------------------------------------------------------------
(* A fresh conversation cuts the messages once more, at their end.          *)
LEMMA FreshCuts ==
    ASSUME messages \in Seq(MessageSet), history \in Seq(PastSet), start \in 0..Len(messages),
           NEW c, Cuts(c), NEW e \in PastSet, e.messages = ActiveMessages
    PROVE  /\ <<e>> \o history \in Seq(PastSet)
           /\ Len(<<e>> \o history) = Len(history) + 1
           /\ \E d : /\ d \in [0..Len(history) + 1 -> 0..Len(messages)]
                    /\ d[0] = Len(messages) /\ d[Len(history) + 1] = 0
                    /\ \A k \in 1..Len(history) + 1 :
                          /\ d[k] <= d[k - 1]
                          /\ (<<e>> \o history)[k].messages =
                                 SubSeq(messages, d[k] + 1, d[k - 1])
<1>. DEFINE n == Len(history)
            all == Len(messages)
            longer == <<e>> \o history
            d == [k \in 0..n + 1 |-> IF k = 0 THEN all ELSE c[k - 1]]
<1>1. n \in Nat /\ all \in Nat
  BY LenProperties
<1>2. /\ longer \in Seq(PastSet) /\ Len(longer) = n + 1 /\ longer[1] = e
      /\ \A k \in 2..n + 1 : longer[k] = history[k - 1]
  OBVIOUS
<1>3. /\ c \in [0..n -> 0..all] /\ c[0] = start /\ c[n] = 0
      /\ \A k \in 1..n : /\ c[k] <= c[k - 1]
                         /\ history[k].messages = SubSeq(messages, c[k] + 1, c[k - 1])
  BY DEF Cuts
<1>. HIDE DEF n, all, longer
<1>4. \A k \in 1..n + 1 : k - 1 \in 0..n
  BY <1>1
<1>5. d \in [0..n + 1 -> 0..all] /\ d[0] = all /\ d[n + 1] = 0
      /\ \A k \in 1..n + 1 : d[k] = c[k - 1]
  BY <1>1, <1>3, <1>4
<1>. HIDE DEF d
<1>6. ASSUME NEW k \in 1..n + 1
      PROVE  /\ d[k] <= d[k - 1]
             /\ longer[k].messages = SubSeq(messages, d[k] + 1, d[k - 1])
  <2>1. CASE k = 1
    <3>1. d[1] = start /\ d[0] = all
      BY <1>1, <1>3, <1>5
    <3>2. longer[1].messages = SubSeq(messages, start + 1, all)
      BY <1>2 DEF ActiveMessages, all
    <3>3. start <= all /\ k - 1 = 0
      BY <1>1, <2>1 DEF all
    <3>. QED  BY <2>1, <3>1, <3>2, <3>3
  <2>2. CASE k # 1
    <3>1. k \in 2..n + 1 /\ k - 1 \in 1..n /\ k - 1 \in 1..n + 1
      BY <1>1, <2>2
    <3>2. d[k] = c[k - 1] /\ d[k - 1] = c[(k - 1) - 1]
      BY <1>5, <3>1
    <3>. QED  BY <1>2, <1>3, <3>1, <3>2
  <2>. QED  BY <2>1, <2>2
<1>. QED  BY <1>2, <1>5, <1>6 DEF n, all, longer

LEMMA StartFreshKeeps ==
    ASSUME ChatInv, StartFresh
    PROVE  ChatInv'
<1>. DEFINE e == [id |-> Len(history) + 1, messages |-> ActiveMessages]
<1>1. /\ history' = <<e>> \o history /\ start' = Len(messages) /\ viewing' = 0
      /\ tray' = FALSE /\ compact' = "idle" /\ Len(history) < MaxContexts
      /\ UNCHANGED <<session, working, messages, draft, taskMode, sends>>
  BY DEF StartFresh, NextStart, ControlReset, given, composer
<1>2. /\ messages \in Seq(MessageSet) /\ history \in Seq(PastSet)
      /\ start \in 0..Len(messages) /\ Len(messages) \in Nat /\ Len(history) \in Nat
  BY LenProperties DEF ChatInv, ChatTypeOK
<1>3. ActiveMessages \in Seq(MessageSet)
  BY <1>2 DEF ActiveMessages
<1>4. e \in PastSet /\ e.messages = ActiveMessages
  BY <1>2, <1>3 DEF PastSet
<1>. HIDE DEF e
<1>5. PICK c : Cuts(c)
  BY DEF ChatInv
<1>6. /\ history' \in Seq(PastSet) /\ Len(history') = Len(history) + 1
      /\ \E d : Cuts(d)'
  <2>1. history' = <<e>> \o history /\ start' = Len(messages) /\ messages' = messages
    BY <1>1
  <2>2. /\ <<e>> \o history \in Seq(PastSet)
        /\ Len(<<e>> \o history) = Len(history) + 1
    BY <1>2, <1>4, <1>5, FreshCuts
  <2>3. PICK d :
          /\ d \in [0..Len(history) + 1 -> 0..Len(messages)]
          /\ d[0] = Len(messages) /\ d[Len(history) + 1] = 0
          /\ \A k \in 1..Len(history) + 1 :
                /\ d[k] <= d[k - 1]
                /\ (<<e>> \o history)[k].messages = SubSeq(messages, d[k] + 1, d[k - 1])
    BY <1>2, <1>4, <1>5, FreshCuts
  <2>4. Cuts(d)'
    BY <2>1, <2>2, <2>3 DEF Cuts
  <2>. QED  BY <2>1, <2>2, <2>4
<1>7. ChatTypeOK'
  <2>1. /\ session' \in Sessions /\ working' \subseteq Sessions
        /\ draft' \in BOOLEAN /\ taskMode' \in BOOLEAN /\ sends' \in 0..MaxSends
    BY <1>1 DEF ChatInv, ChatTypeOK
  <2>2. start' \in 0..Len(messages') /\ Len(history') <= MaxContexts
    BY <1>1, <1>2, <1>6, ChatAssumption DEF ChatAssumption
  <2>3. ~(tray' /\ taskMode')
    <3>1. tray' = FALSE
      BY <1>1
    <3>. QED  BY ONLY <3>1
  <2>. QED  BY <1>1, <2>1, <2>2, <2>3 DEF ChatTypeOK
<1>. QED  BY <1>1, <1>2, <1>6, <1>7 DEF ChatInv

LEMMA ChatNextInv ==
    ASSUME ChatInv, ChatNext \/ SubmitTask
    PROVE  ChatInv'
<1>1. /\ draft \in BOOLEAN /\ taskMode \in BOOLEAN /\ sends \in 0..MaxSends
      /\ ~(tray /\ taskMode) /\ compact \in {"idle", "working", "done"} /\ MaxSends \in Nat
  BY ChatAssumption DEF ChatInv, ChatTypeOK, ChatAssumption
<1>2. CASE MessageArrives
  BY <1>2, ArrivesKeeps
<1>3. CASE SessionsChange
  BY <1>3, SessionsKeep
<1>4. CASE StartFresh
  BY <1>4, StartFreshKeeps
<1>5. CASE TypeMessage \/ SubmitTask
  <2>1. /\ UNCHANGED <<session, working, messages, start, history, viewing, sends, tray, compact>>
        /\ draft' \in BOOLEAN /\ (taskMode' = taskMode \/ taskMode' = FALSE)
    BY <1>1, <1>5 DEF TypeMessage, SubmitTask, given, contexts, control
  <2>2. taskMode' \in BOOLEAN /\ (taskMode' => taskMode)
    <3>1. CASE taskMode' = taskMode
      BY <1>1, <3>1
    <3>2. CASE taskMode' = FALSE
      BY <3>2
    <3>. QED  BY ONLY <2>1, <3>1, <3>2
  <2>4. ~(tray' /\ taskMode')
    BY <1>1, <2>1, <2>2, Zenon
  <2>. QED  BY <1>1, <2>1, <2>2, <2>4, ComposerKeeps
<1>6. CASE SubmitMessage \/ SendAnswered
  <2>1. /\ UNCHANGED <<session, working, messages, start, history, viewing, taskMode, tray, compact>>
        /\ draft' \in BOOLEAN /\ sends' \in 0..MaxSends
    <3>1. CASE SubmitMessage
      BY <1>1, <3>1 DEF SubmitMessage, given, contexts, control
    <3>2. CASE SendAnswered
      <4>1. PICK sent \in BOOLEAN : draft' = (draft /\ ~sent)
        BY <3>2 DEF SendAnswered
      <4>2. draft' \in BOOLEAN
        BY ONLY <1>1, <4>1
      <4>. QED  BY <1>1, <3>2, <4>2 DEF SendAnswered, given, contexts, control
    <3>. QED  BY <1>6, <3>1, <3>2
  <2>2. ~(tray' /\ taskMode') /\ taskMode' \in BOOLEAN
    BY ONLY <1>1, <2>1
  <2>. QED  BY <1>1, <2>1, <2>2, ComposerKeeps
<1>7. CASE ToggleTaskMode
  <2>1. /\ UNCHANGED <<session, working, messages, start, history, viewing, draft, sends, compact>>
        /\ taskMode' = ~taskMode /\ tray' = (tray /\ ~taskMode')
    BY <1>7 DEF ToggleTaskMode, given, contexts
  <2>2. ~(tray' /\ taskMode') /\ taskMode' \in BOOLEAN
    BY ONLY <1>1, <2>1
  <2>. QED  BY <1>1, <2>1, <2>2, ComposerKeeps
<1>8. CASE ToggleTray
  <2>1. /\ UNCHANGED <<session, working, messages, start, history, viewing, draft, sends, compact>>
        /\ taskMode' = (taskMode /\ ~tray')
    BY <1>8 DEF ToggleTray, TellsOpening, given, contexts
  <2>2. ~(tray' /\ taskMode') /\ taskMode' \in BOOLEAN
    BY ONLY <1>1, <2>1
  <2>. QED  BY <1>1, <2>1, <2>2, ComposerKeeps
<1>9. CASE Compact \/ CompactTimer
  <2>1. /\ UNCHANGED <<session, working, messages, start, history, viewing, draft, taskMode, sends>>
        /\ compact' \in {"idle", "working", "done"} /\ (tray' = tray \/ tray' = FALSE)
    BY <1>9 DEF Compact, CompactTimer, given, contexts, composer
  <2>2. ~(tray' /\ taskMode') /\ taskMode' \in BOOLEAN
    BY ONLY <1>1, <2>1
  <2>. QED  BY <1>1, <2>1, <2>2, ComposerKeeps
<1>10. CASE ViewHistory
  <2>1. /\ UNCHANGED <<session, working, messages, start, history, draft, taskMode, sends>>
        /\ viewing' \in {history[i].id : i \in DOMAIN history}
        /\ tray' = FALSE /\ compact' = "idle"
    BY <1>10 DEF ViewHistory, ControlReset, given, composer
  <2>2. ~(tray' /\ taskMode') /\ taskMode' \in BOOLEAN
    BY ONLY <1>1, <2>1
  <2>. QED  BY <1>1, <2>1, <2>2, ComposerKeeps
<1>11. CASE ReturnToCurrent
  <2>1. /\ UNCHANGED <<session, working, messages, start, history, draft, taskMode, sends,
                       tray, compact>>
        /\ viewing' = 0
    BY <1>11 DEF ReturnToCurrent, given, composer, control
  <2>2. ~(tray' /\ taskMode') /\ taskMode' \in BOOLEAN
    BY ONLY <1>1, <2>1
  <2>. QED  BY <1>1, <2>1, <2>2, ComposerKeeps
<1>. QED  BY <1>2, <1>3, <1>4, <1>5, <1>6, <1>7, <1>8, <1>9, <1>10, <1>11 DEF ChatNext

-----------------------------------------------------------------------------
(* The feed, whatever the messages: no activity but the one the pass has open
   is left unclosed.                                                       *)

IsItem(x) ==
    /\ x = [kind |-> x.kind, id |-> x.id, closed |-> x.closed,
            completed |-> x.completed, steps |-> x.steps]
    /\ x.closed \in BOOLEAN
Live(x) == x.kind = "activity" /\ ~x.closed

Fed(f) ==
    /\ f = [items |-> f.items, open |-> f.open, request |-> f.request]
    /\ \E S : (\A x \in S : IsItem(x)) /\ f.items \in Seq(S)
    /\ f.open \in 0..Len(f.items)
    /\ \A i \in 1..Len(f.items) : Live(f.items[i]) => i = f.open

(* An item more, and an item in another's place.                            *)
LEMMA ItemAdded ==
    ASSUME NEW items, NEW S, \A x \in S : IsItem(x), items \in Seq(S), NEW item, IsItem(item)
    PROVE  /\ \E T : (\A x \in T : IsItem(x)) /\ Append(items, item) \in Seq(T)
           /\ Len(Append(items, item)) = Len(items) + 1 /\ Len(items) \in Nat
           /\ Append(items, item)[Len(items) + 1] = item
           /\ \A i \in 1..Len(items) : Append(items, item)[i] = items[i]
<1>. DEFINE T == S \cup {item}
<1>1. items \in Seq(T) /\ item \in T
  OBVIOUS
<1>2. \A x \in T : IsItem(x)
  OBVIOUS
<1>. HIDE DEF T
<1>. QED  BY <1>1, <1>2, AppendProperties, LenProperties

LEMMA ItemEdited ==
    ASSUME NEW items, NEW S, \A x \in S : IsItem(x), items \in Seq(S), NEW item, IsItem(item),
           NEW k \in 1..Len(items)
    PROVE  /\ \E T : (\A x \in T : IsItem(x)) /\ [items EXCEPT ![k] = item] \in Seq(T)
           /\ Len([items EXCEPT ![k] = item]) = Len(items) /\ Len(items) \in Nat
           /\ [items EXCEPT ![k] = item][k] = item
           /\ \A i \in 1..Len(items) : i # k => [items EXCEPT ![k] = item][i] = items[i]
<1>. DEFINE T == S \cup {item}
<1>1. items \in Seq(T) /\ item \in T
  OBVIOUS
<1>2. \A x \in T : IsItem(x)
  OBVIOUS
<1>. HIDE DEF T
<1>. QED  BY <1>1, <1>2, ExceptSeq, LenProperties

LEMMA MessageFed ==
    ASSUME NEW f, Fed(f), f.open = 0, NEW m, NEW request
    PROVE  Fed([items |-> Append(f.items, MessageItem(m)), open |-> f.open,
                request |-> request])
<1>. DEFINE item == MessageItem(m)
            g == [items |-> Append(f.items, item), open |-> f.open, request |-> request]
<1>1. IsItem(item) /\ ~Live(item)
  BY DEF MessageItem, IsItem, Live
<1>4. /\ g = [items |-> g.items, open |-> g.open, request |-> g.request]
      /\ g.items = Append(f.items, item) /\ g.open = f.open
  OBVIOUS
<1>. HIDE DEF item, g
<1>5. PICK S : (\A x \in S : IsItem(x)) /\ f.items \in Seq(S)
  BY DEF Fed
<1>6. /\ \E T : (\A x \in T : IsItem(x)) /\ g.items \in Seq(T)
      /\ Len(g.items) = Len(f.items) + 1 /\ Len(f.items) \in Nat
      /\ g.items[Len(f.items) + 1] = item
      /\ \A i \in 1..Len(f.items) : g.items[i] = f.items[i]
  BY <1>1, <1>4, <1>5, ItemAdded
<1>7. ASSUME NEW i \in 1..Len(g.items), Live(g.items[i]) PROVE i = g.open
  <2>1. i # Len(f.items) + 1
    BY <1>1, <1>6, <1>7
  <2>2. i \in 1..Len(f.items) /\ Live(f.items[i])
    BY <1>6, <1>7, <2>1
  <2>. QED  BY <1>4, <2>2 DEF Fed
<1>8. g.open \in 0..Len(g.items)
  BY <1>4, <1>6
<1>9. Fed(g)
  BY <1>4, <1>6, <1>7, <1>8 DEF Fed
<1>. QED  BY <1>9 DEF g, item

LEMMA OpenedFed ==
    ASSUME NEW f, Fed(f)
    PROVE  Fed(Opened(f)) /\ Opened(f).open # 0
<1>1. CASE f.open # 0
  BY <1>1 DEF Opened
<1>2. CASE f.open = 0
  <2>. DEFINE item == Activity(f.request)
              g == Opened(f)
  <2>1. IsItem(item)
    BY DEF Activity, IsItem
  <2>2. f = [items |-> f.items, open |-> f.open, request |-> f.request]
    BY DEF Fed
  <2>3. g = [items |-> Append(f.items, item), open |-> Len(f.items) + 1, request |-> f.request]
    BY <1>2, <2>2 DEF Opened
  <2>4. g.items = Append(f.items, item) /\ g.open = Len(f.items) + 1
    BY <2>3
  <2>. HIDE DEF item, g
  <2>5. PICK S : (\A x \in S : IsItem(x)) /\ f.items \in Seq(S)
    BY DEF Fed
  <2>6. /\ \E T : (\A x \in T : IsItem(x)) /\ g.items \in Seq(T)
        /\ Len(g.items) = Len(f.items) + 1 /\ Len(f.items) \in Nat
        /\ \A i \in 1..Len(f.items) : g.items[i] = f.items[i]
    BY <2>1, <2>4, <2>5, ItemAdded
  <2>7. ASSUME NEW i \in 1..Len(g.items), Live(g.items[i]) PROVE i = g.open
    <3>. SUFFICES ASSUME i # g.open PROVE FALSE
      OBVIOUS
    <3>1. i \in 1..Len(f.items) /\ Live(f.items[i])
      BY <2>4, <2>6, <2>7
    <3>2. i = f.open
      BY <3>1 DEF Fed
    <3>. QED  BY <1>2, <3>1, <3>2
  <2>8. g.open \in 0..Len(g.items) /\ g.open # 0
    BY <2>4, <2>6
  <2>9. g = [items |-> g.items, open |-> g.open, request |-> g.request]
    BY <2>3
  <2>10. Fed(g)
    BY <2>6, <2>7, <2>8, <2>9 DEF Fed
  <2>. QED  BY <2>8, <2>10 DEF g
<1>. QED  BY <1>1, <1>2

(* An item of the feed, changed in a field.                                 *)
LEMMA FieldsOf ==
    ASSUME NEW x, IsItem(x)
    PROVE  /\ \A completed, shut : LET y == [x EXCEPT !.closed = shut, !.completed = completed]
                                   IN shut = TRUE => IsItem(y) /\ ~Live(y)
           /\ \A steps : LET y == [x EXCEPT !.steps = steps]
                         IN IsItem(y) /\ (Live(y) <=> Live(x))
<1>1. ASSUME NEW completed, NEW shut, shut = TRUE
      PROVE  LET y == [x EXCEPT !.closed = shut, !.completed = completed]
             IN IsItem(y) /\ ~Live(y)
  <2>. DEFINE y == [x EXCEPT !.closed = shut, !.completed = completed]
  <2>1. y = [kind |-> x.kind, id |-> x.id, closed |-> shut,
             completed |-> completed, steps |-> x.steps]
    <3>1. PICK kind, id, closed, ended, steps :
             x = [kind |-> kind, id |-> id, closed |-> closed, completed |-> ended,
                  steps |-> steps]
      BY DEF IsItem
    <3>2. x.kind = kind /\ x.id = id /\ x.steps = steps
      BY <3>1
    <3>. DEFINE half == [kind |-> kind, id |-> id, closed |-> shut, completed |-> ended,
                         steps |-> steps]
    <3>3. y = [[x EXCEPT !.closed = shut] EXCEPT !.completed = completed]
      OBVIOUS
    <3>4. [x EXCEPT !.closed = shut] = half
      BY ONLY <3>1
    <3>5. [half EXCEPT !.completed = completed] =
             [kind |-> kind, id |-> id, closed |-> shut, completed |-> completed,
              steps |-> steps]
      OBVIOUS
    <3>. HIDE DEF half, y
    <3>. QED  BY <3>2, <3>3, <3>4, <3>5, Zenon
  <2>. HIDE DEF y
  <2>2. IsItem(y) /\ ~Live(y)
    BY <1>1, <2>1 DEF IsItem, Live
  <2>. QED  BY <2>2 DEF y
<1>2. ASSUME NEW steps
      PROVE  LET y == [x EXCEPT !.steps = steps] IN IsItem(y) /\ (Live(y) <=> Live(x))
  <2>. DEFINE y == [x EXCEPT !.steps = steps]
  <2>1. y = [kind |-> x.kind, id |-> x.id, closed |-> x.closed,
             completed |-> x.completed, steps |-> steps]
    BY DEF IsItem
  <2>. HIDE DEF y
  <2>2. y.kind = x.kind /\ y.closed = x.closed
    BY <2>1
  <2>3. IsItem(y) /\ (Live(y) <=> Live(x))
    BY <2>1, <2>2 DEF IsItem, Live
  <2>. QED  BY <2>3 DEF y
<1>. QED  BY <1>1, <1>2

LEMMA ClosedFed ==
    ASSUME NEW f, Fed(f), NEW completed
    PROVE  Fed(Closed(f, completed)) /\ Closed(f, completed).open = 0
<1>1. CASE f.open = 0
  BY <1>1 DEF Closed
<1>2. CASE f.open # 0
  <2>. DEFINE k == f.open
              item == [f.items[k] EXCEPT !.closed = TRUE, !.completed = completed]
              g == Closed(f, completed)
  <2>1. PICK S : (\A x \in S : IsItem(x)) /\ f.items \in Seq(S)
    BY DEF Fed
  <2>2. k \in 1..Len(f.items)
    BY <1>2, <2>1, LenProperties DEF Fed
  <2>3. f.items[k] \in S
    BY <2>1, <2>2, ElementOfSeq
  <2>4. IsItem(item) /\ ~Live(item)
    BY <2>1, <2>3, FieldsOf
  <2>5. f = [items |-> f.items, open |-> f.open, request |-> f.request]
    BY DEF Fed
  <2>6. g = [items |-> [f.items EXCEPT ![k] = item], open |-> 0, request |-> f.request]
    BY <1>2, <2>1, <2>2, <2>5, LenProperties DEF Closed
  <2>7. g.items = [f.items EXCEPT ![k] = item] /\ g.open = 0
    BY <2>6
  <2>. HIDE DEF item, g, k
  <2>8. /\ \E T : (\A x \in T : IsItem(x)) /\ g.items \in Seq(T)
        /\ Len(g.items) = Len(f.items) /\ Len(f.items) \in Nat
        /\ g.items[k] = item
        /\ \A i \in 1..Len(f.items) : i # k => g.items[i] = f.items[i]
    BY <2>1, <2>2, <2>4, <2>7, ItemEdited
  <2>9. ASSUME NEW i \in 1..Len(g.items), Live(g.items[i]) PROVE FALSE
    <3>1. i # k
      BY <2>4, <2>8, <2>9
    <3>2. i \in 1..Len(f.items) /\ Live(f.items[i])
      BY <2>8, <2>9, <3>1
    <3>. QED  BY <3>1, <3>2 DEF Fed, k
  <2>10. g = [items |-> g.items, open |-> g.open, request |-> g.request]
    BY <2>6
  <2>11. Fed(g)
    BY <2>7, <2>8, <2>9, <2>10 DEF Fed
  <2>. QED  BY <2>7, <2>11 DEF g
<1>. QED  BY <1>1, <1>2

LEMMA StepsFed ==
    ASSUME NEW f, Fed(f), f.open # 0, NEW steps
    PROVE  Fed([f EXCEPT !.items[f.open].steps = steps])
<1>. DEFINE k == f.open
            item == [f.items[k] EXCEPT !.steps = steps]
            g == [f EXCEPT !.items[f.open].steps = steps]
<1>1. PICK S : (\A x \in S : IsItem(x)) /\ f.items \in Seq(S)
  BY DEF Fed
<1>2. k \in 1..Len(f.items)
  BY <1>1, LenProperties DEF Fed
<1>3. f.items[k] \in S
  BY <1>1, <1>2, ElementOfSeq
<1>4. IsItem(item) /\ (Live(item) <=> Live(f.items[k]))
  BY <1>1, <1>3, FieldsOf
<1>5. f = [items |-> f.items, open |-> f.open, request |-> f.request]
  BY DEF Fed
<1>6. g = [items |-> [f.items EXCEPT ![k] = item], open |-> k, request |-> f.request]
  <2>1. PICK items, open, request : f = [items |-> items, open |-> open, request |-> request]
    BY <1>5
  <2>2. k \in DOMAIN items
    BY <1>1, <1>2, <2>1, LenProperties
  <2>. QED  BY <2>1, <2>2
<1>7. g.items = [f.items EXCEPT ![k] = item] /\ g.open = k
  BY <1>6
<1>. HIDE DEF item, g, k
<1>8. /\ \E T : (\A x \in T : IsItem(x)) /\ g.items \in Seq(T)
      /\ Len(g.items) = Len(f.items) /\ Len(f.items) \in Nat
      /\ g.items[k] = item
      /\ \A i \in 1..Len(f.items) : i # k => g.items[i] = f.items[i]
  BY <1>1, <1>2, <1>4, <1>7, ItemEdited
<1>9. ASSUME NEW i \in 1..Len(g.items), Live(g.items[i]) PROVE i = k
  <2>. SUFFICES ASSUME i # k PROVE FALSE
    OBVIOUS
  <2>1. i \in 1..Len(f.items) /\ Live(f.items[i])
    BY <1>8, <1>9
  <2>. QED  BY <2>1 DEF Fed, k
<1>10. g = [items |-> g.items, open |-> g.open, request |-> g.request]
  BY <1>6
<1>11. g.open \in 0..Len(g.items)
  BY <1>2, <1>7, <1>8
<1>12. Fed(g)
  BY <1>7, <1>8, <1>9, <1>10, <1>11 DEF Fed
<1>. QED  BY <1>12 DEF g

(* So it is with every message read.                                        *)
LEMMA ReadFed ==
    ASSUME NEW f, Fed(f), NEW m \in MessageSet
    PROVE  Fed(ReadMessage(f, m))
<1>1. m.role \in {"user", "calls", "tool", "assistant"}
  BY DEF MessageSet, Roles
<1>2. CASE m.role = "user"
  <2>. DEFINE g == Closed(f, FALSE)
  <2>1. ReadMessage(f, m) = [g EXCEPT !.items = Append(@, MessageItem(m)), !.request = m.id]
    BY <1>2 DEF ReadMessage, ReadUser
  <2>2. Fed(g) /\ g.open = 0
    BY ClosedFed
  <2>. HIDE DEF g
  <2>3. ReadMessage(f, m) = [items |-> Append(g.items, MessageItem(m)), open |-> g.open,
                             request |-> m.id]
    BY <2>1, <2>2 DEF Fed
  <2>. QED  BY <2>2, <2>3, MessageFed
<1>3. CASE m.role = "assistant"
  <2>. DEFINE g == Closed(f, TRUE)
  <2>1. ReadMessage(f, m) = [g EXCEPT !.items = Append(@, MessageItem(m))]
    BY <1>3 DEF ReadMessage, ReadText
  <2>2. Fed(g) /\ g.open = 0
    BY ClosedFed
  <2>. HIDE DEF g
  <2>3. ReadMessage(f, m) = [items |-> Append(g.items, MessageItem(m)), open |-> g.open,
                             request |-> g.request]
    BY <2>1, <2>2 DEF Fed
  <2>. QED  BY <2>2, <2>3, MessageFed
<1>4. CASE m.role = "calls"
  <2>1. ReadMessage(f, m) = ReadCalls(f, m)
    BY <1>4 DEF ReadMessage
  <2>. QED  BY <2>1, OpenedFed, StepsFed DEF ReadCalls
<1>5. CASE m.role = "tool"
  <2>1. ReadMessage(f, m) = ReadResult(f, m)
    BY <1>5 DEF ReadMessage
  <2>. QED  BY <2>1, StepsFed DEF ReadResult
<1>. QED  BY <1>1, <1>2, <1>3, <1>4, <1>5

(* The pass begins so.                                                      *)
LEMMA BlankFed == Fed(Blank)
<1>1. Blank.items = <<>> /\ Blank.open = 0
      /\ Blank = [items |-> Blank.items, open |-> Blank.open, request |-> Blank.request]
  BY DEF Blank
<1>2. <<>> \in Seq({}) /\ Len(<<>>) = 0
  BY EmptySeq
<1>3. /\ \E S : (\A x \in S : IsItem(x)) /\ Blank.items \in Seq(S)
      /\ Blank.open \in 0..Len(Blank.items) /\ Len(Blank.items) = 0
  <2>1. \A x \in {} : IsItem(x)
    OBVIOUS
  <2>2. Blank.items \in Seq({}) /\ Len(Blank.items) = 0
    BY ONLY <1>1, <1>2
  <2>3. Blank.open \in 0..Len(Blank.items)
    BY ONLY <1>1, <2>2
  <2>. HIDE DEF Blank
  <2>. QED  BY ONLY <2>1, <2>2, <2>3
<1>4. \A i \in 1..Len(Blank.items) : Live(Blank.items[i]) => i = Blank.open
  <2>1. 1..Len(Blank.items) = {}
    BY <1>3
  <2>. QED  BY <2>1
<1>. HIDE DEF Blank
<1>. QED  BY <1>1, <1>3, <1>4 DEF Fed

(* An activity that is not closed is the last the pass opened.              *)
LEMMA FeedOpensOne ==
    ASSUME NEW list \in Seq(MessageSet)
    PROVE  \E o : \A i \in DOMAIN Feed(list) : Live(Feed(list)[i]) => i = o
<1>. DEFINE n == Len(list)
<1>1. n \in Nat /\ DOMAIN list = 1..n /\ \A k \in 1..n : list[k] \in MessageSet
  BY LenProperties, ElementOfSeq
<1>2. PICK f : /\ f[0] = Blank
               /\ \A k \in 0..n : k < n => f[k + 1] = ReadMessage(f[k], list[k + 1])
               /\ Feed(list) = f[n].items
  BY <1>1, FeedPass
<1>. DEFINE G == {k \in 0..n : Fed(f[k])}
<1>. HIDE DEF n
<1>3. 0 \in G
  BY <1>1, <1>2, BlankFed
<1>4. \A k \in 0..n : k \in G /\ k < n => k + 1 \in G
  <2>. TAKE k \in 0..n
  <2>. HAVE k \in G /\ k < n
  <2>1. k + 1 \in 1..n /\ k + 1 \in 0..n
    BY <1>1
  <2>2. Fed(f[k]) /\ list[k + 1] \in MessageSet /\ f[k + 1] = ReadMessage(f[k], list[k + 1])
    BY <1>1, <1>2, <2>1
  <2>. QED  BY <2>1, <2>2, ReadFed
<1>5. n \in G
  <2>. HIDE DEF G
  <2>. QED  BY <1>1, <1>3, <1>4, UpTo
<1>6. Fed(f[n])
  BY <1>5
<1>7. DOMAIN f[n].items = 1..Len(f[n].items)
  BY <1>6, LenProperties DEF Fed
<1>. QED  BY <1>2, <1>6, <1>7 DEF Fed

(* What is alive of the conversation, or about to be, is one activity.      *)
LEMMA OneWorks ==
    ASSUME messages \in Seq(MessageSet), start \in 0..Len(messages)
    PROVE  OneActivityWorks
<1>. DEFINE feed == Feed(Displayed)
            lively == {i \in Activities : ActivityState(Feed(Displayed)[i]) = "working"}
<1>. SUFFICES ASSUME Composing
              PROVE  Cardinality(lively) + (IF ShowStarting THEN 1 ELSE 0)
                        <= (IF CurrentSessionWorking THEN 1 ELSE 0)
  BY DEF OneActivityWorks
<1>1. Displayed \in Seq(MessageSet)
  BY LenProperties DEF Displayed, Composing, ActiveMessages
<1>2. PICK o : \A i \in DOMAIN feed : Live(feed[i]) => i = o
  BY <1>1, FeedOpensOne
<1>3. \A i \in lively : CurrentSessionWorking /\ i \in Activities /\ ~feed[i].closed
  BY DEF ActivityState
<1>4. \A i \in Activities : i \in DOMAIN feed /\ feed[i].kind = "activity"
  BY DEF Activities
<1>5. lively \subseteq {o}
  BY <1>2, <1>3, <1>4 DEF Live
<1>6. (ShowStarting \/ ~CurrentSessionWorking) => lively = {}
  BY <1>3 DEF ShowStarting
<1>7. ShowStarting => CurrentSessionWorking
  BY DEF ShowStarting
<1>. HIDE DEF lively
<1>8. Cardinality({}) = 0 /\ Cardinality({o}) = 1
  BY FS_EmptySet, FS_Singleton
<1>9. lively = {} \/ lively = {o}
  BY <1>5
<1>10. CASE lively = {}
  BY <1>7, <1>8, <1>10
<1>11. CASE lively = {o}
  <2>1. lively # {}
    BY <1>11
  <2>. QED  BY <1>6, <1>8, <1>11, <2>1
<1>. QED  BY <1>9, <1>10, <1>11

-----------------------------------------------------------------------------
(* Counting the numbers of a set, up to one after the other.                *)

LEMMA CountIs ==
    ASSUME NEW n \in Nat, NEW set, set \subseteq 1..n
    PROVE  /\ CountTo(set, 0) = 0 /\ CountTo(set, n) = Cardinality(set)
           /\ \A i \in 0..n : CountTo(set, i) \in Nat
           /\ \A i \in 0..n : i < n /\ i + 1 \in set => CountTo(set, i + 1) = CountTo(set, i) + 1
           /\ \A i \in 0..n : i < n /\ i + 1 \notin set => CountTo(set, i + 1) = CountTo(set, i)
<1>. DEFINE To(i) == {j \in set : j <= i}
<1>1. IsFiniteSet(1..n)
  BY FS_Interval
<1>2. \A i : To(i) \subseteq 1..n
  OBVIOUS
<1>3. \A i : IsFiniteSet(To(i)) /\ Cardinality(To(i)) \in Nat
  <2>. HIDE DEF To
  <2>. QED  BY <1>1, <1>2, FS_Subset, FS_CardinalityType
<1>4. To(0) = {} /\ To(n) = set
  <2>1. \A x \in 1..n : ~(x <= 0) /\ x <= n
    OBVIOUS
  <2>2. \A x \in set : ~(x <= 0) /\ x <= n
    BY <2>1
  <2>. QED  BY <2>2
<1>5. ASSUME NEW i \in 0..n, i < n
      PROVE  CountTo(set, i + 1) = IF i + 1 \in set THEN CountTo(set, i) + 1
                                                    ELSE CountTo(set, i)
  <2>1. i + 1 \notin To(i)
    OBVIOUS
  <2>2. To(i + 1) = IF i + 1 \in set THEN To(i) \cup {i + 1} ELSE To(i)
    <3>1. \A x \in set : x <= i + 1 <=> x <= i \/ x = i + 1
      <4>1. \A x \in set : x \in 1..n
        OBVIOUS
      <4>. QED  BY <4>1
    <3>2. i + 1 <= i + 1 /\ ~(i + 1 <= i)
      OBVIOUS
    <3>. QED  BY <3>1, <3>2
  <2>. HIDE DEF To
  <2>3. Cardinality(To(i) \cup {i + 1}) = Cardinality(To(i)) + 1
    BY <1>3, <2>1, FS_AddElement
  <2>4. Cardinality(To(i + 1)) = IF i + 1 \in set THEN Cardinality(To(i)) + 1
                                                  ELSE Cardinality(To(i))
    BY <2>2, <2>3
  <2>. QED  BY <2>4 DEF CountTo, To
<1>6. \A i \in 0..n : CountTo(set, i) \in Nat
  BY <1>3 DEF CountTo
<1>7. CountTo(set, 0) = 0 /\ CountTo(set, n) = Cardinality(set)
  <2>1. CountTo(set, 0) = Cardinality(To(0)) /\ CountTo(set, n) = Cardinality(To(n))
    BY DEF CountTo
  <2>. HIDE DEF To
  <2>. QED  BY <1>4, <2>1, FS_EmptySet
<1>. QED  BY <1>5, <1>6, <1>7

(* It never falls, and rises at each member.                                *)
LEMMA CountGrows ==
    ASSUME NEW n \in Nat, NEW set, set \subseteq 1..n, NEW i \in 0..n, NEW j \in 0..n
    PROVE  /\ i <= j => CountTo(set, i) <= CountTo(set, j)
           /\ i < j /\ j \in set => CountTo(set, i) < CountTo(set, j)
<1>1. ASSUME NEW k \in 0..n, i <= k PROVE CountTo(set, i) <= CountTo(set, k)
  <2>. DEFINE To(x) == {y \in set : y <= x}
  <2>0. \A x \in set : x \in 1..n
    OBVIOUS
  <2>1. To(k) \subseteq 1..n
    BY <2>0
  <2>2. IsFiniteSet(To(k))
    <3>1. IsFiniteSet(1..n)
      BY FS_Interval
    <3>. HIDE DEF To
    <3>. QED  BY <2>1, <3>1, FS_Subset
  <2>3. To(i) \subseteq To(k)
    <3>1. \A x \in set : x <= i => x <= k
      BY <1>1, <2>0
    <3>. QED  BY <3>1
  <2>. HIDE DEF To
  <2>4. Cardinality(To(i)) <= Cardinality(To(k))
    BY <2>2, <2>3, FS_Subset
  <2>. QED  BY <2>4 DEF CountTo, To
<1>2. ASSUME i < j, j \in set PROVE CountTo(set, i) < CountTo(set, j)
  <2>1. j - 1 \in 0..n /\ i <= j - 1 /\ (j - 1) + 1 = j /\ j - 1 < n
    <3>1. i \in Nat /\ j \in Nat /\ j <= n /\ i < j
      BY <1>2
    <3>. QED  BY ONLY <3>1, n \in Nat
  <2>2. CountTo(set, i) <= CountTo(set, j - 1)
    BY <1>1, <2>1
  <2>3. CountTo(set, j) = CountTo(set, j - 1) + 1
    <3>1. \A k \in 0..n : k < n /\ k + 1 \in set => CountTo(set, k + 1) = CountTo(set, k) + 1
      BY CountIs
    <3>. QED  BY <1>2, <2>1, <3>1
  <2>4. CountTo(set, i) \in Nat /\ CountTo(set, j - 1) \in Nat
    BY <2>1, CountIs
  <2>. QED  BY <2>2, <2>3, <2>4
<1>. QED  BY <1>1, <1>2

(* It depends on the members up to there only.                              *)
LEMMA CountOf ==
    ASSUME NEW i \in Nat, NEW set, set \subseteq Nat, NEW other, other \subseteq Nat,
           \A k \in Nat : k <= i => (k \in set <=> k \in other)
    PROVE  CountTo(set, i) = CountTo(other, i)
<1>1. {j \in set : j <= i} = {j \in other : j <= i}
  OBVIOUS
<1>. QED  BY <1>1 DEF CountTo

(* Items that stay where they are keep their places.                        *)
TextsIn(items)   == {k \in DOMAIN items : items[k].kind = "message"}
GroupsIn(items)  == DOMAIN items \ TextsIn(items)
Where(items, k)  == CountTo(TextsIn(items), k)
SamePlaces(new, items, n) == \A k \in 0..n : Where(new, k) = Where(items, k)

LEMMA WhereKept ==
    ASSUME NEW items, NEW new, NEW n \in Nat, NEW m \in Nat, n <= m,
           DOMAIN items = 1..n, DOMAIN new = 1..m,
           \A k \in 1..n : new[k].kind = items[k].kind
    PROVE  /\ SamePlaces(new, items, n)
           /\ \A k \in 0..n : Where(items, k) \in Nat /\ Where(items, k) <= Where(items, n)
<1>1. TextsIn(items) \subseteq 1..n /\ TextsIn(new) \subseteq 1..m
  BY DEF TextsIn
<1>2. \A k \in 0..n : Where(new, k) = Where(items, k)
  <2>. TAKE k \in 0..n
  <2>1. \A x \in Nat : x <= k => (x \in TextsIn(new) <=> x \in TextsIn(items))
    BY DEF TextsIn
  <2>2. k \in Nat /\ TextsIn(new) \subseteq Nat /\ TextsIn(items) \subseteq Nat
    BY <1>1
  <2>. QED  BY <2>1, <2>2, CountOf DEF Where
<1>3. \A k \in 0..n : Where(items, k) \in Nat /\ Where(items, k) <= Where(items, n)
  <2>1. n \in 0..n /\ \A k \in 0..n : k <= n
    OBVIOUS
  <2>. QED  BY <1>1, <2>1, CountIs, CountGrows DEF Where
<1>. QED  BY <1>2, <1>3 DEF SamePlaces

LEMMA LastPlace ==
    ASSUME NEW items, NEW new, NEW n \in Nat, DOMAIN items = 1..n, DOMAIN new = 1..n + 1,
           \A k \in 1..n : new[k].kind = items[k].kind
    PROVE  /\ new[n + 1].kind = "message" => Where(new, n + 1) = Where(items, n) + 1
           /\ new[n + 1].kind # "message" => Where(new, n + 1) = Where(items, n)
<1>. DEFINE m == n + 1
<1>1. TextsIn(new) \subseteq 1..m /\ m \in Nat /\ n \in 0..m /\ n < m /\ n \in 0..n
      /\ m \in 1..m /\ n <= m
  BY DEF TextsIn
<1>2. SamePlaces(new, items, n)
  <2>. HIDE DEF m
  <2>1. DOMAIN new = 1..m
    BY DEF m
  <2>. QED  BY <1>1, <2>1, WhereKept
<1>3. /\ m \in TextsIn(new) => Where(new, m) = Where(new, n) + 1
      /\ m \notin TextsIn(new) => Where(new, m) = Where(new, n)
  BY <1>1, CountIs DEF Where
<1>4. m \in TextsIn(new) <=> new[m].kind = "message"
  BY <1>1 DEF TextsIn
<1>. QED  BY <1>1, <1>2, <1>3, <1>4 DEF SamePlaces

-----------------------------------------------------------------------------
(* What the pass has made of the first i messages.                          *)

Said(list)        == {j \in DOMAIN list : Talks(list[j])}
At(list, j)       == CountTo(Said(list), j)
CallsTo(list, i)  == {j \in DOMAIN list : j <= i /\ list[j].role = "calls"}
AnswersTo(list, i, gap, c) ==
    {list[j].id : j \in {x \in DOMAIN list : /\ x <= i /\ list[x].role = "tool"
                                             /\ list[x].calls = <<c>> /\ At(list, x) = gap}}

(* An answer is to one call, and in one turn no call comes after its answer. *)
Orderly(list) ==
    /\ list \in Seq(MessageSet)
    /\ \A j \in DOMAIN list : list[j].role = "tool" => \E c : list[j].calls = <<c>>
    /\ \A i, j \in DOMAIN list, c \in CallIds :
          /\ i < j
          /\ list[i].role = "tool" /\ list[i].calls = <<c>>
          /\ list[j].role = "calls" /\ c \in ToSet(list[j].calls)
          => \E t \in DOMAIN list : i < t /\ t < j /\ Talks(list[t])

(* Which item is where.                                                     *)
Placed(list, i, f) ==
    /\ Where(f.items, Len(f.items)) = At(list, i)
    /\ {<<Where(f.items, k), f.items[k]>> : k \in TextsIn(f.items)}
          = {<<At(list, j), MessageItem(list[j])>> : j \in {x \in Said(list) : x <= i}}
    /\ \A k \in GroupsIn(f.items) : f.items[k].kind = "activity"
    /\ f.open # 0 => f.open \in GroupsIn(f.items) /\ Where(f.items, f.open) = At(list, i)
    /\ \A k \in GroupsIn(f.items) : Where(f.items, k) = At(list, i) => k = f.open
    /\ \A k, l \in GroupsIn(f.items) : Where(f.items, k) = Where(f.items, l) => k = l
    /\ {Where(f.items, k) : k \in GroupsIn(f.items)} = {At(list, j) : j \in CallsTo(list, i)}

(* Which activity has ended, and which has come to an answer.               *)
Ended(list, i, f) ==
    \A k \in GroupsIn(f.items) :
        /\ f.items[k].completed \in BOOLEAN
        /\ f.items[k].closed <=> Where(f.items, k) < At(list, i)
        /\ f.items[k].completed <=>
              \E j \in Said(list) : /\ j <= i /\ At(list, j) = Where(f.items, k) + 1
                                    /\ list[j].role = "assistant"

(* Whose steps an activity has, and what came of each.                      *)
IsStep(x) == x = [call |-> x.call, result |-> x.result]
StepList(steps) == \E S : (\A x \in S : IsStep(x)) /\ steps \in Seq(S)
CallsOf(steps) == {steps[x].call : x \in DOMAIN steps}
CallsMade(list, i, gap) ==
    UNION {ToSet(list[j].calls) : j \in {x \in CallsTo(list, i) : At(list, x) = gap}}
Right(list, i, gap, step) ==
    \/ AnswersTo(list, i, gap, step.call) = {} /\ step.result = 0
    \/ step.result \in AnswersTo(list, i, gap, step.call)

Stepped(list, i, f) ==
    \A k \in GroupsIn(f.items) :
        /\ StepList(f.items[k].steps)
        /\ CallsOf(f.items[k].steps) = CallsMade(list, i, Where(f.items, k))
        /\ \A x \in DOMAIN f.items[k].steps :
              Right(list, i, Where(f.items, k), f.items[k].steps[x])

HasRead(list, i, f) == Fed(f) /\ Placed(list, i, f) /\ Ended(list, i, f) /\ Stepped(list, i, f)

LEMMA SaidIs ==
    ASSUME NEW list \in Seq(MessageSet), NEW n, n = Len(list)
    PROVE  /\ n \in Nat /\ DOMAIN list = 1..n /\ Said(list) \subseteq 1..n
           /\ At(list, 0) = 0 /\ At(list, n) = Cardinality(Said(list))
           /\ \A i \in 0..n : At(list, i) \in Nat
           /\ \A i \in 0..n : i < n /\ Talks(list[i + 1]) => At(list, i + 1) = At(list, i) + 1
           /\ \A i \in 0..n : i < n /\ ~Talks(list[i + 1]) => At(list, i + 1) = At(list, i)
           /\ \A i, j \in 0..n : i <= j => At(list, i) <= At(list, j)
           /\ \A i, j \in 0..n : i < j /\ j \in Said(list) => At(list, i) < At(list, j)
<1>1. n \in Nat /\ DOMAIN list = 1..n
  BY LenProperties
<1>2. Said(list) \subseteq 1..n
  BY <1>1 DEF Said
<1>3. /\ At(list, 0) = 0 /\ At(list, n) = Cardinality(Said(list))
      /\ \A i \in 0..n : At(list, i) \in Nat
      /\ \A i \in 0..n : i < n /\ i + 1 \in Said(list) => At(list, i + 1) = At(list, i) + 1
      /\ \A i \in 0..n : i < n /\ i + 1 \notin Said(list) => At(list, i + 1) = At(list, i)
  BY <1>1, <1>2, CountIs DEF At
<1>4. \A i \in 0..n : i < n => (i + 1 \in Said(list) <=> Talks(list[i + 1]))
  BY <1>1 DEF Said
<1>5. /\ \A i, j \in 0..n : i <= j => At(list, i) <= At(list, j)
      /\ \A i, j \in 0..n : i < j /\ j \in Said(list) => At(list, i) < At(list, j)
  BY <1>1, <1>2, CountGrows DEF At
<1>. QED  BY <1>1, <1>2, <1>3, <1>4, <1>5

(* What there is to know of a message more.                                 *)
LEMMA OneMore ==
    ASSUME NEW list \in Seq(MessageSet), NEW i \in 0..Len(list), i < Len(list)
    PROVE  /\ list[i + 1].role = "calls"
                 => CallsTo(list, i + 1) = CallsTo(list, i) \cup {i + 1}
           /\ list[i + 1].role # "calls" => CallsTo(list, i + 1) = CallsTo(list, i)
           /\ Talks(list[i + 1]) => {x \in Said(list) : x <= i + 1}
                                       = {x \in Said(list) : x <= i} \cup {i + 1}
           /\ ~Talks(list[i + 1]) => {x \in Said(list) : x <= i + 1}
                                        = {x \in Said(list) : x <= i}
           /\ list[i + 1].role # "tool" =>
                 \A gap, c : AnswersTo(list, i + 1, gap, c) = AnswersTo(list, i, gap, c)
           /\ \A gap, c : list[i + 1].calls # <<c>> \/ At(list, i + 1) # gap =>
                 AnswersTo(list, i + 1, gap, c) = AnswersTo(list, i, gap, c)
           /\ \A c : list[i + 1].role = "tool" /\ list[i + 1].calls = <<c>> =>
                 list[i + 1].id \in AnswersTo(list, i + 1, At(list, i + 1), c)
<1>1. DOMAIN list = 1..Len(list) /\ Len(list) \in Nat /\ i \in Nat /\ i + 1 \in DOMAIN list
  BY LenProperties
<1>2. \A x \in DOMAIN list : x <= i + 1 <=> x <= i \/ x = i + 1
  BY <1>1
<1>3. i + 1 <= i + 1
  BY <1>1
<1>4. /\ list[i + 1].role = "calls" => CallsTo(list, i + 1) = CallsTo(list, i) \cup {i + 1}
      /\ list[i + 1].role # "calls" => CallsTo(list, i + 1) = CallsTo(list, i)
  BY <1>1, <1>2, <1>3 DEF CallsTo
<1>5. /\ Talks(list[i + 1]) => {x \in Said(list) : x <= i + 1}
                                  = {x \in Said(list) : x <= i} \cup {i + 1}
      /\ ~Talks(list[i + 1]) => {x \in Said(list) : x <= i + 1}
                                   = {x \in Said(list) : x <= i}
  BY <1>1, <1>2, <1>3 DEF Said
<1>. DEFINE To(k, gap, c) == {x \in DOMAIN list : /\ x <= k /\ list[x].role = "tool"
                                               /\ list[x].calls = <<c>> /\ At(list, x) = gap}
<1>6. ASSUME NEW gap, NEW c,
             list[i + 1].role # "tool" \/ list[i + 1].calls # <<c>> \/ At(list, i + 1) # gap
      PROVE  AnswersTo(list, i + 1, gap, c) = AnswersTo(list, i, gap, c)
  <2>1. To(i + 1, gap, c) = To(i, gap, c)
    BY <1>2, <1>6
  <2>. QED  BY <2>1 DEF AnswersTo
<1>7. ASSUME NEW c, list[i + 1].role = "tool", list[i + 1].calls = <<c>>
      PROVE  list[i + 1].id \in AnswersTo(list, i + 1, At(list, i + 1), c)
  <2>1. i + 1 \in To(i + 1, At(list, i + 1), c)
    BY <1>1, <1>3, <1>7
  <2>. QED  BY <2>1 DEF AnswersTo
<1>. QED  BY <1>4, <1>5, <1>6, <1>7

-----------------------------------------------------------------------------
(* What one message does to the feed, item by item.                         *)

LEMMA FieldsAre ==
    ASSUME NEW x, IsItem(x)
    PROVE  /\ \A completed, shut : LET y == [x EXCEPT !.closed = shut, !.completed = completed]
                                   IN /\ y.kind = x.kind /\ y.steps = x.steps
                                      /\ y.closed = shut /\ y.completed = completed
           /\ \A steps : LET y == [x EXCEPT !.steps = steps]
                         IN /\ y.kind = x.kind /\ y.steps = steps
                            /\ y.closed = x.closed /\ y.completed = x.completed
<1>1. PICK kind, id, closed, ended, steps :
         x = [kind |-> kind, id |-> id, closed |-> closed, completed |-> ended,
              steps |-> steps]
  BY DEF IsItem
<1>2. x.kind = kind /\ x.closed = closed /\ x.completed = ended /\ x.steps = steps
  BY <1>1
<1>3. ASSUME NEW completed, NEW shut
      PROVE  LET y == [x EXCEPT !.closed = shut, !.completed = completed]
             IN /\ y.kind = x.kind /\ y.steps = x.steps
                /\ y.closed = shut /\ y.completed = completed
  <2>. DEFINE half == [kind |-> kind, id |-> id, closed |-> shut, completed |-> ended,
                       steps |-> steps]
              whole == [kind |-> kind, id |-> id, closed |-> shut, completed |-> completed,
                        steps |-> steps]
              y == [x EXCEPT !.closed = shut, !.completed = completed]
  <2>1. y = [[x EXCEPT !.closed = shut] EXCEPT !.completed = completed]
    OBVIOUS
  <2>2. [x EXCEPT !.closed = shut] = half
    BY ONLY <1>1
  <2>3. [half EXCEPT !.completed = completed] = whole
    OBVIOUS
  <2>4. whole.kind = kind /\ whole.steps = steps /\ whole.closed = shut
        /\ whole.completed = completed
    OBVIOUS
  <2>. HIDE DEF half, whole, y
  <2>5. y = whole
    BY <2>1, <2>2, <2>3, Zenon
  <2>6. y.kind = x.kind /\ y.steps = x.steps /\ y.closed = shut /\ y.completed = completed
    BY <1>2, <2>4, <2>5, Zenon
  <2>. QED  BY <2>6 DEF y
<1>4. ASSUME NEW new
      PROVE  LET y == [x EXCEPT !.steps = new]
             IN /\ y.kind = x.kind /\ y.steps = new
                /\ y.closed = x.closed /\ y.completed = x.completed
  <2>. DEFINE whole == [kind |-> kind, id |-> id, closed |-> closed, completed |-> ended,
                        steps |-> new]
              y == [x EXCEPT !.steps = new]
  <2>1. y = whole
    BY ONLY <1>1
  <2>2. whole.kind = kind /\ whole.steps = new /\ whole.closed = closed
        /\ whole.completed = ended
    OBVIOUS
  <2>. HIDE DEF whole, y
  <2>3. y.kind = x.kind /\ y.steps = new /\ y.closed = x.closed /\ y.completed = x.completed
    BY <1>2, <2>1, <2>2, Zenon
  <2>. QED  BY <2>3 DEF y
<1>. QED  BY <1>3, <1>4

LEMMA FedIs ==
    ASSUME NEW f, Fed(f), NEW n, n = Len(f.items)
    PROVE  /\ n \in Nat /\ DOMAIN f.items = 1..n /\ f.open \in 0..n
           /\ \A k \in 1..n : IsItem(f.items[k])
           /\ \E items, open, request : f = [items |-> items, open |-> open, request |-> request]
<1>1. PICK S : (\A x \in S : IsItem(x)) /\ f.items \in Seq(S)
  BY DEF Fed
<1>2. n \in Nat /\ DOMAIN f.items = 1..n
  BY <1>1, LenProperties
<1>3. \A k \in 1..n : IsItem(f.items[k])
  BY <1>1, ElementOfSeq
<1>4. f.open \in 0..n
  BY DEF Fed
<1>5. \E items, open, request : f = [items |-> items, open |-> open, request |-> request]
  BY DEF Fed
<1>. QED  BY <1>2, <1>3, <1>4, <1>5

(* A text: the open activity is closed, and the text is put after all.       *)
LEMMA ClosedIs ==
    ASSUME NEW f, Fed(f), NEW completed, NEW n, n = Len(f.items),
           NEW g, g = Closed(f, completed)
    PROVE  /\ g.open = 0 /\ Len(g.items) = n
           /\ \A k \in 1..n : /\ g.items[k].kind = f.items[k].kind
                              /\ g.items[k].steps = f.items[k].steps
                              /\ k # f.open => g.items[k] = f.items[k]
           /\ f.open # 0 => /\ g.items[f.open].closed
                            /\ g.items[f.open].completed = completed
<1>1. CASE f.open = 0
  BY <1>1 DEF Closed
<1>2. CASE f.open # 0
  <2>1. PICK items, open, request : f = [items |-> items, open |-> open, request |-> request]
    BY FedIs
  <2>2. /\ n \in Nat /\ DOMAIN f.items = 1..n /\ f.open \in 1..n
        /\ \A k \in 1..n : IsItem(f.items[k])
    BY <1>2, FedIs
  <2>. DEFINE k == f.open
              shut == TRUE
              item == [f.items[k] EXCEPT !.closed = shut, !.completed = completed]
  <2>3. g = [items |-> [f.items EXCEPT ![k] = item], open |-> 0, request |-> f.request]
    <3>1. f = [items |-> f.items, open |-> f.open, request |-> f.request]
      BY DEF Fed
    <3>. QED  BY <1>2, <2>2, <3>1 DEF Closed
  <2>4. g.items = [f.items EXCEPT ![k] = item] /\ g.open = 0
    BY <2>3
  <2>. HIDE DEF shut
  <2>5. /\ item.kind = f.items[k].kind /\ item.steps = f.items[k].steps
        /\ item.closed = shut /\ item.completed = completed
    BY <2>2, FieldsAre
  <2>. HIDE DEF item, k
  <2>6. DOMAIN g.items = 1..n /\ g.items[k] = item
        /\ \A x \in 1..n : x # k => g.items[x] = f.items[x]
    BY <2>2, <2>4 DEF k
  <2>7. Fed(g)
    BY ClosedFed
  <2>8. Len(g.items) = n
    <3>1. DOMAIN g.items = 1..Len(g.items) /\ Len(g.items) \in Nat
      BY <2>7, FedIs
    <3>2. 1..Len(g.items) = 1..n
      BY <2>6, <3>1
    <3>. QED  BY ONLY <2>2, <3>1, <3>2
  <2>9. /\ g.items[f.open].closed
        /\ g.items[f.open].completed = completed
    BY <2>5, <2>6 DEF k, shut
  <2>10. \A x \in 1..n : /\ g.items[x].kind = f.items[x].kind
                         /\ g.items[x].steps = f.items[x].steps
                         /\ x # f.open => g.items[x] = f.items[x]
    <3>1. \A x \in 1..n : x = k \/ x # k
      OBVIOUS
    <3>. QED  BY <2>5, <2>6 DEF k
  <2>. QED  BY <2>4, <2>8, <2>9, <2>10
<1>. QED  BY <1>1, <1>2

LEMMA TextIs ==
    ASSUME NEW f, Fed(f), NEW m \in MessageSet, Talks(m), NEW n, n = Len(f.items),
           NEW completed \in BOOLEAN, completed <=> m.role = "assistant",
           NEW g, g = ReadMessage(f, m)
    PROVE  /\ g.open = 0 /\ Len(g.items) = n + 1 /\ g.items[n + 1] = MessageItem(m)
           /\ \A k \in 1..n : /\ g.items[k].kind = f.items[k].kind
                              /\ g.items[k].steps = f.items[k].steps
                              /\ k # f.open => g.items[k] = f.items[k]
           /\ f.open # 0 => /\ g.items[f.open].closed
                            /\ g.items[f.open].completed = completed
<1>. DEFINE h == Closed(f, completed)
<1>1. m.role \in {"user", "assistant"}
  BY DEF Talks
<1>2. g.items = Append(h.items, MessageItem(m)) /\ g.open = h.open
  <2>0. Fed(Closed(f, TRUE)) /\ Fed(Closed(f, FALSE))
    BY ClosedFed
  <2>1. CASE m.role = "user"
    <3>. DEFINE c == Closed(f, FALSE)
    <3>1. g = [c EXCEPT !.items = Append(@, MessageItem(m)), !.request = m.id]
      BY <2>1 DEF ReadMessage, ReadUser
    <3>2. completed = FALSE
      BY <2>1
    <3>3. h = c
      BY <3>2
    <3>. HIDE DEF c, h
    <3>4. PICK items, open, request : c = [items |-> items, open |-> open, request |-> request]
      BY <2>0, FedIs DEF c
    <3>. QED  BY <3>1, <3>3, <3>4
  <2>2. CASE m.role = "assistant"
    <3>. DEFINE c == Closed(f, TRUE)
    <3>1. g = [c EXCEPT !.items = Append(@, MessageItem(m))]
      BY <2>2 DEF ReadMessage, ReadText
    <3>2. completed = TRUE
      BY <2>2
    <3>3. h = c
      BY <3>2
    <3>. HIDE DEF c, h
    <3>4. PICK items, open, request : c = [items |-> items, open |-> open, request |-> request]
      BY <2>0, FedIs DEF c
    <3>. QED  BY <3>1, <3>3, <3>4
  <2>. QED  BY <1>1, <2>1, <2>2
<1>. HIDE DEF h
<1>3. /\ h.open = 0 /\ Len(h.items) = n
      /\ \A k \in 1..n : /\ h.items[k].kind = f.items[k].kind
                         /\ h.items[k].steps = f.items[k].steps
                         /\ k # f.open => h.items[k] = f.items[k]
      /\ f.open # 0 => h.items[f.open].closed /\ h.items[f.open].completed = completed
  <2>1. h = Closed(f, completed) /\ Fed(f) /\ n = Len(f.items)
    BY DEF h
  <2>. QED  BY ONLY <2>1, ClosedIs
<1>4. Fed(h)
  BY ClosedFed DEF h
<1>5. PICK S : h.items \in Seq(S)
  BY <1>4 DEF Fed
<1>6. n \in Nat /\ f.open \in 0..n
  BY FedIs
<1>7. /\ Len(g.items) = n + 1 /\ g.items[n + 1] = MessageItem(m)
      /\ \A k \in 1..n : g.items[k] = h.items[k]
  <2>. DEFINE item == MessageItem(m)
              T == S \cup {item}
  <2>1. h.items \in Seq(T) /\ item \in T
    BY <1>5
  <2>2. g.items = Append(h.items, item)
    BY <1>2
  <2>. HIDE DEF item, T
  <2>3. Len(g.items) = n + 1 /\ g.items[n + 1] = item
        /\ \A k \in 1..n : g.items[k] = h.items[k]
    BY <1>3, <2>1, <2>2, AppendProperties
  <2>. QED  BY <2>3 DEF item
<1>8. f.open # 0 => /\ g.items[f.open].closed
                    /\ g.items[f.open].completed = completed
  BY <1>3, <1>6, <1>7
<1>9. \A k \in 1..n : /\ g.items[k].kind = f.items[k].kind
                      /\ g.items[k].steps = f.items[k].steps
                      /\ k # f.open => g.items[k] = f.items[k]
  BY <1>3, <1>7
<1>. QED  BY <1>2, <1>3, <1>7, <1>8, <1>9

(* Calls: each that is not known yet gets a step of its own.                 *)
Known(steps, call) == IF \E i \in DOMAIN steps : steps[i].call = call THEN steps
                      ELSE Append(steps, Step(call))
CallsIs(it, steps, calls, n) ==
    it = [s \in SUBSET (1..n) |-> IF s = {} THEN steps
                                  ELSE Known(it[s \ {Max(s)}], calls[Max(s)])]

LEMMA CallsFoldIs ==
    ASSUME NEW steps, NEW calls, NEW n \in Nat
    PROVE  \E it : CallsIs(it, steps, calls, n)
<1>. DEFINE Is(k, it) == CallsIs(it, steps, calls, k)
            G == {k \in Nat : \E it : Is(k, it)}
<1>. USE DEF CallsIs
<1>1. 0 \in G
  <2>. DEFINE it == [s \in SUBSET (1..0) |-> steps]
  <2>1. \A s \in SUBSET (1..0) : s = {}
    OBVIOUS
  <2>2. Is(0, it)
    BY <2>1
  <2>. QED  BY <2>2
<1>2. ASSUME NEW k \in Nat, k \in G PROVE k + 1 \in G
  <2>1. PICK it : Is(k, it)
    BY <1>2
  <2>. DEFINE on == [s \in SUBSET (1..k + 1) |->
                       IF k + 1 \in s THEN Known(it[s \ {k + 1}], calls[k + 1]) ELSE it[s]]
  <2>2. ASSUME NEW s \in SUBSET (1..k + 1)
        PROVE  on[s] = IF s = {} THEN steps
                       ELSE Known(on[s \ {Max(s)}], calls[Max(s)])
    <3>1. CASE k + 1 \in s
      <4>1. Max(s) = k + 1
        BY <3>1, GreatestIs
      <4>2. on[s \ {k + 1}] = it[s \ {k + 1}]
        OBVIOUS
      <4>3. on[s] = Known(it[s \ {k + 1}], calls[k + 1])
        BY <3>1
      <4>. QED  BY <3>1, <4>1, <4>2, <4>3
    <3>2. CASE k + 1 \notin s
      <4>1. s \in SUBSET (1..k) /\ s \ {Max(s)} \in SUBSET (1..k)
        <5>1. \A y \in s : y \in 1..k
          BY <3>2
        <5>. QED  BY <5>1
      <4>2. on[s] = it[s] /\ on[s \ {Max(s)}] = it[s \ {Max(s)}]
        BY <3>2
      <4>3. it[s] = IF s = {} THEN steps
                    ELSE Known(it[s \ {Max(s)}], calls[Max(s)])
        BY <2>1, <4>1
      <4>. QED  BY <4>2, <4>3
    <3>. QED  BY <3>1, <3>2
  <2>3. Is(k + 1, on)
    BY <2>2
  <2>. HIDE DEF Is, on
  <2>4. \E x : Is(k + 1, x)
    BY <2>3
  <2>. QED  BY <2>4
<1>. HIDE DEF G
<1>3. n \in G
  BY <1>1, <1>2, UpTo
<1>. QED  BY <1>3 DEF G

LEMMA CallsPass ==
    ASSUME NEW steps, NEW calls, NEW n \in Nat, DOMAIN calls = 1..n
    PROVE  \E f : /\ f[0] = steps
                  /\ \A k \in 0..n : k < n => f[k + 1] = Known(f[k], calls[k + 1])
                  /\ WithCalls(steps, calls) = f[n]
<1>. DEFINE it == CHOOSE x : CallsIs(x, steps, calls, n)
            f == [k \in 0..n |-> it[1..k]]
<1>1. CallsIs(it, steps, calls, n)
  BY CallsFoldIs
<1>2. WithCalls(steps, calls) = it[1..n]
  BY DEF WithCalls, FoldLeft, MapThenFoldSet, CallsIs, Known
<1>. HIDE DEF it
<1>3. f[0] = steps
  <2>1. 1..0 = {}
    OBVIOUS
  <2>. QED  BY <1>1, <2>1 DEF CallsIs
<1>4. ASSUME NEW k \in 0..n, k < n PROVE f[k + 1] = Known(f[k], calls[k + 1])
  <2>. DEFINE s == 1..k + 1
  <2>1. k \in Nat /\ k + 1 \in 0..n /\ s \in SUBSET (1..n) /\ k + 1 \in s
    BY <1>4
  <2>2. s \ {k + 1} = 1..k
    BY <2>1
  <2>3. Max(s) = k + 1
    BY <2>1, GreatestIs
  <2>4. f[k + 1] = it[s] /\ f[k] = it[1..k]
    BY <2>1
  <2>. HIDE DEF s, f
  <2>5. it[s] = Known(it[s \ {Max(s)}], calls[Max(s)])
    BY <1>1, <2>1 DEF CallsIs
  <2>. QED  BY <2>2, <2>3, <2>4, <2>5
<1>5. WithCalls(steps, calls) = f[n]
  BY <1>2
<1>. HIDE DEF f
<1>. QED  BY <1>3, <1>4, <1>5

(* So the steps are those there were and those of the calls.                 *)
Comes(new, steps, calls) ==
    \A x \in DOMAIN new : \/ \E y \in DOMAIN steps : new[x] = steps[y]
                          \/ \E c \in calls : new[x] = Step(c)

LEMMA OneCall ==
    ASSUME NEW steps, StepList(steps), NEW call, NEW new, new = Known(steps, call)
    PROVE  /\ StepList(new) /\ CallsOf(new) = CallsOf(steps) \cup {call}
           /\ Comes(new, steps, {call})
<1>1. CASE \E i \in DOMAIN steps : steps[i].call = call
  BY <1>1 DEF Known, CallsOf, Comes
<1>2. CASE ~\E i \in DOMAIN steps : steps[i].call = call
  <2>1. PICK S : (\A x \in S : IsStep(x)) /\ steps \in Seq(S)
    BY DEF StepList
  <2>. DEFINE step == Step(call)
              T == S \cup {step}
              n == Len(steps)
  <2>2. step.call = call /\ IsStep(step)
    BY DEF Step, IsStep
  <2>3. steps \in Seq(T) /\ step \in T /\ new = Append(steps, step)
    BY <1>2, <2>1 DEF Known
  <2>4. \A x \in T : IsStep(x)
    BY <2>1, <2>2
  <2>. HIDE DEF step, T
  <2>5. /\ new \in Seq(T) /\ n \in Nat /\ DOMAIN steps = 1..n /\ DOMAIN new = 1..n + 1
        /\ new[n + 1] = step /\ \A x \in 1..n : new[x] = steps[x]
    <3>1. /\ new \in Seq(T) /\ Len(new) = n + 1
          /\ new[n + 1] = step /\ \A x \in 1..n : new[x] = steps[x]
      BY <2>3, AppendProperties
    <3>2. n \in Nat /\ DOMAIN steps = 1..n /\ DOMAIN new = 1..Len(new)
      BY <2>3, <3>1, LenProperties
    <3>. QED  BY <3>1, <3>2
  <2>. HIDE DEF n
  <2>6. \A x \in DOMAIN new : x \in DOMAIN steps \/ x = n + 1
    BY <2>5
  <2>7. \A x \in DOMAIN steps : x \in DOMAIN new /\ new[x] = steps[x]
    BY <2>5
  <2>8. n + 1 \in DOMAIN new
    BY <2>5
  <2>9. Comes(new, steps, {call})
    BY <2>5, <2>6, <2>7 DEF Comes, step
  <2>10. CallsOf(new) = CallsOf(steps) \cup {call}
    BY <2>2, <2>5, <2>6, <2>7, <2>8 DEF CallsOf
  <2>11. StepList(new)
    BY <2>4, <2>5 DEF StepList
  <2>. QED  BY <2>9, <2>10, <2>11
<1>. QED  BY <1>1, <1>2

LEMMA WithCallsIs ==
    ASSUME NEW steps, StepList(steps), NEW calls \in Seq(CallIds),
           NEW new, new = WithCalls(steps, calls)
    PROVE  /\ StepList(new) /\ CallsOf(new) = CallsOf(steps) \cup ToSet(calls)
           /\ Comes(new, steps, ToSet(calls))
<1>. DEFINE First(k) == {calls[j] : j \in 1..k}
<1>1. PICK n \in Nat : DOMAIN calls = 1..n
  BY LenProperties
<1>2. PICK f : /\ f[0] = steps
               /\ \A k \in 0..n : k < n => f[k + 1] = Known(f[k], calls[k + 1])
               /\ WithCalls(steps, calls) = f[n]
  BY <1>1, CallsPass
<1>. DEFINE Good(k) == /\ StepList(f[k]) /\ CallsOf(f[k]) = CallsOf(steps) \cup First(k)
                       /\ Comes(f[k], steps, First(k))
            G == {k \in 0..n : Good(k)}
<1>3. 0 \in G
  <2>1. First(0) = {}
    OBVIOUS
  <2>2. 0 \in 0..n
    BY <1>1
  <2>. HIDE DEF First
  <2>. QED  BY <1>2, <2>1, <2>2 DEF Comes
<1>4. ASSUME NEW k \in 0..n, k \in G, k < n PROVE k + 1 \in G
  <2>1. k + 1 \in 0..n /\ f[k + 1] = Known(f[k], calls[k + 1])
    BY <1>1, <1>2, <1>4
  <2>2. Good(k)
    BY <1>4
  <2>3. First(k + 1) = First(k) \cup {calls[k + 1]}
    BY <1>1, <1>4
  <2>. HIDE DEF First
  <2>4. /\ StepList(f[k + 1]) /\ CallsOf(f[k + 1]) = CallsOf(f[k]) \cup {calls[k + 1]}
        /\ Comes(f[k + 1], f[k], {calls[k + 1]})
    BY <2>1, <2>2, OneCall
  <2>5. Comes(f[k + 1], steps, First(k + 1))
    BY <2>2, <2>3, <2>4 DEF Comes
  <2>6. Good(k + 1)
    BY <2>2, <2>3, <2>4, <2>5
  <2>. QED  BY <2>1, <2>6
<1>5. n \in G
  <2>. HIDE DEF G
  <2>1. \A k \in 0..n : k \in G /\ k < n => k + 1 \in G
    BY <1>4
  <2>2. \A k \in 0..n : k \in G
    BY <1>1, <1>3, <2>1, UpTo
  <2>. QED  BY <1>1, <2>2
<1>6. First(n) = ToSet(calls)
  BY <1>1 DEF ToSet
<1>. HIDE DEF First
<1>. QED  BY <1>2, <1>5, <1>6

(* An answer: it goes to the steps of its call.                              *)
Given(new, steps, m) ==
    \A x \in DOMAIN steps :
        /\ new[x].call = steps[x].call
        /\ steps[x].call \in ToSet(m.calls) => new[x].result = m.id
        /\ steps[x].call \notin ToSet(m.calls) => new[x] = steps[x]

LEMMA WithResultIs ==
    ASSUME NEW steps, StepList(steps), NEW m, NEW new, new = WithResult(steps, m)
    PROVE  /\ StepList(new) /\ DOMAIN new = DOMAIN steps /\ CallsOf(new) = CallsOf(steps)
           /\ Given(new, steps, m)
<1>1. PICK S : (\A x \in S : IsStep(x)) /\ steps \in Seq(S)
  BY DEF StepList
<1>2. Len(steps) \in Nat /\ DOMAIN steps = 1..Len(steps)
      /\ \A x \in DOMAIN steps : IsStep(steps[x])
  BY <1>1, LenProperties, ElementOfSeq
<1>3. DOMAIN new = DOMAIN steps
  BY DEF WithResult
<1>4. ASSUME NEW x \in DOMAIN steps
      PROVE  /\ IsStep(new[x]) /\ new[x].call = steps[x].call
             /\ steps[x].call \in ToSet(m.calls) => new[x].result = m.id
             /\ steps[x].call \notin ToSet(m.calls) => new[x] = steps[x]
  <2>1. IsStep(steps[x])
    BY <1>2
  <2>2. CASE steps[x].call \notin ToSet(m.calls)
    BY <2>1, <2>2 DEF WithResult
  <2>3. CASE steps[x].call \in ToSet(m.calls)
    <3>1. new[x] = [steps[x] EXCEPT !.result = m.id]
      BY <2>3 DEF WithResult
    <3>2. new[x] = [call |-> steps[x].call, result |-> m.id]
      BY <2>1, <3>1 DEF IsStep
    <3>. QED  BY <2>3, <3>2 DEF IsStep
  <2>. QED  BY <2>2, <2>3
<1>5. StepList(new)
  <2>. DEFINE T == {new[x] : x \in DOMAIN steps}
  <2>1. \A y \in T : IsStep(y)
    BY <1>4
  <2>2. new \in [1..Len(steps) -> T]
    BY <1>2 DEF WithResult
  <2>. HIDE DEF T
  <2>3. new \in Seq(T)
    BY <1>2, <2>2, SeqDef
  <2>. QED  BY <2>1, <2>3 DEF StepList
<1>6. CallsOf(new) = CallsOf(steps)
  BY <1>3, <1>4 DEF CallsOf
<1>. QED  BY <1>3, <1>4, <1>5, <1>6 DEF Given

(* The open activity with other steps.                                      *)
WithSteps(f, steps) == [f EXCEPT !.items[f.open].steps = steps]
LEMMA StepsAre ==
    ASSUME NEW f, Fed(f), f.open # 0, NEW steps, NEW n, n = Len(f.items),
           NEW g, g = WithSteps(f, steps)
    PROVE  /\ g.open = f.open /\ Len(g.items) = n
           /\ \A k \in 1..n : k # f.open => g.items[k] = f.items[k]
           /\ g.items[f.open].kind = f.items[f.open].kind
           /\ g.items[f.open].closed = f.items[f.open].closed
           /\ g.items[f.open].completed = f.items[f.open].completed
           /\ g.items[f.open].steps = steps
<1>. DEFINE k == f.open
            item == [f.items[k] EXCEPT !.steps = steps]
<1>1. PICK items, open, request : f = [items |-> items, open |-> open, request |-> request]
  BY FedIs
<1>2. /\ n \in Nat /\ DOMAIN f.items = 1..n /\ f.open \in 1..n
      /\ \A x \in 1..n : IsItem(f.items[x])
  BY FedIs
<1>3. g.items = [f.items EXCEPT ![k] = item] /\ g.open = k
  <2>1. k \in DOMAIN items
    BY <1>1, <1>2
  <2>2. g = [items |-> [f.items EXCEPT ![k] = item], open |-> k, request |-> f.request]
    BY <1>1, <2>1 DEF WithSteps
  <2>. QED  BY <2>2
<1>4. /\ item.kind = f.items[k].kind /\ item.closed = f.items[k].closed
      /\ item.completed = f.items[k].completed /\ item.steps = steps
  BY <1>2, FieldsAre
<1>. HIDE DEF item, k
<1>5. /\ DOMAIN g.items = 1..n /\ g.items[k] = item
      /\ \A x \in 1..n : x # k => g.items[x] = f.items[x]
  BY <1>2, <1>3 DEF k
<1>6. Len(g.items) = n
  <2>1. Fed(g)
    BY StepsFed DEF WithSteps
  <2>2. DOMAIN g.items = 1..Len(g.items) /\ Len(g.items) \in Nat
    BY <2>1, FedIs
  <2>3. 1..Len(g.items) = 1..n
    BY <1>5, <2>2
  <2>. QED  BY ONLY <1>2, <2>2, <2>3
<1>. QED  BY <1>3, <1>4, <1>5, <1>6 DEF k

LEMMA OpenedIs ==
    ASSUME NEW f, Fed(f), f.open = 0, NEW n, n = Len(f.items), NEW g, g = Opened(f)
    PROVE  /\ g.open = n + 1 /\ Len(g.items) = n + 1
           /\ \A k \in 1..n : g.items[k] = f.items[k]
           /\ g.items[n + 1] = Activity(f.request)
<1>. DEFINE item == Activity(f.request)
<1>1. PICK items, open, request : f = [items |-> items, open |-> open, request |-> request]
  BY FedIs
<1>2. g.items = Append(f.items, item) /\ g.open = n + 1
  <2>1. g = [items |-> Append(f.items, item), open |-> n + 1, request |-> f.request]
    BY <1>1 DEF Opened
  <2>. QED  BY <2>1
<1>3. PICK S : f.items \in Seq(S)
  BY DEF Fed
<1>. DEFINE T == S \cup {item}
<1>4. f.items \in Seq(T) /\ item \in T
  BY <1>3
<1>. HIDE DEF item, T
<1>5. /\ Len(g.items) = n + 1 /\ g.items[n + 1] = item
      /\ \A k \in 1..n : g.items[k] = f.items[k]
  BY <1>2, <1>4, AppendProperties
<1>. QED  BY <1>2, <1>5 DEF item

(* What calls do: an activity is open then, and has them.                   *)
LEMMA CallsRead ==
    ASSUME NEW f, Fed(f), NEW m \in MessageSet, m.role = "calls",
           NEW n, n = Len(f.items), NEW g, g = ReadMessage(f, m)
    PROVE  /\ f.open # 0 =>
                /\ g.open = f.open /\ Len(g.items) = n
                /\ \A k \in 1..n : k # f.open => g.items[k] = f.items[k]
                /\ g.items[f.open].kind = f.items[f.open].kind
                /\ g.items[f.open].closed = f.items[f.open].closed
                /\ g.items[f.open].completed = f.items[f.open].completed
                /\ g.items[f.open].steps = WithCalls(f.items[f.open].steps, m.calls)
           /\ f.open = 0 =>
                /\ g.open = n + 1 /\ Len(g.items) = n + 1
                /\ \A k \in 1..n : g.items[k] = f.items[k]
                /\ g.items[n + 1].kind = "activity"
                /\ ~g.items[n + 1].closed /\ ~g.items[n + 1].completed
                /\ g.items[n + 1].completed \in BOOLEAN
                /\ g.items[n + 1].steps = WithCalls(<<>>, m.calls)
<1>. DEFINE h == Opened(f)
            steps == WithCalls(h.items[h.open].steps, m.calls)
<1>1. Fed(h) /\ h.open # 0
  BY OpenedFed
<1>0. PICK p : p = Len(h.items)
  OBVIOUS
<1>2. g = WithSteps(h, steps)
  <2>1. g = ReadCalls(f, m)
    BY DEF ReadMessage
  <2>2. PICK items, open, request : h = [items |-> items, open |-> open, request |-> request]
    BY <1>1, FedIs
  <2>3. h.open \in DOMAIN h.items /\ IsItem(h.items[h.open])
    <3>. HIDE DEF h
    <3>. QED  BY <1>0, <1>1, FedIs
  <2>4. PICK kind, id, closed, completed, old :
           h.items[h.open] = [kind |-> kind, id |-> id, closed |-> closed,
                              completed |-> completed, steps |-> old]
    BY <2>3 DEF IsItem
  <2>. HIDE DEF h
  <2>5. ReadCalls(f, m) = [h EXCEPT !.items[h.open].steps = WithCalls(@, m.calls)]
    BY DEF ReadCalls, h
  <2>. QED  BY <2>1, <2>2, <2>3, <2>4, <2>5 DEF WithSteps
<1>. HIDE DEF h, steps
<1>3. /\ g.open = h.open /\ Len(g.items) = Len(h.items)
      /\ \A k \in 1..Len(h.items) : k # h.open => g.items[k] = h.items[k]
      /\ g.items[h.open].kind = h.items[h.open].kind
      /\ g.items[h.open].closed = h.items[h.open].closed
      /\ g.items[h.open].completed = h.items[h.open].completed
      /\ g.items[h.open].steps = steps
  BY <1>0, <1>1, <1>2, StepsAre
<1>4. CASE f.open # 0
  <2>1. h = f
    BY <1>4 DEF h, Opened
  <2>. QED  BY <1>3, <1>4, <2>1 DEF steps
<1>5. CASE f.open = 0
  <2>1. /\ h.open = n + 1 /\ Len(h.items) = n + 1
        /\ \A k \in 1..n : h.items[k] = f.items[k]
        /\ h.items[n + 1] = Activity(f.request)
    BY <1>5, OpenedIs DEF h
  <2>2. n \in Nat
    BY FedIs
  <2>3. /\ Activity(f.request).kind = "activity" /\ Activity(f.request).steps = <<>>
        /\ ~Activity(f.request).closed /\ ~Activity(f.request).completed
        /\ Activity(f.request).completed \in BOOLEAN
    BY DEF Activity
  <2>4. \A k \in 1..n : k \in 1..n + 1 /\ k # n + 1
    BY <2>2
  <2>5. steps = WithCalls(<<>>, m.calls)
    BY <2>1, <2>3 DEF steps
  <2>. HIDE DEF Activity
  <2>6. /\ g.items[n + 1].kind = "activity"
        /\ ~g.items[n + 1].closed /\ ~g.items[n + 1].completed
        /\ g.items[n + 1].completed \in BOOLEAN
    BY <1>3, <2>1, <2>3
  <2>. QED  BY <1>3, <1>5, <2>1, <2>4, <2>5, <2>6
<1>. QED  BY <1>4, <1>5

(* What an answer does: nothing unless an activity is open.                  *)
LEMMA ResultRead ==
    ASSUME NEW f, Fed(f), NEW m \in MessageSet, m.role = "tool",
           NEW n, n = Len(f.items), NEW g, g = ReadMessage(f, m)
    PROVE  /\ f.open = 0 => g = f
           /\ f.open # 0 =>
                /\ g.open = f.open /\ Len(g.items) = n
                /\ \A k \in 1..n : k # f.open => g.items[k] = f.items[k]
                /\ g.items[f.open].kind = f.items[f.open].kind
                /\ g.items[f.open].closed = f.items[f.open].closed
                /\ g.items[f.open].completed = f.items[f.open].completed
                /\ g.items[f.open].steps = WithResult(f.items[f.open].steps, m)
<1>1. g = ReadResult(f, m)
  BY DEF ReadMessage
<1>2. CASE f.open = 0
  BY <1>1, <1>2 DEF ReadResult
<1>3. CASE f.open # 0
  <2>1. PICK items, open, request : f = [items |-> items, open |-> open, request |-> request]
    BY FedIs
  <2>2. f.open \in DOMAIN f.items /\ IsItem(f.items[f.open])
    BY <1>3, FedIs
  <2>3. PICK kind, id, closed, completed, old :
           f.items[f.open] = [kind |-> kind, id |-> id, closed |-> closed,
                              completed |-> completed, steps |-> old]
    BY <2>2 DEF IsItem
  <2>. DEFINE steps == WithResult(f.items[f.open].steps, m)
  <2>4. g = [f EXCEPT !.items[f.open].steps = WithResult(@, m)]
    BY <1>1, <1>3 DEF ReadResult
  <2>5. g = WithSteps(f, steps)
    BY <2>1, <2>2, <2>3, <2>4 DEF WithSteps
  <2>. HIDE DEF steps
  <2>6. /\ g.open = f.open /\ Len(g.items) = n
        /\ \A k \in 1..n : k # f.open => g.items[k] = f.items[k]
        /\ g.items[f.open].kind = f.items[f.open].kind
        /\ g.items[f.open].closed = f.items[f.open].closed
        /\ g.items[f.open].completed = f.items[f.open].completed
        /\ g.items[f.open].steps = steps
    BY <1>3, <2>5, StepsAre
  <2>. QED  BY <1>3, <2>6 DEF steps
<1>. QED  BY <1>2, <1>3

-----------------------------------------------------------------------------
(* What the pass has made of the messages, message by message.              *)

LEMMA ItemsPlaced ==
    ASSUME NEW items, NEW n, n \in Nat, DOMAIN items = 1..n
    PROVE  /\ TextsIn(items) \subseteq 1..n /\ GroupsIn(items) \subseteq 1..n
           /\ \A k \in 1..n : k \in TextsIn(items) <=> items[k].kind = "message"
           /\ \A k \in 1..n : k \in GroupsIn(items) <=> items[k].kind # "message"
  BY DEF TextsIn, GroupsIn

LEMMA TextPlaced ==
    ASSUME NEW list \in Seq(MessageSet), NEW i \in 0..Len(list), i < Len(list),
           NEW m, m = list[i + 1], Talks(m), NEW f, HasRead(list, i, f),
           NEW g, g = ReadMessage(f, m)
    PROVE  /\ Placed(list, i + 1, g)
           /\ \A k \in GroupsIn(f.items) : Where(f.items, k) \in 0..At(list, i)
           /\ SamePlaces(g.items, f.items, Len(f.items))
           /\ GroupsIn(g.items) = GroupsIn(f.items)
           /\ At(list, i + 1) = At(list, i) + 1 /\ At(list, i) \in Nat
<1>0. PICK all, n, new : all = Len(list) /\ n = Len(f.items) /\ new = Len(g.items)
  OBVIOUS
<1>1. /\ i + 1 \in DOMAIN list /\ i + 1 \in 0..all /\ m \in MessageSet
      /\ i + 1 \in Said(list) /\ m.role # "calls"
  <2>1. all \in Nat /\ DOMAIN list = 1..all
    BY <1>0, SaidIs
  <2>2. i + 1 \in DOMAIN list /\ i + 1 \in 0..all
    BY <1>0, <2>1
  <2>. QED  BY <2>2, ElementOfSeq, <1>0, <2>1 DEF Said, Talks
<1>2. At(list, i + 1) = At(list, i) + 1 /\ At(list, i) \in Nat
  BY <1>0, SaidIs
<1>3. Fed(f) /\ Placed(list, i, f)
  BY DEF HasRead
<1>4. Fed(g)
  BY <1>1, <1>3, ReadFed
<1>5. PICK completed \in BOOLEAN : completed <=> m.role = "assistant"
  OBVIOUS
<1>6. /\ g.open = 0 /\ new = n + 1 /\ g.items[n + 1] = MessageItem(m)
      /\ \A k \in 1..n : /\ g.items[k].kind = f.items[k].kind
                         /\ k # f.open => g.items[k] = f.items[k]
  <2>1. /\ g.open = 0 /\ Len(g.items) = n + 1 /\ g.items[n + 1] = MessageItem(m)
        /\ \A k \in 1..n : /\ g.items[k].kind = f.items[k].kind
                           /\ k # f.open => g.items[k] = f.items[k]
    BY <1>0, <1>1, <1>3, <1>5, TextIs
  <2>. QED  BY <1>0, <2>1
<1>7. n \in Nat /\ DOMAIN f.items = 1..n /\ new \in Nat /\ DOMAIN g.items = 1..new
      /\ n <= new
  <2>1. n \in Nat /\ DOMAIN f.items = 1..n
    BY <1>0, <1>3, FedIs
  <2>2. new \in Nat /\ DOMAIN g.items = 1..new
    BY <1>0, <1>4, FedIs
  <2>. QED  BY <1>6, <2>1, <2>2
<1>8. g.items[new].kind = "message"
  BY <1>6 DEF MessageItem
<1>9. /\ SamePlaces(g.items, f.items, n)
      /\ \A k \in 0..n : Where(f.items, k) \in Nat /\ Where(f.items, k) <= Where(f.items, n)
      /\ Where(g.items, new) = Where(f.items, n) + 1
  <2>0. \A k \in 1..n : g.items[k].kind = f.items[k].kind
    BY <1>6
  <2>1. SamePlaces(g.items, f.items, n)
    BY <1>7, <2>0, WhereKept
  <2>2. \A k \in 0..n : Where(f.items, k) \in Nat /\ Where(f.items, k) <= Where(f.items, n)
    BY <1>7, <2>0, WhereKept
  <2>3. Where(g.items, new) = Where(f.items, n) + 1
    <3>1. DOMAIN g.items = 1..n + 1 /\ g.items[n + 1].kind = "message"
      BY <1>6, <1>7, <1>8
    <3>2. Where(g.items, n + 1) = Where(f.items, n) + 1
      BY <1>7, <2>0, <3>1, LastPlace
    <3>. QED  BY <1>6, <3>2
  <2>. QED  BY <2>1, <2>2, <2>3
<1>10. /\ TextsIn(g.items) = TextsIn(f.items) \cup {new}
       /\ GroupsIn(g.items) = GroupsIn(f.items)
       /\ TextsIn(f.items) \subseteq 1..n /\ GroupsIn(f.items) \subseteq 1..n
  <2>1. \A k \in 1..new : k \in 1..n \/ k = new
    BY <1>6, <1>7
  <2>2. new \in 1..new /\ \A k \in 1..n : k \in 1..new
    BY <1>6, <1>7
  <2>3. \A k \in 1..n : g.items[k].kind = f.items[k].kind
    BY <1>6
  <2>4. TextsIn(g.items) = TextsIn(f.items) \cup {new}
    BY <1>7, <1>8, <2>1, <2>2, <2>3 DEF TextsIn
  <2>5. TextsIn(f.items) \subseteq 1..n /\ new \notin 1..n
    BY <1>6, <1>7 DEF TextsIn
  <2>. QED  BY <1>7, <2>1, <2>2, <2>4, <2>5 DEF GroupsIn
<1>11. Where(f.items, n) = At(list, i)
  BY <1>0, <1>3 DEF Placed
<1>12. \A k \in 1..n : /\ Where(g.items, k) = Where(f.items, k)
                       /\ Where(f.items, k) \in 0..At(list, i)
  <2>. TAKE k \in 1..n
  <2>1. k \in 0..n
    BY <1>7
  <2>2. Where(g.items, k) = Where(f.items, k)
    BY <1>9, <2>1 DEF SamePlaces
  <2>3. Where(f.items, k) \in Nat /\ Where(f.items, k) <= At(list, i)
    BY <1>9, <1>11, <2>1
  <2>. QED  BY <1>2, <2>2, <2>3
<1>13. Where(g.items, new) = At(list, i + 1)
  BY <1>2, <1>6, <1>9, <1>11
<1>14. {<<Where(g.items, k), g.items[k]>> : k \in TextsIn(g.items)}
          = {<<At(list, j), MessageItem(list[j])>> : j \in {x \in Said(list) : x <= i + 1}}
  <2>1. f.open \notin TextsIn(f.items)
    BY <1>3, <1>7 DEF Placed, GroupsIn, TextsIn
  <2>2. \A k \in TextsIn(f.items) : /\ Where(g.items, k) = Where(f.items, k)
                                    /\ g.items[k] = f.items[k]
    BY <1>6, <1>10, <1>12, <2>1
  <2>3. {<<Where(g.items, k), g.items[k]>> : k \in TextsIn(f.items)}
           = {<<Where(f.items, k), f.items[k]>> : k \in TextsIn(f.items)}
    BY <2>2
  <2>4. {<<Where(g.items, k), g.items[k]>> : k \in TextsIn(g.items)}
           = {<<Where(f.items, k), f.items[k]>> : k \in TextsIn(f.items)}
                \cup {<<At(list, i + 1), MessageItem(m)>>}
    BY <1>6, <1>10, <1>13, <2>3
  <2>5. {x \in Said(list) : x <= i + 1} = {x \in Said(list) : x <= i} \cup {i + 1}
    BY OneMore
  <2>6. {<<At(list, j), MessageItem(list[j])>> : j \in {x \in Said(list) : x <= i + 1}}
           = {<<At(list, j), MessageItem(list[j])>> : j \in {x \in Said(list) : x <= i}}
                \cup {<<At(list, i + 1), MessageItem(m)>>}
    BY <2>5
  <2>7. {<<Where(f.items, k), f.items[k]>> : k \in TextsIn(f.items)}
           = {<<At(list, j), MessageItem(list[j])>> : j \in {x \in Said(list) : x <= i}}
    BY <1>3 DEF Placed
  <2>. QED  BY ONLY <2>4, <2>6, <2>7
<1>15. /\ \A k \in GroupsIn(g.items) : g.items[k].kind = "activity"
       /\ \A k \in GroupsIn(g.items) : Where(g.items, k) # At(list, i + 1)
       /\ \A k, l \in GroupsIn(g.items) : Where(g.items, k) = Where(g.items, l) => k = l
  <2>1. \A k \in GroupsIn(g.items) : Where(g.items, k) # At(list, i + 1)
    BY <1>2, <1>10, <1>12
  <2>. QED  BY <1>3, <1>6, <1>10, <1>12, <2>1 DEF Placed
<1>16. {Where(g.items, k) : k \in GroupsIn(g.items)} = {At(list, j) : j \in CallsTo(list, i + 1)}
  <2>1. CallsTo(list, i + 1) = CallsTo(list, i)
    BY <1>1, OneMore
  <2>2. {Where(g.items, k) : k \in GroupsIn(g.items)}
           = {Where(f.items, k) : k \in GroupsIn(f.items)}
    BY <1>10, <1>12
  <2>. QED  BY <1>3, <2>1, <2>2 DEF Placed
<1>17. Placed(list, i + 1, g)
  BY <1>0, <1>6, <1>13, <1>14, <1>15, <1>16 DEF Placed
<1>. QED  BY <1>0, <1>2, <1>9, <1>10, <1>12, <1>17

LEMMA TextStep ==
    ASSUME NEW list \in Seq(MessageSet), NEW i \in 0..Len(list), i < Len(list),
           NEW m, m = list[i + 1], Talks(m), NEW f, HasRead(list, i, f),
           NEW g, g = ReadMessage(f, m)
    PROVE  Placed(list, i + 1, g) /\ Ended(list, i + 1, g) /\ Stepped(list, i + 1, g)
<1>0. PICK all, n : all = Len(list) /\ n = Len(f.items)
  OBVIOUS
<1>1. /\ all \in Nat /\ DOMAIN list = 1..all /\ i \in Nat /\ i + 1 \in 1..all
      /\ Said(list) \subseteq 1..all
  BY <1>0, SaidIs
<1>2. m \in MessageSet /\ i + 1 \in Said(list) /\ m.role # "calls" /\ m.role # "tool"
  BY <1>0, <1>1, ElementOfSeq DEF Said, Talks
<1>3. /\ Placed(list, i + 1, g)
      /\ \A k \in GroupsIn(f.items) : Where(f.items, k) \in 0..At(list, i)
      /\ SamePlaces(g.items, f.items, Len(f.items))
      /\ GroupsIn(g.items) = GroupsIn(f.items)
      /\ At(list, i + 1) = At(list, i) + 1 /\ At(list, i) \in Nat
  <2>1. Placed(list, i + 1, g)
    BY TextPlaced
  <2>2. \A k \in GroupsIn(f.items) : Where(f.items, k) \in 0..At(list, i)
    BY TextPlaced
  <2>3. SamePlaces(g.items, f.items, Len(f.items))
    BY TextPlaced
  <2>4. GroupsIn(g.items) = GroupsIn(f.items)
    BY TextPlaced
  <2>5. At(list, i + 1) = At(list, i) + 1 /\ At(list, i) \in Nat
    BY TextPlaced
  <2>. QED  BY <2>1, <2>2, <2>3, <2>4, <2>5
<1>4. Fed(f) /\ Placed(list, i, f) /\ Ended(list, i, f) /\ Stepped(list, i, f)
  BY DEF HasRead
<1>5. PICK completed \in BOOLEAN : completed <=> m.role = "assistant"
  OBVIOUS
<1>6. /\ \A k \in 1..n : /\ g.items[k].steps = f.items[k].steps
                         /\ k # f.open => g.items[k] = f.items[k]
      /\ f.open # 0 => g.items[f.open].closed /\ g.items[f.open].completed = completed
  BY <1>0, <1>2, <1>4, <1>5, TextIs
<1>7. GroupsIn(f.items) \subseteq 1..n
  BY <1>0, <1>4, FedIs, ItemsPlaced
<1>8. \A j \in Said(list) : j <= i + 1 <=> j <= i \/ j = i + 1
  BY <1>1
<1>9. \A j \in Said(list) : j <= i => At(list, j) <= At(list, i) /\ At(list, j) \in Nat
  <2>1. \A j \in Said(list) : j \in 0..all
    BY <1>1
  <2>. QED  BY <1>0, <2>1, SaidIs
<1>10. ASSUME NEW k \in GroupsIn(g.items)
       PROVE  /\ g.items[k].completed \in BOOLEAN
              /\ g.items[k].closed <=> Where(g.items, k) < At(list, i + 1)
              /\ g.items[k].completed <=>
                    \E j \in Said(list) : /\ j <= i + 1 /\ At(list, j) = Where(g.items, k) + 1
                                          /\ list[j].role = "assistant"
  <2>. DEFINE Ends(b) == \E j \in Said(list) : /\ j <= b /\ At(list, j) = Where(f.items, k) + 1
                                               /\ list[j].role = "assistant"
  <2>1. /\ k \in GroupsIn(f.items) /\ k \in 1..n /\ Where(g.items, k) = Where(f.items, k)
        /\ Where(f.items, k) \in 0..At(list, i) /\ Where(f.items, k) < At(list, i + 1)
    BY <1>0, <1>3, <1>7 DEF SamePlaces
  <2>2. /\ f.items[k].completed \in BOOLEAN
        /\ f.items[k].closed <=> Where(f.items, k) < At(list, i)
        /\ f.items[k].completed <=> Ends(i)
    BY <1>4, <2>1 DEF Ended
  <2>3. CASE k = f.open
    <3>1. k # 0 /\ Where(f.items, k) = At(list, i)
      BY <1>4, <2>1, <2>3 DEF Placed
    <3>2. g.items[k].closed /\ g.items[k].completed = completed
      BY <1>6, <2>3, <3>1
    <3>3. Ends(i + 1) <=> m.role = "assistant"
      <4>1. \A j \in Said(list) : j <= i => At(list, j) # Where(f.items, k) + 1
        BY <1>3, <1>9, <3>1
      <4>2. At(list, i + 1) = Where(f.items, k) + 1
        BY <1>3, <3>1
      <4>. QED  BY <1>2, <1>8, <4>1, <4>2
    <3>. QED  BY <1>5, <2>1, <3>2, <3>3
  <2>4. CASE k # f.open
    <3>1. g.items[k] = f.items[k] /\ Where(f.items, k) # At(list, i)
      BY <1>4, <1>6, <2>1, <2>4 DEF Placed
    <3>2. Where(f.items, k) < At(list, i)
      BY <1>3, <2>1, <3>1
    <3>3. At(list, i + 1) # Where(f.items, k) + 1
      BY <1>3, <2>1, <3>2
    <3>4. Ends(i + 1) <=> Ends(i)
      BY <1>8, <3>3
    <3>. QED  BY <2>1, <2>2, <3>1, <3>2, <3>4
  <2>. QED  BY <2>3, <2>4
<1>11. Ended(list, i + 1, g)
  BY <1>10 DEF Ended
<1>12. Stepped(list, i + 1, g)
  <2>1. /\ CallsTo(list, i + 1) = CallsTo(list, i)
        /\ \A gap, c : AnswersTo(list, i + 1, gap, c) = AnswersTo(list, i, gap, c)
    BY <1>2, OneMore
  <2>2. \A gap : CallsMade(list, i + 1, gap) = CallsMade(list, i, gap)
    BY <2>1 DEF CallsMade
  <2>3. \A gap, step : Right(list, i, gap, step) => Right(list, i + 1, gap, step)
    BY <2>1 DEF Right
  <2>4. \A k \in GroupsIn(f.items) : Where(g.items, k) = Where(f.items, k)
    BY <1>0, <1>3, <1>7 DEF SamePlaces
  <2>. QED  BY <1>3, <1>4, <1>6, <1>7, <2>2, <2>3, <2>4 DEF Stepped
<1>. QED  BY <1>3, <1>11, <1>12

(* What calls are, and what they find.                                       *)
LEMMA CallsSeen ==
    ASSUME NEW list, Orderly(list), NEW i \in 0..Len(list), i < Len(list),
           list[i + 1].role = "calls"
    PROVE  /\ At(list, i + 1) = At(list, i) /\ At(list, i) \in Nat
           /\ ToSet(list[i + 1].calls) \subseteq CallIds
           /\ CallsMade(list, i + 1, At(list, i))
                 = CallsMade(list, i, At(list, i)) \cup ToSet(list[i + 1].calls)
           /\ \A gap : gap # At(list, i) =>
                 CallsMade(list, i + 1, gap) = CallsMade(list, i, gap)
           /\ {At(list, j) : j \in CallsTo(list, i + 1)}
                 = {At(list, j) : j \in CallsTo(list, i)} \cup {At(list, i)}
           /\ \A c \in ToSet(list[i + 1].calls) : AnswersTo(list, i, At(list, i), c) = {}
<1>1. list \in Seq(MessageSet)
  BY DEF Orderly
<1>2. PICK n : n = Len(list)
  OBVIOUS
<1>3. /\ n \in Nat /\ DOMAIN list = 1..n /\ i \in 0..n /\ i < n /\ i + 1 \in 1..n
      /\ i + 1 \in 0..n
  BY <1>1, <1>2, SaidIs
<1>4. ~Talks(list[i + 1]) /\ list[i + 1] \in MessageSet
  BY <1>1, <1>3, ElementOfSeq DEF Talks
<1>5. At(list, i + 1) = At(list, i) /\ At(list, i) \in Nat
  BY <1>1, <1>2, <1>3, <1>4, SaidIs
<1>6. CallsTo(list, i + 1) = CallsTo(list, i) \cup {i + 1}
  BY <1>1, OneMore
<1>7. /\ CallsMade(list, i + 1, At(list, i))
            = CallsMade(list, i, At(list, i)) \cup ToSet(list[i + 1].calls)
      /\ \A gap : gap # At(list, i) =>
            CallsMade(list, i + 1, gap) = CallsMade(list, i, gap)
      /\ {At(list, j) : j \in CallsTo(list, i + 1)}
            = {At(list, j) : j \in CallsTo(list, i)} \cup {At(list, i)}
  BY <1>5, <1>6 DEF CallsMade
<1>8. ToSet(list[i + 1].calls) \subseteq CallIds
  BY <1>4 DEF MessageSet, ToSet
<1>9. ASSUME NEW c \in ToSet(list[i + 1].calls)
      PROVE  AnswersTo(list, i, At(list, i), c) = {}
  <2>1. ASSUME NEW x \in DOMAIN list, x <= i, list[x].role = "tool",
               list[x].calls = <<c>>, At(list, x) = At(list, i)
        PROVE  FALSE
    <3>1. x < i + 1 /\ x \in 0..n
      BY <1>3, <2>1
    <3>2. PICK t \in DOMAIN list : x < t /\ t < i + 1 /\ Talks(list[t])
        BY <1>3, <1>8, <2>1, <3>1 DEF Orderly
    <3>3. t \in Said(list) /\ t \in 0..n /\ t <= i
      BY <1>3, <3>2 DEF Said
    <3>4. At(list, x) < At(list, t) /\ At(list, t) <= At(list, i)
      BY <1>1, <1>2, <1>3, <3>1, <3>2, <3>3, SaidIs
    <3>5. At(list, t) \in Nat
      BY <1>1, <1>2, <3>3, SaidIs
    <3>. QED  BY <1>5, <2>1, <3>4, <3>5
  <2>. QED  BY <2>1 DEF AnswersTo
<1>. QED  BY <1>5, <1>7, <1>8, <1>9

(* While an activity is open and nothing is said, items stay in place.       *)
LEMMA OpenStays ==
    ASSUME NEW list \in Seq(MessageSet), NEW i \in 0..Len(list), i < Len(list),
           ~Talks(list[i + 1]), NEW f, HasRead(list, i, f), NEW g, Fed(g),
           f.open # 0, g.open = f.open, Len(g.items) = Len(f.items),
           \A k \in 1..Len(f.items) : k # f.open => g.items[k] = f.items[k],
           g.items[f.open].kind = f.items[f.open].kind,
           g.items[f.open].closed <=> f.items[f.open].closed,
           g.items[f.open].completed = f.items[f.open].completed,
           {At(list, j) : j \in CallsTo(list, i + 1)} = {At(list, j) : j \in CallsTo(list, i)}
    PROVE  /\ Placed(list, i + 1, g) /\ Ended(list, i + 1, g)
           /\ GroupsIn(g.items) = GroupsIn(f.items)
           /\ SamePlaces(g.items, f.items, Len(f.items))
<1>0. PICK all, n : all = Len(list) /\ n = Len(f.items)
  OBVIOUS
<1>1. At(list, i + 1) = At(list, i)
  BY <1>0, SaidIs
<1>2. Fed(f) /\ Placed(list, i, f) /\ Ended(list, i, f)
  BY DEF HasRead
<1>3. n \in Nat /\ DOMAIN f.items = 1..n /\ DOMAIN g.items = 1..n /\ n = Len(g.items)
  BY <1>0, <1>2, FedIs
<1>4. \A k \in 1..n : g.items[k].kind = f.items[k].kind
  BY <1>0
<1>5. TextsIn(g.items) = TextsIn(f.items) /\ GroupsIn(g.items) = GroupsIn(f.items)
  BY <1>3, <1>4 DEF TextsIn, GroupsIn
<1>6. \A k : Where(g.items, k) = Where(f.items, k)
  BY <1>5 DEF Where
<1>7. \A k \in 1..n : k # f.open => g.items[k] = f.items[k]
  BY <1>0
<1>8. f.open \in GroupsIn(f.items) /\ GroupsIn(f.items) \subseteq 1..n
  BY <1>2, <1>3 DEF Placed, GroupsIn
<1>9. TextsIn(f.items) \subseteq 1..n /\ f.open \notin TextsIn(f.items)
  BY <1>3, <1>8 DEF TextsIn, GroupsIn
<1>10. {x \in Said(list) : x <= i + 1} = {x \in Said(list) : x <= i}
  BY OneMore
<1>11. {<<Where(g.items, k), g.items[k]>> : k \in TextsIn(g.items)}
          = {<<At(list, j), MessageItem(list[j])>> : j \in {x \in Said(list) : x <= i + 1}}
  <2>0. \A k \in TextsIn(f.items) : /\ Where(g.items, k) = Where(f.items, k)
                                    /\ g.items[k] = f.items[k]
    BY <1>6, <1>7, <1>9
  <2>1. {<<Where(g.items, k), g.items[k]>> : k \in TextsIn(g.items)}
           = {<<Where(f.items, k), f.items[k]>> : k \in TextsIn(f.items)}
    <3>1. {<<Where(g.items, k), g.items[k]>> : k \in TextsIn(f.items)}
             = {<<Where(f.items, k), f.items[k]>> : k \in TextsIn(f.items)}
      BY <2>0
    <3>. QED  BY <1>5, <3>1
  <2>. QED  BY <1>2, <1>10, <2>1 DEF Placed
<1>12. /\ Where(g.items, Len(g.items)) = At(list, i + 1)
       /\ \A k \in GroupsIn(g.items) : g.items[k].kind = "activity"
       /\ g.open # 0 => g.open \in GroupsIn(g.items) /\ Where(g.items, g.open) = At(list, i + 1)
       /\ \A k \in GroupsIn(g.items) : Where(g.items, k) = At(list, i + 1) => k = g.open
       /\ \A k, l \in GroupsIn(g.items) : Where(g.items, k) = Where(g.items, l) => k = l
       /\ {Where(g.items, k) : k \in GroupsIn(g.items)}
             = {At(list, j) : j \in CallsTo(list, i + 1)}
  <2>1. Where(g.items, Len(g.items)) = At(list, i + 1)
    BY <1>0, <1>1, <1>2, <1>3, <1>6 DEF Placed
  <2>2. \A k \in GroupsIn(g.items) : g.items[k].kind = "activity"
    BY <1>2, <1>4, <1>5, <1>8 DEF Placed
  <2>3. g.open \in GroupsIn(g.items) /\ Where(g.items, g.open) = At(list, i + 1)
    BY <1>1, <1>2, <1>5, <1>6 DEF Placed
  <2>4. /\ \A k \in GroupsIn(g.items) : Where(g.items, k) = At(list, i + 1) => k = g.open
        /\ \A k, l \in GroupsIn(g.items) : Where(g.items, k) = Where(g.items, l) => k = l
    BY <1>1, <1>2, <1>5, <1>6 DEF Placed
  <2>5. {Where(g.items, k) : k \in GroupsIn(g.items)}
           = {Where(f.items, k) : k \in GroupsIn(f.items)}
    BY <1>5, <1>6
  <2>6. {Where(f.items, k) : k \in GroupsIn(f.items)} = {At(list, j) : j \in CallsTo(list, i)}
    BY <1>2 DEF Placed
  <2>. QED  BY <2>1, <2>2, <2>3, <2>4, <2>5, <2>6
<1>13. Placed(list, i + 1, g)
  BY <1>11, <1>12 DEF Placed
<1>14. ASSUME NEW k \in GroupsIn(g.items)
       PROVE  /\ g.items[k].completed \in BOOLEAN
              /\ g.items[k].closed <=> Where(g.items, k) < At(list, i + 1)
              /\ g.items[k].completed <=>
                    \E j \in Said(list) : /\ j <= i + 1 /\ At(list, j) = Where(g.items, k) + 1
                                          /\ list[j].role = "assistant"
  <2>1. k \in GroupsIn(f.items) /\ k \in 1..n
    BY <1>5, <1>8
  <2>2. /\ g.items[k].completed = f.items[k].completed
        /\ g.items[k].closed <=> f.items[k].closed
    BY <1>7, <2>1
  <2>3. /\ f.items[k].completed \in BOOLEAN
        /\ f.items[k].closed <=> Where(f.items, k) < At(list, i)
        /\ f.items[k].completed <=>
              \E j \in Said(list) : /\ j <= i /\ At(list, j) = Where(f.items, k) + 1
                                    /\ list[j].role = "assistant"
    BY <1>2, <2>1 DEF Ended
  <2>4. \A j \in Said(list) : j <= i + 1 <=> j <= i
    BY <1>10
  <2>. QED  BY <1>1, <1>6, <2>2, <2>3, <2>4
<1>15. Ended(list, i + 1, g)
  BY <1>14 DEF Ended
<1>. QED  BY <1>5, <1>6, <1>13, <1>15 DEF SamePlaces

(* The steps of the open activity, with those of the calls.                  *)
LEMMA CallsRight ==
    ASSUME NEW list, Orderly(list), NEW i \in 0..Len(list), i < Len(list),
           list[i + 1].role = "calls", NEW old, StepList(old),
           CallsOf(old) = CallsMade(list, i, At(list, i)),
           \A x \in DOMAIN old : Right(list, i, At(list, i), old[x]),
           NEW new, new = WithCalls(old, list[i + 1].calls)
    PROVE  /\ StepList(new) /\ CallsOf(new) = CallsMade(list, i + 1, At(list, i))
           /\ \A x \in DOMAIN new : Right(list, i + 1, At(list, i), new[x])
<1>1. /\ CallsMade(list, i + 1, At(list, i))
            = CallsMade(list, i, At(list, i)) \cup ToSet(list[i + 1].calls)
      /\ \A c \in ToSet(list[i + 1].calls) : AnswersTo(list, i, At(list, i), c) = {}
  BY CallsSeen
<1>2. list \in Seq(MessageSet) /\ list[i + 1].calls \in Seq(CallIds)
  <2>1. list \in Seq(MessageSet)
    BY DEF Orderly
  <2>2. i + 1 \in 1..Len(list)
    BY <2>1, SaidIs
  <2>3. list[i + 1] \in MessageSet
    BY <2>1, <2>2, ElementOfSeq
  <2>. QED  BY <2>1, <2>3 DEF MessageSet
<1>3. /\ StepList(new) /\ CallsOf(new) = CallsOf(old) \cup ToSet(list[i + 1].calls)
      /\ Comes(new, old, ToSet(list[i + 1].calls))
  BY <1>2, WithCallsIs
<1>4. \A gap, c : AnswersTo(list, i + 1, gap, c) = AnswersTo(list, i, gap, c)
  BY <1>2, OneMore
<1>5. ASSUME NEW x \in DOMAIN new PROVE Right(list, i + 1, At(list, i), new[x])
  <2>1. CASE \E y \in DOMAIN old : new[x] = old[y]
    BY <1>4, <2>1 DEF Right
  <2>2. CASE \E c \in ToSet(list[i + 1].calls) : new[x] = Step(c)
    <3>1. PICK c \in ToSet(list[i + 1].calls) : new[x] = Step(c)
      BY <2>2
    <3>2. new[x].call = c /\ new[x].result = 0
      BY <3>1 DEF Step
    <3>3. AnswersTo(list, i + 1, At(list, i), c) = {}
      BY <1>1, <1>4
    <3>. QED  BY <3>2, <3>3 DEF Right
  <2>. QED  BY <1>3, <2>1, <2>2 DEF Comes
<1>. QED  BY <1>1, <1>3, <1>5

LEMMA CallsStepOpen ==
    ASSUME NEW list, Orderly(list), NEW i \in 0..Len(list), i < Len(list),
           NEW m, m = list[i + 1], m.role = "calls", NEW f, HasRead(list, i, f), f.open # 0,
           NEW g, g = ReadMessage(f, m)
    PROVE  Placed(list, i + 1, g) /\ Ended(list, i + 1, g) /\ Stepped(list, i + 1, g)
<1>0. PICK n : n = Len(f.items)
  OBVIOUS
<1>1. list \in Seq(MessageSet)
  BY DEF Orderly
<1>2. m \in MessageSet /\ ~Talks(m)
  <2>1. i + 1 \in 1..Len(list)
    BY <1>1, SaidIs
  <2>. QED  BY <1>1, <2>1, ElementOfSeq DEF Talks
<1>3. Fed(f) /\ Placed(list, i, f) /\ Stepped(list, i, f)
  BY DEF HasRead
<1>4. Fed(g)
  BY <1>2, <1>3, ReadFed
<1>5. /\ g.open = f.open /\ Len(g.items) = n
      /\ \A k \in 1..n : k # f.open => g.items[k] = f.items[k]
      /\ g.items[f.open].kind = f.items[f.open].kind
      /\ g.items[f.open].closed = f.items[f.open].closed
      /\ g.items[f.open].completed = f.items[f.open].completed
      /\ g.items[f.open].steps = WithCalls(f.items[f.open].steps, m.calls)
  BY <1>0, <1>2, <1>3, CallsRead
<1>6. f.open \in GroupsIn(f.items) /\ Where(f.items, f.open) = At(list, i)
      /\ n \in Nat /\ GroupsIn(f.items) \subseteq 1..n
  <2>1. n \in Nat /\ DOMAIN f.items = 1..n
    BY <1>0, <1>3, FedIs
  <2>. QED  BY <1>3, <2>1 DEF Placed, GroupsIn
<1>7. {At(list, j) : j \in CallsTo(list, i + 1)} = {At(list, j) : j \in CallsTo(list, i)}
  <2>1. {At(list, j) : j \in CallsTo(list, i + 1)}
           = {At(list, j) : j \in CallsTo(list, i)} \cup {At(list, i)}
    BY CallsSeen
  <2>2. At(list, i) \in {At(list, j) : j \in CallsTo(list, i)}
    BY <1>3, <1>6 DEF Placed
  <2>. QED  BY <2>1, <2>2
<1>8. /\ Placed(list, i + 1, g) /\ Ended(list, i + 1, g)
      /\ GroupsIn(g.items) = GroupsIn(f.items)
      /\ SamePlaces(g.items, f.items, Len(f.items))
  BY <1>0, <1>1, <1>2, <1>4, <1>5, <1>7, OpenStays
<1>9. \A k \in GroupsIn(f.items) : Where(g.items, k) = Where(f.items, k)
  BY <1>0, <1>6, <1>8 DEF SamePlaces
<1>10. ASSUME NEW k \in GroupsIn(g.items)
       PROVE  /\ StepList(g.items[k].steps)
              /\ CallsOf(g.items[k].steps) = CallsMade(list, i + 1, Where(g.items, k))
              /\ \A x \in DOMAIN g.items[k].steps :
                    Right(list, i + 1, Where(g.items, k), g.items[k].steps[x])
  <2>1. k \in GroupsIn(f.items) /\ k \in 1..n /\ Where(g.items, k) = Where(f.items, k)
    BY <1>6, <1>8, <1>9
  <2>2. /\ StepList(f.items[k].steps)
        /\ CallsOf(f.items[k].steps) = CallsMade(list, i, Where(f.items, k))
        /\ \A x \in DOMAIN f.items[k].steps :
              Right(list, i, Where(f.items, k), f.items[k].steps[x])
    BY <1>3, <2>1 DEF Stepped
  <2>3. CASE k = f.open
    <3>1. /\ g.items[k].steps = WithCalls(f.items[k].steps, list[i + 1].calls)
          /\ Where(f.items, k) = At(list, i)
      BY <1>5, <1>6, <2>3
    <3>2. /\ StepList(g.items[k].steps)
          /\ CallsOf(g.items[k].steps) = CallsMade(list, i + 1, At(list, i))
          /\ \A x \in DOMAIN g.items[k].steps :
                Right(list, i + 1, At(list, i), g.items[k].steps[x])
      BY <2>2, <3>1, CallsRight
    <3>. QED  BY <2>1, <3>1, <3>2
  <2>4. CASE k # f.open
    <3>1. g.items[k] = f.items[k] /\ Where(f.items, k) # At(list, i)
      BY <1>3, <1>5, <2>1, <2>4 DEF Placed
    <3>2. CallsMade(list, i + 1, Where(f.items, k)) = CallsMade(list, i, Where(f.items, k))
      BY <3>1, CallsSeen
    <3>3. \A gap, c : AnswersTo(list, i + 1, gap, c) = AnswersTo(list, i, gap, c)
      BY <1>1, OneMore
    <3>4. \A gap, step : Right(list, i, gap, step) => Right(list, i + 1, gap, step)
      BY <3>3 DEF Right
    <3>. QED  BY <2>1, <2>2, <3>1, <3>2, <3>4
  <2>. QED  BY <2>3, <2>4
<1>11. Stepped(list, i + 1, g)
  BY <1>10 DEF Stepped
<1>. QED  BY <1>8, <1>11

LEMMA CallsStepShut ==
    ASSUME NEW list, Orderly(list), NEW i \in 0..Len(list), i < Len(list),
           NEW m, m = list[i + 1], m.role = "calls", NEW f, HasRead(list, i, f), f.open = 0,
           NEW g, g = ReadMessage(f, m)
    PROVE  Placed(list, i + 1, g) /\ Ended(list, i + 1, g) /\ Stepped(list, i + 1, g)
<1>0. PICK all, n, last : all = Len(list) /\ n = Len(f.items) /\ last = n + 1
  OBVIOUS
<1>1. list \in Seq(MessageSet)
  BY DEF Orderly
<1>2. /\ all \in Nat /\ DOMAIN list = 1..all /\ i \in 0..all /\ i + 1 \in 1..all
      /\ Said(list) \subseteq 1..all /\ m \in MessageSet /\ ~Talks(m)
  <2>1. /\ all \in Nat /\ DOMAIN list = 1..all /\ Said(list) \subseteq 1..all
        /\ i \in 0..all /\ i + 1 \in 1..all
    BY <1>0, <1>1, SaidIs
  <2>. QED  BY <1>1, <2>1, ElementOfSeq DEF Talks
<1>3. Fed(f) /\ Placed(list, i, f) /\ Ended(list, i, f) /\ Stepped(list, i, f)
  BY DEF HasRead
<1>4. Fed(g)
  BY <1>2, <1>3, ReadFed
<1>5. /\ g.open = last /\ Len(g.items) = last
      /\ \A k \in 1..n : g.items[k] = f.items[k]
      /\ g.items[last].kind = "activity"
      /\ ~g.items[last].closed /\ ~g.items[last].completed
      /\ g.items[last].completed \in BOOLEAN
      /\ g.items[last].steps = WithCalls(<<>>, m.calls)
  BY <1>0, <1>2, <1>3, CallsRead
<1>6. /\ n \in Nat /\ DOMAIN f.items = 1..n /\ last \in Nat /\ DOMAIN g.items = 1..last
      /\ n <= last
  <2>1. n \in Nat /\ DOMAIN f.items = 1..n
    BY <1>0, <1>3, FedIs
  <2>2. DOMAIN g.items = 1..last
    BY <1>4, <1>5, FedIs
  <2>. QED  BY <1>0, <2>1, <2>2
<1>7. /\ TextsIn(g.items) = TextsIn(f.items) /\ TextsIn(f.items) \subseteq 1..n
      /\ GroupsIn(g.items) = GroupsIn(f.items) \cup {last} /\ GroupsIn(f.items) \subseteq 1..n
  <2>1. \A k \in 1..last : k \in 1..n \/ k = last
    BY <1>0, <1>6
  <2>2. last \in 1..last /\ last \notin 1..n /\ \A k \in 1..n : k \in 1..last
    BY <1>0, <1>6
  <2>3. g.items[last].kind # "message" /\ \A k \in 1..n : g.items[k].kind = f.items[k].kind
    BY <1>5
  <2>4. TextsIn(g.items) = TextsIn(f.items)
    BY <1>6, <2>1, <2>2, <2>3 DEF TextsIn
  <2>5. TextsIn(f.items) \subseteq 1..n
    BY <1>6 DEF TextsIn
  <2>. QED  BY <1>6, <2>1, <2>2, <2>4, <2>5 DEF GroupsIn
<1>8. \A k : Where(g.items, k) = Where(f.items, k)
  BY <1>7 DEF Where
<1>9. /\ At(list, i + 1) = At(list, i) /\ At(list, i) \in Nat
      /\ CallsMade(list, i + 1, At(list, i)) = CallsMade(list, i, At(list, i)) \cup ToSet(m.calls)
      /\ {At(list, j) : j \in CallsTo(list, i + 1)}
            = {At(list, j) : j \in CallsTo(list, i)} \cup {At(list, i)}
  BY CallsSeen
<1>10. Where(g.items, last) = At(list, i)
  <2>1. \A k \in 1..n : g.items[k].kind = f.items[k].kind
    BY <1>5
  <2>2. DOMAIN g.items = 1..n + 1 /\ g.items[n + 1].kind # "message"
    BY <1>0, <1>5, <1>6
  <2>3. Where(g.items, n + 1) = Where(f.items, n)
    BY <1>6, <2>1, <2>2, LastPlace
  <2>. QED  BY <1>0, <1>3, <2>3 DEF Placed
<1>11. \A k \in GroupsIn(f.items) : k # last /\ Where(f.items, k) # At(list, i)
  <2>1. \A k \in GroupsIn(f.items) : k # 0 /\ k # last
    BY <1>0, <1>6, <1>7
  <2>2. \A k \in GroupsIn(f.items) : Where(f.items, k) = At(list, i) => k = f.open
    BY <1>3 DEF Placed
  <2>. QED  BY <2>1, <2>2
<1>12. {x \in Said(list) : x <= i + 1} = {x \in Said(list) : x <= i}
  BY <1>1, <1>2, OneMore
<1>13. /\ Where(g.items, Len(g.items)) = At(list, i + 1)
       /\ \A k \in GroupsIn(g.items) : g.items[k].kind = "activity"
       /\ g.open # 0 => g.open \in GroupsIn(g.items) /\ Where(g.items, g.open) = At(list, i + 1)
       /\ \A k \in GroupsIn(g.items) : Where(g.items, k) = At(list, i + 1) => k = g.open
       /\ \A k, l \in GroupsIn(g.items) : Where(g.items, k) = Where(g.items, l) => k = l
       /\ {Where(g.items, k) : k \in GroupsIn(g.items)}
             = {At(list, j) : j \in CallsTo(list, i + 1)}
  <2>1. Where(g.items, Len(g.items)) = At(list, i + 1)
    BY <1>5, <1>9, <1>10
  <2>2. \A k \in GroupsIn(g.items) : g.items[k].kind = "activity"
    <3>1. \A k \in GroupsIn(f.items) : f.items[k].kind = "activity"
      BY <1>3 DEF Placed
    <3>. QED  BY <1>5, <1>7, <3>1
  <2>3. g.open \in GroupsIn(g.items) /\ Where(g.items, g.open) = At(list, i + 1)
    BY <1>5, <1>7, <1>9, <1>10
  <2>4. \A k \in GroupsIn(g.items) : Where(g.items, k) = At(list, i + 1) => k = g.open
    BY <1>5, <1>7, <1>8, <1>9, <1>11
  <2>5. \A k, l \in GroupsIn(g.items) : Where(g.items, k) = Where(g.items, l) => k = l
    <3>1. \A k, l \in GroupsIn(f.items) : Where(f.items, k) = Where(f.items, l) => k = l
      BY <1>3 DEF Placed
    <3>. QED  BY <1>7, <1>8, <1>10, <1>11, <3>1
  <2>6. {Where(g.items, k) : k \in GroupsIn(g.items)}
           = {Where(f.items, k) : k \in GroupsIn(f.items)} \cup {At(list, i)}
    BY <1>7, <1>8, <1>10
  <2>7. {Where(f.items, k) : k \in GroupsIn(f.items)} = {At(list, j) : j \in CallsTo(list, i)}
    BY <1>3 DEF Placed
  <2>. QED  BY <1>9, <2>1, <2>2, <2>3, <2>4, <2>5, <2>6, <2>7
<1>14. {<<Where(g.items, k), g.items[k]>> : k \in TextsIn(g.items)}
          = {<<At(list, j), MessageItem(list[j])>> : j \in {x \in Said(list) : x <= i + 1}}
  <2>1. {<<Where(g.items, k), g.items[k]>> : k \in TextsIn(g.items)}
           = {<<Where(f.items, k), f.items[k]>> : k \in TextsIn(f.items)}
    BY <1>5, <1>7, <1>8
  <2>. QED  BY <1>3, <1>12, <2>1 DEF Placed
<1>15. Placed(list, i + 1, g)
  BY <1>13, <1>14 DEF Placed
<1>16. \A j \in Said(list) : j <= i + 1 <=> j <= i
  BY <1>12
<1>17. ASSUME NEW k \in GroupsIn(g.items)
       PROVE  /\ g.items[k].completed \in BOOLEAN
              /\ g.items[k].closed <=> Where(g.items, k) < At(list, i + 1)
              /\ g.items[k].completed <=>
                    \E j \in Said(list) : /\ j <= i + 1 /\ At(list, j) = Where(g.items, k) + 1
                                          /\ list[j].role = "assistant"
  <2>1. CASE k = last
    <3>1. ~(Where(g.items, k) < At(list, i + 1))
      BY <1>9, <1>10, <2>1
    <3>2. ASSUME NEW j \in Said(list), j <= i + 1, At(list, j) = Where(g.items, k) + 1
          PROVE  FALSE
      <4>1. j <= i /\ j \in 0..all
        BY <1>2, <1>16, <3>2
      <4>2. At(list, j) <= At(list, i) /\ At(list, j) \in Nat
        BY <1>0, <1>1, <1>2, <4>1, SaidIs
      <4>. QED  BY <1>9, <1>10, <2>1, <3>2, <4>2
    <3>. QED  BY <1>5, <2>1, <3>1, <3>2
  <2>2. CASE k # last
    <3>1. k \in GroupsIn(f.items) /\ g.items[k] = f.items[k]
      BY <1>5, <1>7, <2>2
    <3>2. /\ f.items[k].completed \in BOOLEAN
          /\ f.items[k].closed <=> Where(f.items, k) < At(list, i)
          /\ f.items[k].completed <=>
                \E j \in Said(list) : /\ j <= i /\ At(list, j) = Where(f.items, k) + 1
                                      /\ list[j].role = "assistant"
      BY <1>3, <3>1 DEF Ended
    <3>. QED  BY <1>8, <1>9, <1>16, <3>1, <3>2
  <2>. QED  BY <2>1, <2>2
<1>18. Ended(list, i + 1, g)
  BY <1>17 DEF Ended
<1>19. /\ StepList(g.items[last].steps)
       /\ CallsOf(g.items[last].steps) = CallsMade(list, i + 1, At(list, i))
       /\ \A x \in DOMAIN g.items[last].steps :
             Right(list, i + 1, At(list, i), g.items[last].steps[x])
  <2>1. At(list, i) \notin {At(list, j) : j \in CallsTo(list, i)}
    BY <1>3, <1>11 DEF Placed
  <2>2. CallsMade(list, i, At(list, i)) = {}
    BY <2>1 DEF CallsMade
  <2>3. PICK none : none = <<>>
    OBVIOUS
  <2>4. DOMAIN none = {} /\ none \in Seq({})
    BY <2>3
  <2>5. /\ StepList(none) /\ CallsOf(none) = CallsMade(list, i, At(list, i))
        /\ \A x \in DOMAIN none : Right(list, i, At(list, i), none[x])
    BY <2>2, <2>4 DEF StepList, CallsOf
  <2>6. g.items[last].steps = WithCalls(none, list[i + 1].calls)
    BY <1>5, <2>3
  <2>. QED  BY <2>5, <2>6, CallsRight
<1>20. ASSUME NEW k \in GroupsIn(g.items)
       PROVE  /\ StepList(g.items[k].steps)
              /\ CallsOf(g.items[k].steps) = CallsMade(list, i + 1, Where(g.items, k))
              /\ \A x \in DOMAIN g.items[k].steps :
                    Right(list, i + 1, Where(g.items, k), g.items[k].steps[x])
  <2>1. CASE k = last
    BY <1>10, <1>19, <2>1
  <2>2. CASE k # last
    <3>1. /\ k \in GroupsIn(f.items) /\ g.items[k] = f.items[k]
          /\ Where(g.items, k) = Where(f.items, k) /\ Where(f.items, k) # At(list, i)
      BY <1>5, <1>7, <1>8, <1>11, <2>2
    <3>2. /\ StepList(f.items[k].steps)
          /\ CallsOf(f.items[k].steps) = CallsMade(list, i, Where(f.items, k))
          /\ \A x \in DOMAIN f.items[k].steps :
                Right(list, i, Where(f.items, k), f.items[k].steps[x])
      BY <1>3, <3>1 DEF Stepped
    <3>3. CallsMade(list, i + 1, Where(f.items, k)) = CallsMade(list, i, Where(f.items, k))
      BY <3>1, CallsSeen
    <3>4. \A gap, c : AnswersTo(list, i + 1, gap, c) = AnswersTo(list, i, gap, c)
      BY <1>1, OneMore
    <3>5. \A gap, step : Right(list, i, gap, step) => Right(list, i + 1, gap, step)
      BY <3>4 DEF Right
    <3>. QED  BY <3>1, <3>2, <3>3, <3>5
  <2>. QED  BY <2>1, <2>2
<1>21. Stepped(list, i + 1, g)
  BY <1>20 DEF Stepped
<1>. QED  BY <1>15, <1>18, <1>21

(* An answer: it is for the steps of its call in the open activity.          *)
LEMMA AnswerSeen ==
    ASSUME NEW list, Orderly(list), NEW i \in 0..Len(list), i < Len(list),
           NEW m, m = list[i + 1], m.role = "tool"
    PROVE  /\ list \in Seq(MessageSet) /\ m \in MessageSet /\ ~Talks(m)
           /\ At(list, i + 1) = At(list, i)
           /\ CallsTo(list, i + 1) = CallsTo(list, i)
           /\ \A gap : CallsMade(list, i + 1, gap) = CallsMade(list, i, gap)
           /\ \A gap, step : gap # At(list, i) /\ Right(list, i, gap, step)
                                => Right(list, i + 1, gap, step)
           /\ \E c : /\ ToSet(m.calls) = {c}
                     /\ \A step : step.call = c /\ step.result = m.id
                                     => Right(list, i + 1, At(list, i), step)
                     /\ \A step : step.call # c /\ Right(list, i, At(list, i), step)
                                     => Right(list, i + 1, At(list, i), step)
<1>0. PICK all : all = Len(list)
  OBVIOUS
<1>1. list \in Seq(MessageSet)
  BY DEF Orderly
<1>2. all \in Nat /\ DOMAIN list = 1..all /\ i \in 0..all /\ i + 1 \in 1..all
  BY <1>0, <1>1, SaidIs
<1>3. m \in MessageSet /\ ~Talks(m)
  BY <1>1, <1>2, ElementOfSeq DEF Talks
<1>4. At(list, i + 1) = At(list, i)
  BY <1>0, <1>1, <1>3, SaidIs
<1>5. /\ CallsTo(list, i + 1) = CallsTo(list, i)
      /\ \A gap, c : list[i + 1].calls # <<c>> \/ At(list, i + 1) # gap =>
            AnswersTo(list, i + 1, gap, c) = AnswersTo(list, i, gap, c)
      /\ \A c : list[i + 1].role = "tool" /\ list[i + 1].calls = <<c>> =>
            list[i + 1].id \in AnswersTo(list, i + 1, At(list, i + 1), c)
  BY <1>1, OneMore
<1>6. \A gap : CallsMade(list, i + 1, gap) = CallsMade(list, i, gap)
  BY <1>5 DEF CallsMade
<1>7. \A gap, step : gap # At(list, i) /\ Right(list, i, gap, step)
                        => Right(list, i + 1, gap, step)
  BY <1>4, <1>5 DEF Right
<1>8. PICK c : m.calls = <<c>>
  BY <1>2 DEF Orderly
<1>9. ToSet(m.calls) = {c}
  <2>1. PICK one : one = <<c>>
    OBVIOUS
  <2>2. DOMAIN one = {1} /\ one[1] = c
    BY <2>1
  <2>. QED  BY <1>8, <2>1, <2>2 DEF ToSet
<1>10. \A step : step.call = c /\ step.result = m.id
                    => Right(list, i + 1, At(list, i), step)
  BY <1>4, <1>5, <1>8 DEF Right
<1>11. \A step : step.call # c /\ Right(list, i, At(list, i), step)
                    => Right(list, i + 1, At(list, i), step)
  <2>1. \A d : d # c => m.calls # <<d>>
    BY <1>8
  <2>. QED  BY <1>5, <2>1 DEF Right
<1>. QED  BY <1>1, <1>3, <1>4, <1>5, <1>6, <1>7, <1>9, <1>10, <1>11

LEMMA AnswerStepShut ==
    ASSUME NEW list, Orderly(list), NEW i \in 0..Len(list), i < Len(list),
           NEW m, m = list[i + 1], m.role = "tool", NEW f, HasRead(list, i, f), f.open = 0
    PROVE  Placed(list, i + 1, f) /\ Ended(list, i + 1, f) /\ Stepped(list, i + 1, f)
<1>1. Fed(f) /\ Placed(list, i, f) /\ Ended(list, i, f) /\ Stepped(list, i, f)
  BY DEF HasRead
<1>2. /\ list \in Seq(MessageSet) /\ ~Talks(m) /\ At(list, i + 1) = At(list, i)
      /\ CallsTo(list, i + 1) = CallsTo(list, i)
      /\ \A gap : CallsMade(list, i + 1, gap) = CallsMade(list, i, gap)
      /\ \A gap, step : gap # At(list, i) /\ Right(list, i, gap, step)
                           => Right(list, i + 1, gap, step)
  BY AnswerSeen
<1>3. {x \in Said(list) : x <= i + 1} = {x \in Said(list) : x <= i}
  BY <1>2, OneMore
<1>4. Placed(list, i + 1, f)
  BY <1>1, <1>2, <1>3 DEF Placed
<1>5. Ended(list, i + 1, f)
  <2>1. \A j \in Said(list) : j <= i + 1 <=> j <= i
    BY <1>3
  <2>. QED  BY <1>1, <1>2, <2>1 DEF Ended
<1>6. Stepped(list, i + 1, f)
  <2>1. \A k \in GroupsIn(f.items) : k # 0 /\ Where(f.items, k) # At(list, i)
    <3>1. \A k \in GroupsIn(f.items) : k # 0
      <4>1. PICK n : n = Len(f.items)
        OBVIOUS
      <4>2. n \in Nat /\ DOMAIN f.items = 1..n
        BY <1>1, <4>1, FedIs
      <4>. QED  BY <4>2 DEF GroupsIn
    <3>. QED  BY <1>1, <3>1 DEF Placed
  <2>. QED  BY <1>1, <1>2, <2>1 DEF Stepped
<1>. QED  BY <1>4, <1>5, <1>6

LEMMA AnswerStepOpen ==
    ASSUME NEW list, Orderly(list), NEW i \in 0..Len(list), i < Len(list),
           NEW m, m = list[i + 1], m.role = "tool", NEW f, HasRead(list, i, f), f.open # 0,
           NEW g, g = ReadMessage(f, m)
    PROVE  Placed(list, i + 1, g) /\ Ended(list, i + 1, g) /\ Stepped(list, i + 1, g)
<1>0. PICK n : n = Len(f.items)
  OBVIOUS
<1>1. /\ list \in Seq(MessageSet) /\ m \in MessageSet /\ ~Talks(m)
      /\ CallsTo(list, i + 1) = CallsTo(list, i)
      /\ \A gap : CallsMade(list, i + 1, gap) = CallsMade(list, i, gap)
      /\ \A gap, step : gap # At(list, i) /\ Right(list, i, gap, step)
                           => Right(list, i + 1, gap, step)
  BY AnswerSeen
<1>2. PICK c : /\ ToSet(m.calls) = {c}
               /\ \A step : step.call = c /\ step.result = m.id
                               => Right(list, i + 1, At(list, i), step)
               /\ \A step : step.call # c /\ Right(list, i, At(list, i), step)
                               => Right(list, i + 1, At(list, i), step)
  BY AnswerSeen
<1>3. Fed(f) /\ Placed(list, i, f) /\ Stepped(list, i, f)
  BY DEF HasRead
<1>4. Fed(g)
  BY <1>1, <1>3, ReadFed
<1>5. /\ g.open = f.open /\ Len(g.items) = n
      /\ \A k \in 1..n : k # f.open => g.items[k] = f.items[k]
      /\ g.items[f.open].kind = f.items[f.open].kind
      /\ g.items[f.open].closed = f.items[f.open].closed
      /\ g.items[f.open].completed = f.items[f.open].completed
      /\ g.items[f.open].steps = WithResult(f.items[f.open].steps, m)
  BY <1>0, <1>1, <1>3, ResultRead
<1>6. f.open \in GroupsIn(f.items) /\ Where(f.items, f.open) = At(list, i)
      /\ n \in Nat /\ GroupsIn(f.items) \subseteq 1..n
  <2>1. n \in Nat /\ DOMAIN f.items = 1..n
    BY <1>0, <1>3, FedIs
  <2>. QED  BY <1>3, <2>1 DEF Placed, GroupsIn
<1>7. {At(list, j) : j \in CallsTo(list, i + 1)} = {At(list, j) : j \in CallsTo(list, i)}
  BY <1>1
<1>8. /\ Placed(list, i + 1, g) /\ Ended(list, i + 1, g)
      /\ GroupsIn(g.items) = GroupsIn(f.items)
      /\ SamePlaces(g.items, f.items, Len(f.items))
  BY <1>0, <1>1, <1>4, <1>5, <1>7, OpenStays
<1>9. \A k \in GroupsIn(f.items) : Where(g.items, k) = Where(f.items, k)
  BY <1>0, <1>6, <1>8 DEF SamePlaces
<1>10. ASSUME NEW k \in GroupsIn(g.items)
       PROVE  /\ StepList(g.items[k].steps)
              /\ CallsOf(g.items[k].steps) = CallsMade(list, i + 1, Where(g.items, k))
              /\ \A x \in DOMAIN g.items[k].steps :
                    Right(list, i + 1, Where(g.items, k), g.items[k].steps[x])
  <2>1. k \in GroupsIn(f.items) /\ k \in 1..n /\ Where(g.items, k) = Where(f.items, k)
    BY <1>6, <1>8, <1>9
  <2>2. /\ StepList(f.items[k].steps)
        /\ CallsOf(f.items[k].steps) = CallsMade(list, i, Where(f.items, k))
        /\ \A x \in DOMAIN f.items[k].steps :
              Right(list, i, Where(f.items, k), f.items[k].steps[x])
    BY <1>3, <2>1 DEF Stepped
  <2>3. CASE k = f.open
    <3>1. PICK old, new : old = f.items[k].steps /\ new = g.items[k].steps
      OBVIOUS
    <3>2. new = WithResult(old, m) /\ Where(f.items, k) = At(list, i) /\ StepList(old)
      BY <1>5, <1>6, <2>2, <2>3, <3>1
    <3>3. /\ StepList(new) /\ DOMAIN new = DOMAIN old /\ CallsOf(new) = CallsOf(old)
          /\ Given(new, old, m)
      BY <3>2, WithResultIs
    <3>4. \A x \in DOMAIN old : Right(list, i, At(list, i), old[x])
      BY <2>2, <3>1, <3>2
    <3>5. \A x \in DOMAIN new : Right(list, i + 1, At(list, i), new[x])
      BY <1>2, <3>3, <3>4 DEF Given
    <3>. QED  BY <1>1, <2>1, <2>2, <3>1, <3>2, <3>3, <3>5
  <2>4. CASE k # f.open
    <3>1. g.items[k] = f.items[k] /\ Where(f.items, k) # At(list, i)
      BY <1>3, <1>5, <2>1, <2>4 DEF Placed
    <3>. QED  BY <1>1, <2>1, <2>2, <3>1
  <2>. QED  BY <2>3, <2>4
<1>11. Stepped(list, i + 1, g)
  BY <1>10 DEF Stepped
<1>. QED  BY <1>8, <1>11

(* Any message: the pass stays true to what it has read.                     *)
LEMMA ReadStep ==
    ASSUME NEW list, Orderly(list), NEW i \in 0..Len(list), i < Len(list),
           NEW f, HasRead(list, i, f)
    PROVE  HasRead(list, i + 1, ReadMessage(f, list[i + 1]))
<1>1. list \in Seq(MessageSet)
  BY DEF Orderly
<1>2. PICK m, g : m = list[i + 1] /\ g = ReadMessage(f, m)
  OBVIOUS
<1>3. m \in MessageSet
  <2>1. i + 1 \in 1..Len(list)
    BY <1>1, SaidIs
  <2>. QED  BY <1>1, <1>2, <2>1, ElementOfSeq
<1>4. Fed(f)
  BY DEF HasRead
<1>5. Fed(g)
  BY <1>2, <1>3, <1>4, ReadFed
<1>6. Placed(list, i + 1, g) /\ Ended(list, i + 1, g) /\ Stepped(list, i + 1, g)
  <2>1. CASE Talks(m)
    BY <1>1, <1>2, <2>1, TextStep
  <2>2. CASE m.role = "calls" /\ f.open # 0
    BY <1>2, <2>2, CallsStepOpen
  <2>3. CASE m.role = "calls" /\ f.open = 0
    BY <1>2, <2>3, CallsStepShut
  <2>4. CASE m.role = "tool" /\ f.open # 0
    BY <1>2, <2>4, AnswerStepOpen
  <2>5. CASE m.role = "tool" /\ f.open = 0
    <3>1. g = f
      BY <1>2, <1>3, <1>4, <2>5, ResultRead
    <3>. QED  BY <1>2, <2>5, <3>1, AnswerStepShut
  <2>. QED  BY <1>3, <2>1, <2>2, <2>3, <2>4, <2>5 DEF MessageSet, Roles, Talks
<1>. QED  BY <1>2, <1>5, <1>6 DEF HasRead

-----------------------------------------------------------------------------
(* So the feed of an orderly list is what it should be.                      *)

LEMMA BlankReads ==
    ASSUME NEW list, Orderly(list)
    PROVE  HasRead(list, 0, Blank)
<1>1. Blank.items = <<>> /\ Blank.open = 0
  BY DEF Blank
<1>2. PICK n : n = Len(list)
  OBVIOUS
<1>3. list \in Seq(MessageSet)
  BY DEF Orderly
<1>4. n \in Nat /\ DOMAIN list = 1..n /\ At(list, 0) = 0
  BY <1>2, <1>3, SaidIs
<1>5. Fed(Blank)
  BY BlankFed
<1>6. PICK items : items = Blank.items /\ DOMAIN items = {} /\ Len(items) = 0
  BY <1>1
<1>7. GroupsIn(items) = {} /\ TextsIn(items) = {}
  BY <1>6 DEF GroupsIn, TextsIn
<1>8. Where(items, 0) = 0
  <2>1. CountTo({}, 0) = 0
    BY CountIs
  <2>. QED  BY <1>7, <2>1 DEF Where
<1>9. \A j \in DOMAIN list : ~(j <= 0)
  BY <1>4
<1>10. CallsTo(list, 0) = {} /\ {x \in Said(list) : x <= 0} = {}
  BY <1>9 DEF CallsTo, Said
<1>. HIDE DEF Blank
<1>11. Placed(list, 0, Blank)
  BY <1>1, <1>4, <1>6, <1>7, <1>8, <1>10 DEF Placed
<1>12. Ended(list, 0, Blank) /\ Stepped(list, 0, Blank)
  BY <1>6, <1>7 DEF Ended, Stepped
<1>. QED  BY <1>5, <1>11, <1>12 DEF HasRead

LEMMA FeedReads ==
    ASSUME NEW list, Orderly(list)
    PROVE  \E f : HasRead(list, Len(list), f) /\ Feed(list) = f.items
<1>1. list \in Seq(MessageSet)
  BY DEF Orderly
<1>2. PICK n : n = Len(list)
  OBVIOUS
<1>3. n \in Nat /\ DOMAIN list = 1..n
  BY <1>1, <1>2, SaidIs
<1>4. PICK f : /\ f[0] = Blank
               /\ \A k \in 0..n : k < n => f[k + 1] = ReadMessage(f[k], list[k + 1])
               /\ Feed(list) = f[n].items
  BY <1>3, FeedPass
<1>. DEFINE G == {k \in 0..n : HasRead(list, k, f[k])}
<1>5. 0 \in G
  BY <1>3, <1>4, BlankReads
<1>6. ASSUME NEW k \in 0..n, k \in G, k < n PROVE k + 1 \in G
  <2>1. k + 1 \in 0..n /\ k \in 0..Len(list) /\ k < Len(list) /\ HasRead(list, k, f[k])
    BY <1>2, <1>3, <1>6
  <2>2. HasRead(list, k + 1, ReadMessage(f[k], list[k + 1]))
    BY <2>1, ReadStep
  <2>. QED  BY <1>4, <1>6, <2>1, <2>2
<1>7. n \in G
  <2>. HIDE DEF G
  <2>1. \A k \in 0..n : k \in G /\ k < n => k + 1 \in G
    BY <1>6
  <2>2. \A k \in 0..n : k \in G
    BY <1>3, <1>5, <2>1, UpTo
  <2>. QED  BY <1>3, <2>2
<1>. QED  BY <1>2, <1>4, <1>7

LEMMA FeedIsOf ==
    ASSUME NEW list, Orderly(list), NEW feed, feed = Feed(list)
    PROVE  FeedOf(list, feed)
<1>1. PICK n : n = Len(list)
  OBVIOUS
<1>2. PICK f : HasRead(list, n, f) /\ feed = f.items
  BY <1>1, FeedReads
<1>3. Placed(list, n, f) /\ Ended(list, n, f) /\ Stepped(list, n, f)
  BY <1>2 DEF HasRead
<1>4. list \in Seq(MessageSet)
  BY DEF Orderly
<1>5. /\ n \in Nat /\ DOMAIN list = 1..n /\ Said(list) \subseteq 1..n
      /\ At(list, n) = Cardinality(Said(list))
  BY <1>1, <1>4, SaidIs
<1>6. \A j \in DOMAIN list : j <= n
  BY <1>5
<1>. DEFINE calls == {i \in DOMAIN list : list[i].role = "calls"}
            CallsIn(gap) == {j \in DOMAIN list : list[j].role = "calls" /\ At(list, j) = gap}
            AnswersIn(gap, c) == {list[j].id : j \in
                {i \in DOMAIN list : /\ list[i].role = "tool" /\ list[i].calls = <<c>>
                                     /\ At(list, i) = gap}}
<1>7. {x \in Said(list) : x <= n} = Said(list) /\ CallsTo(list, n) = calls
  BY <1>5, <1>6 DEF CallsTo
<1>8. \A gap : UNION {ToSet(list[j].calls) : j \in CallsIn(gap)} = CallsMade(list, n, gap)
  <2>1. \A gap : {x \in CallsTo(list, n) : At(list, x) = gap} = CallsIn(gap)
    BY <1>7
  <2>. QED  BY <2>1 DEF CallsMade
<1>9. \A gap, c : AnswersIn(gap, c) = AnswersTo(list, n, gap, c)
  <2>. TAKE gap, c
  <2>1. {x \in DOMAIN list : /\ x <= n /\ list[x].role = "tool"
                             /\ list[x].calls = <<c>> /\ At(list, x) = gap}
           = {i \in DOMAIN list : /\ list[i].role = "tool" /\ list[i].calls = <<c>>
                                  /\ At(list, i) = gap}
    BY <1>6
  <2>. QED  BY <2>1 DEF AnswersTo
<1>10. /\ {<<Where(feed, k), feed[k]>> : k \in TextsIn(feed)}
            = {<<At(list, j), MessageItem(list[j])>> : j \in Said(list)}
       /\ {Where(feed, k) : k \in GroupsIn(feed)} = {At(list, j) : j \in calls}
  BY <1>2, <1>3, <1>7 DEF Placed
<1>11. ASSUME NEW k \in GroupsIn(feed)
       PROVE  /\ feed[k].kind = "activity"
              /\ \A l \in GroupsIn(feed) : Where(feed, k) = Where(feed, l) => k = l
  BY <1>2, <1>3 DEF Placed
<1>12. ASSUME NEW k \in GroupsIn(feed)
       PROVE  /\ feed[k].closed <=> Where(feed, k) < Cardinality(Said(list))
              /\ feed[k].completed <=>
                    \E j \in Said(list) : /\ At(list, j) = Where(feed, k) + 1
                                          /\ list[j].role = "assistant"
              /\ feed[k].closed \in BOOLEAN /\ feed[k].completed \in BOOLEAN
  <2>1. /\ feed[k].closed <=> Where(feed, k) < Cardinality(Said(list))
        /\ feed[k].completed <=>
              \E j \in Said(list) : /\ j <= n /\ At(list, j) = Where(feed, k) + 1
                                    /\ list[j].role = "assistant"
        /\ feed[k].completed \in BOOLEAN
    BY <1>2, <1>3, <1>5 DEF Ended
  <2>2. \A j \in Said(list) : j <= n
    BY <1>5
  <2>3. feed[k].closed \in BOOLEAN
    <3>1. Fed(f)
      BY <1>2 DEF HasRead
    <3>2. PICK p : p = Len(f.items)
      OBVIOUS
    <3>3. k \in 1..p /\ IsItem(feed[k])
      BY <1>2, <3>1, <3>2, FedIs DEF GroupsIn
    <3>. QED  BY <3>3 DEF IsItem
  <2>. QED  BY <2>1, <2>2, <2>3
<1>13. ASSUME NEW k \in GroupsIn(feed)
       PROVE  /\ {feed[k].steps[i].call : i \in DOMAIN feed[k].steps}
                    = UNION {ToSet(list[j].calls) : j \in CallsIn(Where(feed, k))}
              /\ \A i \in DOMAIN feed[k].steps :
                    feed[k].steps[i].result \in
                        (LET answers == AnswersIn(Where(feed, k), feed[k].steps[i].call)
                         IN IF answers = {} THEN {0} ELSE answers)
  <2>1. /\ CallsOf(feed[k].steps) = CallsMade(list, n, Where(feed, k))
        /\ \A i \in DOMAIN feed[k].steps : Right(list, n, Where(feed, k), feed[k].steps[i])
    BY <1>2, <1>3 DEF Stepped
  <2>2. \A i \in DOMAIN feed[k].steps :
           feed[k].steps[i].result \in
               (LET answers == AnswersTo(list, n, Where(feed, k), feed[k].steps[i].call)
                IN IF answers = {} THEN {0} ELSE answers)
    BY <2>1 DEF Right
  <2>. HIDE DEF AnswersIn, CallsIn
  <2>. QED  BY <1>8, <1>9, <2>1, <2>2 DEF CallsOf
<1>14. /\ {<<Where(feed, k), feed[k]>> : k \in TextsIn(feed)}
             = {<<At(list, j), MessageItem(list[j])>> : j \in Said(list)}
       /\ {Where(feed, k) : k \in GroupsIn(feed)} = {At(list, j) : j \in calls}
       /\ \A k \in GroupsIn(feed) :
            /\ feed[k].kind = "activity"
            /\ \A l \in GroupsIn(feed) : Where(feed, k) = Where(feed, l) => k = l
            /\ {feed[k].steps[i].call : i \in DOMAIN feed[k].steps}
                   = UNION {ToSet(list[j].calls) : j \in CallsIn(Where(feed, k))}
            /\ \A i \in DOMAIN feed[k].steps :
                   feed[k].steps[i].result \in
                       (LET answers == AnswersIn(Where(feed, k), feed[k].steps[i].call)
                        IN IF answers = {} THEN {0} ELSE answers)
            /\ feed[k].closed = (Where(feed, k) < Cardinality(Said(list)))
            /\ feed[k].completed =
                   \E j \in Said(list) : /\ At(list, j) = Where(feed, k) + 1
                                         /\ list[j].role = "assistant"
  <2>. HIDE DEF CallsIn, AnswersIn, calls
  <2>1. ASSUME NEW k \in GroupsIn(feed)
        PROVE  /\ feed[k].closed = (Where(feed, k) < Cardinality(Said(list)))
               /\ feed[k].completed =
                    \E j \in Said(list) : /\ At(list, j) = Where(feed, k) + 1
                                          /\ list[j].role = "assistant"
    <3>. DEFINE ends == \E j \in Said(list) : /\ At(list, j) = Where(feed, k) + 1
                                              /\ list[j].role = "assistant"
                before == Where(feed, k) < Cardinality(Said(list))
    <3>1. /\ feed[k].closed \in BOOLEAN /\ feed[k].completed \in BOOLEAN
          /\ feed[k].closed <=> before
          /\ feed[k].completed <=> ends
      BY <1>12
    <3>2. ends \in BOOLEAN /\ before \in BOOLEAN
      OBVIOUS
    <3>. HIDE DEF ends, before
    <3>3. feed[k].closed = before /\ feed[k].completed = ends
      BY <3>1, <3>2, Zenon
    <3>. QED  BY <3>3 DEF ends, before
  <2>. QED  BY <1>10, <1>11, <1>13, <2>1, Zenon
<1>. QED  BY <1>14, Zenon DEF FeedOf, Said, At, TextsIn, GroupsIn, Where

-----------------------------------------------------------------------------
(* The messages come in such an order, and so do those of each conversation
   they are cut into.                                                      *)
Ordered(list) == Orderly(list) /\ Answered(list) \subseteq Called(list)

(* One message more: what it does to the turn.                               *)
LEMMA TurnOf ==
    ASSUME NEW list \in Seq(MessageSet), NEW m \in MessageSet, NEW n, n = Len(list),
           NEW new, new = Append(list, m)
    PROVE  /\ new \in Seq(MessageSet) /\ n \in Nat /\ n + 1 \notin 1..n
           /\ DOMAIN list = 1..n /\ DOMAIN new = 1..n \cup {n + 1} /\ Len(new) = n + 1
           /\ new[n + 1] = m /\ \A j \in 1..n : new[j] = list[j]
           /\ Talks(m) => Turn(new) = {}
           /\ ~Talks(m) => \A i : i \in Turn(new) <=> i \in Turn(list) \/ i = n + 1
<1>1. n \in Nat /\ DOMAIN list = 1..n
  BY LenProperties
<1>2. /\ new \in Seq(MessageSet) /\ Len(new) = n + 1 /\ new[n + 1] = m
      /\ \A j \in 1..n : new[j] = list[j]
  BY AppendProperties
<1>3. DOMAIN new = 1..n \cup {n + 1} /\ n + 1 \notin 1..n
  <2>1. DOMAIN new = 1..n + 1
    BY <1>2, LenProperties
  <2>. QED  BY <1>1, <2>1
<1>4. ASSUME Talks(m) PROVE Turn(new) = {}
  <2>1. \A i \in DOMAIN new : ~(n + 1 < i)
    BY <1>1, <1>3
  <2>2. n + 1 \in {i \in DOMAIN new : Talks(new[i])}
    BY <1>2, <1>3, <1>4
  <2>. QED  BY <2>1, <2>2 DEF Turn
<1>5. ASSUME ~Talks(m) PROVE \A i : i \in Turn(new) <=> i \in Turn(list) \/ i = n + 1
  <2>. DEFINE spoken == {i \in DOMAIN list : Talks(list[i])}
  <2>1. {i \in DOMAIN new : Talks(new[i])} = spoken
    BY <1>1, <1>2, <1>3, <1>5
  <2>2. \A j \in spoken : j < n + 1
    BY <1>1
  <2>. QED  BY <1>1, <1>3, <2>1, <2>2 DEF Turn
<1>. QED  BY <1>1, <1>2, <1>3, <1>4, <1>5

LEMMA ComesOrdered ==
    ASSUME NEW list, Ordered(list), NEW m \in Continuations(list), NEW new, new = Append(list, m)
    PROVE  Ordered(new)
<1>0. Orderly(list) /\ list \in Seq(MessageSet) /\ Answered(list) \subseteq Called(list)
  BY DEF Ordered, Orderly
<1>1. m \in MessageSet
  BY <1>0, NextIsMessage
<1>2. PICK n : n = Len(list)
  OBVIOUS
<1>3. /\ new \in Seq(MessageSet) /\ n \in Nat /\ n + 1 \notin 1..n
      /\ DOMAIN list = 1..n /\ DOMAIN new = 1..n \cup {n + 1}
      /\ new[n + 1] = m /\ \A j \in 1..n : new[j] = list[j]
      /\ Talks(m) => Turn(new) = {}
      /\ ~Talks(m) => Turn(new) = Turn(list) \cup {n + 1}
  <2>1. list \in Seq(MessageSet) /\ new = Append(list, m)
    BY <1>0
  <2>2. /\ new \in Seq(MessageSet) /\ n \in Nat /\ n + 1 \notin 1..n
        /\ DOMAIN list = 1..n /\ DOMAIN new = 1..n \cup {n + 1}
        /\ new[n + 1] = m
    BY ONLY <1>1, <1>2, <2>1, TurnOf
  <2>3. \A j \in 1..n : new[j] = list[j]
    BY ONLY <1>1, <1>2, <2>1, TurnOf
  <2>4. Talks(m) => Turn(new) = {}
    BY ONLY <1>1, <1>2, <2>1, TurnOf
  <2>5. ~Talks(m) => \A i : i \in Turn(new) <=> i \in Turn(list) \/ i = n + 1
    BY ONLY <1>1, <1>2, <2>1, TurnOf
  <2>6. (\A i : i \in Turn(new) <=> i \in Turn(list) \/ i = n + 1)
           => Turn(new) = Turn(list) \cup {n + 1}
    OBVIOUS
  <2>. QED  BY ONLY <2>2, <2>3, <2>4, <2>5, <2>6
<1>4. /\ m.role = "tool" => \E c \in Called(list) : m.calls = <<c>>
      /\ m.role = "calls" => ToSet(m.calls) \cap Called(list) = {}
  <2>. DEFINE id == Len(list) + 1
  <2>1. \A role, calls : Message(id, role, calls).role = role
                         /\ Message(id, role, calls).calls = calls
    BY DEF Message
  <2>2. \/ m = Message(id, "user", <<>>) \/ m = Message(id, "assistant", <<>>)
        \/ \E c \in Called(list) : m = Message(id, "tool", <<c>>)
        \/ \E calls : m = Message(id, "calls", calls) /\ ToSet(calls) \cap Called(list) = {}
    BY DEF Continuations
  <2>. HIDE DEF id
  <2>3. CASE m = Message(id, "user", <<>>) \/ m = Message(id, "assistant", <<>>)
    <3>1. m.role \in {"user", "assistant"}
      BY <2>1, <2>3
    <3>. QED  BY <3>1
  <2>4. ASSUME NEW c \in Called(list), m = Message(id, "tool", <<c>>)
        PROVE  m.role = "tool" /\ m.calls = <<c>>
    BY <2>1, <2>4
  <2>5. ASSUME NEW calls, m = Message(id, "calls", calls), ToSet(calls) \cap Called(list) = {}
        PROVE  m.role = "calls" /\ ToSet(m.calls) \cap Called(list) = {}
    BY <2>1, <2>5
  <2>. QED  BY <2>2, <2>3, <2>4, <2>5
<1>5. \A j \in DOMAIN new : new[j].role = "tool" => \E c : new[j].calls = <<c>>
  BY <1>0, <1>3, <1>4 DEF Orderly
<1>6. ASSUME NEW i \in DOMAIN new, NEW j \in DOMAIN new, NEW c \in CallIds, i < j,
             new[i].role = "tool", new[i].calls = <<c>>,
             new[j].role = "calls", c \in ToSet(new[j].calls)
      PROVE  \E t \in DOMAIN new : i < t /\ t < j /\ Talks(new[t])
  <2>1. i \in 1..n
    <3>1. i # n + 1
      BY <1>3, <1>6
    <3>. QED  BY <1>3, <3>1
  <2>2. list[i].role = "tool" /\ list[i].calls = <<c>>
    BY <1>3, <1>6, <2>1
  <2>3. CASE j \in 1..n
    <3>1. \E t \in DOMAIN list : i < t /\ t < j /\ Talks(list[t])
      BY <1>0, <1>3, <1>6, <2>1, <2>2, <2>3 DEF Orderly
    <3>. QED  BY <1>3, <3>1
  <2>4. CASE j = n + 1
    <3>1. SUFFICES ASSUME ~\E t \in DOMAIN new : i < t /\ t < j /\ Talks(new[t])
                   PROVE  FALSE
      OBVIOUS
    <3>2. \A t \in 1..n : i < t => ~Talks(list[t])
      <4>1. \A t \in 1..n : t < n + 1
        BY <1>3
      <4>. QED  BY <1>3, <2>4, <3>1, <4>1
    <3>3. ~Talks(list[i])
      BY <2>2 DEF Talks
    <3>4. i \in Turn(list)
      <4>1. \A t \in 1..n : t < i \/ t = i \/ i < t
        BY <1>3, <2>1
      <4>. QED  BY <1>3, <2>1, <3>2, <3>3, <4>1 DEF Turn
    <3>5. c \in ToSet(list[i].calls)
      <4>1. PICK one : one = <<c>>
        OBVIOUS
      <4>2. 1 \in DOMAIN one /\ one[1] = c
        BY <4>1
      <4>. QED  BY <2>2, <4>1, <4>2 DEF ToSet
    <3>6. c \in Called(list)
      BY <1>0, <2>2, <3>4, <3>5 DEF Answered
    <3>. QED  BY <1>3, <1>4, <1>6, <2>4, <3>6
  <2>. QED  BY <1>3, <2>3, <2>4
<1>7. Orderly(new)
  BY <1>3, <1>5, <1>6 DEF Orderly
<1>8. Answered(new) \subseteq Called(new)
  <2>1. CASE Talks(m)
    BY <1>3, <2>1 DEF Answered
  <2>2. CASE ~Talks(m)
    <3>1. Turn(list) \subseteq 1..n
      BY <1>3 DEF Turn
    <3>2. \A i \in Turn(list) : new[i] = list[i]
      BY <1>3, <3>1
    <3>3. Turn(new) = Turn(list) \cup {n + 1}
      BY <1>3, <2>2
    <3>4. Called(list) \subseteq Called(new)
      <4>1. ASSUME NEW c \in Called(list) PROVE c \in Called(new)
        <5>1. PICK i \in Turn(list) : list[i].role = "calls" /\ c \in ToSet(list[i].calls)
          BY <4>1 DEF Called
        <5>2. i \in Turn(new) /\ new[i].role = "calls" /\ c \in ToSet(new[i].calls)
          BY <3>2, <3>3, <5>1
        <5>. QED  BY <5>2 DEF Called
      <4>. QED  BY <4>1
    <3>5. ASSUME NEW i \in Turn(new), new[i].role = "tool"
          PROVE  ToSet(new[i].calls) \subseteq Called(list)
      <4>1. CASE i \in Turn(list)
        <5>1. ToSet(list[i].calls) \subseteq Answered(list)
          BY <3>2, <3>5, <4>1 DEF Answered
        <5>. QED  BY <1>0, <3>2, <4>1, <5>1
      <4>2. CASE i = n + 1
        <5>1. PICK c \in Called(list) : m.calls = <<c>>
          BY <1>3, <1>4, <3>5, <4>2
        <5>2. PICK one : one = <<c>>
          OBVIOUS
        <5>3. DOMAIN one = {1} /\ one[1] = c
          BY <5>2
        <5>. QED  BY <1>3, <4>2, <5>1, <5>2, <5>3 DEF ToSet
      <4>. QED  BY <3>3, <4>1, <4>2
    <3>6. Answered(new) \subseteq Called(list)
      BY <3>5 DEF Answered
    <3>. QED  BY <3>4, <3>6
  <2>. QED  BY <2>1, <2>2
<1>. QED  BY <1>7, <1>8 DEF Ordered

(* A stretch of an orderly list is orderly.                                  *)
LEMMA CutOrderly ==
    ASSUME NEW list, Orderly(list), NEW b \in 0..Len(list), NEW a \in 0..b,
           NEW cut, cut = SubSeq(list, a + 1, b)
    PROVE  Orderly(cut)
<1>1. list \in Seq(MessageSet)
  BY DEF Orderly
<1>2. PICK n : n = Len(list)
  OBVIOUS
<1>3. n \in Nat /\ DOMAIN list = 1..n /\ a \in Nat /\ b \in Nat /\ b <= n /\ a <= b
  BY <1>1, <1>2, LenProperties
<1>4. PICK p : p = b - a
  OBVIOUS
<1>5. /\ cut \in Seq(MessageSet) /\ p \in Nat /\ DOMAIN cut = 1..p
      /\ \A j \in 1..p : cut[j] = list[a + j]
  <2>1. p \in Nat
    BY <1>3, <1>4
  <2>2. /\ cut \in Seq(MessageSet) /\ Len(cut) = p
        /\ \A j \in 1..p : cut[j] = list[a + j]
    <3>1. \A j \in a + 1..b : list[j] \in MessageSet
      BY <1>1, <1>2, <1>3, ElementOfSeq
    <3>2. /\ cut \in Seq(MessageSet)
          /\ Len(cut) = IF a + 1 <= b THEN b - (a + 1) + 1 ELSE 0
          /\ \A j \in 1..b - (a + 1) + 1 : cut[j] = list[(a + 1) + j - 1]
      BY <1>1, <1>3, <3>1, SubSeqProperties
    <3>3. Len(cut) = p /\ b - (a + 1) + 1 = p
      BY <1>3, <1>4, <3>2
    <3>4. \A j \in 1..p : (a + 1) + j - 1 = a + j
      BY <1>3, <2>1
    <3>. QED  BY <3>2, <3>3, <3>4
  <2>. QED  BY <2>1, <2>2, LenProperties
<1>6. \A j \in 1..p : a + j \in DOMAIN list
  BY <1>3, <1>4
<1>7. \A j \in DOMAIN cut : cut[j].role = "tool" => \E c : cut[j].calls = <<c>>
  BY <1>5, <1>6 DEF Orderly
<1>8. ASSUME NEW i \in DOMAIN cut, NEW j \in DOMAIN cut, NEW c \in CallIds, i < j,
             cut[i].role = "tool", cut[i].calls = <<c>>,
             cut[j].role = "calls", c \in ToSet(cut[j].calls)
      PROVE  \E t \in DOMAIN cut : i < t /\ t < j /\ Talks(cut[t])
  <2>1. i \in 1..p /\ j \in 1..p /\ a + i < a + j
    BY <1>3, <1>5, <1>8
  <2>2. PICK t \in DOMAIN list : a + i < t /\ t < a + j /\ Talks(list[t])
    BY <1>5, <1>6, <1>8, <2>1 DEF Orderly
  <2>3. t - a \in 1..p /\ i < t - a /\ t - a < j /\ a + (t - a) = t
    BY <1>3, <1>5, <2>1, <2>2
  <2>. QED  BY <1>5, <2>2, <2>3
<1>. QED  BY <1>5, <1>7, <1>8 DEF Orderly

(* What is shown is such a stretch: the current conversation or a past one.  *)
LEMMA ShownOrderly ==
    ASSUME ChatInv, Orderly(messages)
    PROVE  Orderly(Displayed)
<1>1. /\ start \in 0..Len(messages) /\ Len(messages) \in Nat /\ Len(history) \in Nat
      /\ DOMAIN history = 1..Len(history)
  BY LenProperties DEF ChatInv, ChatTypeOK
<1>2. CASE viewing = 0
  <2>1. Displayed = SubSeq(messages, start + 1, Len(messages))
    BY <1>2 DEF Displayed, ActiveMessages
  <2>2. Len(messages) \in 0..Len(messages)
    BY <1>1
  <2>. QED  BY <1>1, <2>1, <2>2, CutOrderly
<1>3. CASE viewing # 0
  <2>1. \E i \in DOMAIN history : history[i].id = viewing
    BY <1>3 DEF ChatInv, ChatTypeOK
  <2>2. PICK k \in DOMAIN history : Displayed = history[k].messages
    BY <1>3, <2>1 DEF Displayed, Entry
  <2>3. PICK c : Cuts(c)
    BY DEF ChatInv
  <2>4. k \in 1..Len(history) /\ k \in 0..Len(history) /\ k - 1 \in 0..Len(history)
    BY <1>1
  <2>5. /\ c[k] \in 0..Len(messages) /\ c[k - 1] \in 0..Len(messages) /\ c[k] <= c[k - 1]
        /\ Displayed = SubSeq(messages, c[k] + 1, c[k - 1])
    BY <2>2, <2>3, <2>4 DEF Cuts
  <2>6. c[k] \in 0..c[k - 1]
    BY <1>1, <2>5
  <2>. QED  BY <2>5, <2>6, CutOrderly
<1>. QED  BY <1>2, <1>3

LEMMA EmptyOrdered == Ordered(<<>>)
<1>1. PICK none : none = <<>>
  OBVIOUS
<1>2. DOMAIN none = {} /\ none \in Seq(MessageSet)
  BY <1>1, EmptySeq
<1>3. Orderly(none)
  BY <1>2 DEF Orderly
<1>4. Answered(none) = {}
  BY <1>2 DEF Answered, Turn
<1>. QED  BY <1>1, <1>3, <1>4 DEF Ordered

(* The messages of the pane stay, go all at once, or grow by one.            *)
LEMMA ChatMessages ==
    ASSUME ChatNext \/ SubmitTask \/ ChatUnmounted \/ UNCHANGED chatVars
    PROVE  \/ messages' = messages \/ messages' = <<>>
           \/ \E m \in Continuations(messages) : messages' = Append(messages, m)
<1>1. CASE MessageArrives
  BY <1>1 DEF MessageArrives
<1>2. CASE SessionsChange
  BY <1>2 DEF SessionsChange
<1>3. CASE ChatUnmounted
  BY <1>3 DEF ChatUnmounted
<1>4. CASE UNCHANGED chatVars
  BY <1>4 DEF chatVars
<1>5. CASE SubmitTask \/ TypeMessage \/ SubmitMessage \/ SendAnswered \/ ToggleTaskMode
           \/ ToggleTray \/ StartFresh \/ Compact \/ CompactTimer \/ ViewHistory
           \/ ReturnToCurrent
  BY <1>5 DEF SubmitTask, TypeMessage, SubmitMessage, SendAnswered, ToggleTaskMode, ToggleTray,
              StartFresh, Compact, CompactTimer, ViewHistory, ReturnToCurrent, given
<1>. QED  BY <1>1, <1>2, <1>3, <1>4, <1>5 DEF ChatNext

LEMMA MessagesGo ==
    ASSUME [WebNext]_webVars
    PROVE  \/ messages' = messages \/ messages' = <<>>
           \/ \E m \in Continuations(messages) : messages' = Append(messages, m)
<1>1. ChatNext \/ SubmitTask \/ ChatUnmounted \/ UNCHANGED chatVars
  <2>1. ASSUME LeaveConversation PROVE ChatUnmounted \/ UNCHANGED chatVars
    BY <2>1 DEF LeaveConversation
  <2>2. ASSUME NEW w, OverviewOf(w) PROVE ChatUnmounted \/ UNCHANGED chatVars
    BY <2>1, <2>2 DEF OverviewOf
  <2>3. CASE UNCHANGED webVars
    BY <2>3 DEF webVars
  <2>4. CASE ConversationStep
    BY <2>4 DEF ConversationStep, CreateTaskFromChat
  <2>5. CASE OverviewStep \/ FormStep \/ RequestFails
    BY <2>5 DEF OverviewStep, FormStep, RequestFails
  <2>6. CASE OpenForm
    BY <2>1, <2>6 DEF OpenForm
  <2>7. ASSUME NEW w \in Workspaces,
               OpenConversation(w) \/ OpenOverview(w) \/ FormSucceeds(w)
        PROVE  ChatUnmounted \/ UNCHANGED chatVars
    BY <2>2, <2>7 DEF OpenConversation, OpenOverview, FormSucceeds
  <2>. QED  BY <2>3, <2>4, <2>5, <2>6, <2>7 DEF WebNext
<1>. QED  BY <1>1, ChatMessages

-----------------------------------------------------------------------------
(* The tasks.                                                              *)

(* The tasks that are kept, task by task.                                   *)
KeepIs(it, id, list, n) ==
    it = [s \in SUBSET (1..n) |-> IF s = {} THEN <<>>
                                  ELSE Kept(it[s \ {Max(s)}], list[Max(s)], id)]
LEMMA KeepFoldIs ==
    ASSUME NEW list, NEW id, NEW n \in Nat
    PROVE  \E it : KeepIs(it, id, list, n)
<1>. DEFINE Is(k, it) == KeepIs(it, id, list, k)
            G == {k \in Nat : \E it : Is(k, it)}
<1>. USE DEF KeepIs
<1>1. 0 \in G
  <2>. DEFINE it == [s \in SUBSET (1..0) |-> <<>>]
  <2>1. \A s \in SUBSET (1..0) : s = {}
    OBVIOUS
  <2>2. Is(0, it)
    BY <2>1
  <2>. QED  BY <2>2
<1>2. ASSUME NEW k \in Nat, k \in G PROVE k + 1 \in G
  <2>1. PICK it : Is(k, it)
    BY <1>2
  <2>. DEFINE on == [s \in SUBSET (1..k + 1) |->
                       IF k + 1 \in s THEN Kept(it[s \ {k + 1}], list[k + 1], id) ELSE it[s]]
  <2>2. ASSUME NEW s \in SUBSET (1..k + 1)
        PROVE  on[s] = IF s = {} THEN <<>>
                       ELSE Kept(on[s \ {Max(s)}], list[Max(s)], id)
    <3>1. CASE k + 1 \in s
      <4>1. Max(s) = k + 1
        BY <3>1, GreatestIs
      <4>2. on[s \ {k + 1}] = it[s \ {k + 1}]
        OBVIOUS
      <4>3. on[s] = Kept(it[s \ {k + 1}], list[k + 1], id)
        BY <3>1
      <4>. QED  BY <3>1, <4>1, <4>2, <4>3
    <3>2. CASE k + 1 \notin s
      <4>1. s \in SUBSET (1..k) /\ s \ {Max(s)} \in SUBSET (1..k)
        <5>1. \A y \in s : y \in 1..k
          BY <3>2
        <5>. QED  BY <5>1
      <4>2. on[s] = it[s] /\ on[s \ {Max(s)}] = it[s \ {Max(s)}]
        BY <3>2
      <4>3. it[s] = IF s = {} THEN <<>>
                    ELSE Kept(it[s \ {Max(s)}], list[Max(s)], id)
        BY <2>1, <4>1
      <4>. QED  BY <4>2, <4>3
    <3>. QED  BY <3>1, <3>2
  <2>3. Is(k + 1, on)
    BY <2>2
  <2>. HIDE DEF Is, on
  <2>4. \E x : Is(k + 1, x)
    BY <2>3
  <2>. QED  BY <2>4
<1>. HIDE DEF G
<1>3. n \in G
  BY <1>1, <1>2, UpTo
<1>. QED  BY <1>3 DEF G

LEMMA WithoutPass ==
    ASSUME NEW list, NEW id, NEW n \in Nat, DOMAIN list = 1..n
    PROVE  \E f : /\ f[0] = <<>>
                  /\ \A k \in 0..n : k < n => f[k + 1] = Kept(f[k], list[k + 1], id)
                  /\ Without(list, id) = f[n]
<1>. DEFINE it == CHOOSE x : KeepIs(x, id, list, n)
            f == [k \in 0..n |-> it[1..k]]
<1>1. KeepIs(it, id, list, n)
  BY KeepFoldIs
<1>2. Without(list, id) = it[1..n]
  BY DEF Without, FoldLeft, MapThenFoldSet, KeepIs
<1>. HIDE DEF it
<1>3. f[0] = <<>>
  <2>1. 1..0 = {}
    OBVIOUS
  <2>. QED  BY <1>1, <2>1 DEF KeepIs
<1>4. ASSUME NEW k \in 0..n, k < n PROVE f[k + 1] = Kept(f[k], list[k + 1], id)
  <2>. DEFINE s == 1..k + 1
  <2>1. k \in Nat /\ k + 1 \in 0..n /\ s \in SUBSET (1..n) /\ k + 1 \in s
    BY <1>4
  <2>2. s \ {k + 1} = 1..k
    BY <2>1
  <2>3. Max(s) = k + 1
    BY <2>1, GreatestIs
  <2>4. f[k + 1] = it[s] /\ f[k] = it[1..k]
    BY <2>1
  <2>. HIDE DEF s, f
  <2>5. it[s] = Kept(it[s \ {Max(s)}], list[Max(s)], id)
    BY <1>1, <2>1 DEF KeepIs
  <2>. QED  BY <2>2, <2>3, <2>4, <2>5
<1>5. Without(list, id) = f[n]
  BY <1>2
<1>. HIDE DEF f
<1>. QED  BY <1>3, <1>4, <1>5

TaskSet  == [id : Nat, text : Texts]
Ids(list) == {list[i].id : i \in DOMAIN list}
Apart(list) == \A i, j \in DOMAIN list : list[i].id = list[j].id => i = j

(* The tasks of a workspace are those created in it and not deleted there,
   each once; the one in the editor has been created, or is new.            *)
TasksInv ==
    /\ tasks \in [Workspaces -> Seq(TaskSet)]
    /\ homes \in Seq(Workspaces) /\ gone \subseteq DOMAIN homes
    /\ editing \in {NoTask, NewTask} \/ \E t \in TaskSet : editing = {t} /\ t.id \in DOMAIN homes
    /\ \A w \in Workspaces :
          /\ Apart(tasks[w])
          /\ Ids(tasks[w]) = {id \in DOMAIN homes : homes[id] = w} \ gone

LEMMA PutOK ==
    ASSUME TasksInv
    PROVE  TasksStayPut
<1>. SUFFICES ASSUME NEW w \in Workspaces
              PROVE  LET ids == [i \in DOMAIN tasks[w] |-> tasks[w][i].id]
                     IN /\ IsInjective(ids)
                        /\ ToSet(ids) = {id \in DOMAIN homes : homes[id] = w} \ gone
  BY DEF TasksStayPut
<1>. DEFINE ids == [i \in DOMAIN tasks[w] |-> tasks[w][i].id]
<1>1. Apart(tasks[w]) /\ Ids(tasks[w]) = {id \in DOMAIN homes : homes[id] = w} \ gone
  BY DEF TasksInv
<1>2. IsInjective(ids)
  BY <1>1 DEF IsInjective, Apart
<1>3. ToSet(ids) = Ids(tasks[w])
  BY DEF ToSet, Ids
<1>. QED  BY <1>1, <1>2, <1>3

LEMMA TasksTyped ==
    ASSUME TasksInv
    PROVE  TasksTypeOK
<1>1. \A w \in Workspaces : \A i \in DOMAIN tasks[w] : tasks[w][i].text \in Texts
  <2>. TAKE w \in Workspaces
  <2>. TAKE i \in DOMAIN tasks[w]
  <2>1. tasks[w] \in Seq(TaskSet)
    BY DEF TasksInv
  <2>2. tasks[w][i] \in TaskSet
    BY <2>1, LenProperties, ElementOfSeq
  <2>. QED  BY <2>2 DEF TaskSet
<1>2. editing = {} \/ \E t : editing = {t}
  BY DEF TasksInv, NoTask, NewTask
<1>3. Cardinality({}) = 0 /\ \A t : Cardinality({t}) = 1
  BY FS_EmptySet, FS_Singleton
<1>4. Cardinality(editing) <= 1
  <2>1. CASE editing = {}
    BY <1>3, <2>1
  <2>2. ASSUME NEW t, editing = {t} PROVE Cardinality(editing) <= 1
    <3>1. Cardinality({t}) = 1
      BY <1>3
    <3>. QED  BY <2>2, <3>1
  <2>. QED  BY <1>2, <2>1, <2>2
<1>. QED  BY <1>1, <1>4 DEF TasksInv, TasksTypeOK

(* A task added at the end, one written anew, and one left out.             *)
LEMMA AddedTask ==
    ASSUME NEW list \in Seq(TaskSet), Apart(list), NEW task \in TaskSet, task.id \notin Ids(list)
    PROVE  /\ Append(list, task) \in Seq(TaskSet) /\ Apart(Append(list, task))
           /\ Ids(Append(list, task)) = Ids(list) \cup {task.id}
<1>. DEFINE more == Append(list, task)
            n == Len(list)
<1>1. /\ n \in Nat /\ DOMAIN list = 1..n
      /\ more \in Seq(TaskSet) /\ Len(more) = n + 1 /\ more[n + 1] = task
      /\ \A i \in 1..n : more[i] = list[i]
  BY LenProperties, AppendProperties
<1>2. DOMAIN more = 1..n + 1
  BY <1>1, LenProperties
<1>. HIDE DEF more, n
<1>3. \A i \in DOMAIN more : \/ i \in 1..n /\ more[i] = list[i]
                             \/ i = n + 1 /\ more[i] = task
  BY <1>1, <1>2
<1>4. \A i \in 1..n : list[i].id \in Ids(list) /\ list[i].id # task.id
  BY <1>1 DEF Ids
<1>5. Apart(more)
  <2>. SUFFICES ASSUME NEW i \in DOMAIN more, NEW j \in DOMAIN more, more[i].id = more[j].id
                PROVE  i = j
    BY DEF Apart
  <2>1. \A k, l \in 1..n : list[k].id = list[l].id => k = l
    BY <1>1 DEF Apart
  <2>. QED  BY <1>3, <1>4, <2>1
<1>6. Ids(more) \subseteq Ids(list) \cup {task.id}
  BY <1>3, <1>4 DEF Ids
<1>7. Ids(list) \subseteq Ids(more) /\ task.id \in Ids(more)
  <2>1. 1..n \subseteq DOMAIN more /\ n + 1 \in DOMAIN more
    BY <1>1, <1>2
  <2>. QED  BY <1>1, <2>1 DEF Ids
<1>. QED  BY <1>1, <1>5, <1>6, <1>7 DEF more

LEMMA WrittenTask ==
    ASSUME NEW list \in Seq(TaskSet), Apart(list), NEW task \in TaskSet
    PROVE  LET new == [i \in DOMAIN list |-> IF list[i].id = task.id THEN task ELSE list[i]]
           IN new \in Seq(TaskSet) /\ Apart(new) /\ Ids(new) = Ids(list)
<1>. DEFINE new == [i \in DOMAIN list |-> IF list[i].id = task.id THEN task ELSE list[i]]
            n == Len(list)
<1>1. n \in Nat /\ DOMAIN list = 1..n /\ \A i \in 1..n : list[i] \in TaskSet
  BY LenProperties, ElementOfSeq
<1>2. new \in [1..n -> TaskSet]
  BY <1>1
<1>3. new \in Seq(TaskSet)
  BY <1>1, <1>2
<1>4. DOMAIN new = DOMAIN list /\ \A i \in DOMAIN list : new[i].id = list[i].id
  OBVIOUS
<1>. HIDE DEF new
<1>5. Apart(new) /\ Ids(new) = Ids(list)
  BY <1>4 DEF Apart, Ids
<1>. QED  BY <1>3, <1>5 DEF new

LEMMA WithoutIs ==
    ASSUME NEW list \in Seq(TaskSet), Apart(list), NEW id
    PROVE  /\ Without(list, id) \in Seq(TaskSet) /\ Apart(Without(list, id))
           /\ Ids(Without(list, id)) = Ids(list) \ {id}
<1>. DEFINE n == Len(list)
<1>1. n \in Nat /\ DOMAIN list = 1..n /\ \A k \in 1..n : list[k] \in TaskSet
  BY LenProperties, ElementOfSeq
<1>. HIDE DEF n
<1>2. PICK f : /\ f[0] = <<>>
               /\ \A k \in 0..n : k < n => f[k + 1] = Kept(f[k], list[k + 1], id)
               /\ Without(list, id) = f[n]
  <2>1. n \in Nat /\ DOMAIN list = 1..n
    BY <1>1
  <2>2. \E f : /\ f[0] = <<>>
               /\ \A k \in 0..n : k < n => f[k + 1] = Kept(f[k], list[k + 1], id)
               /\ Without(list, id) = f[n]
    BY ONLY <2>1, WithoutPass
  <2>. QED  BY ONLY <2>2
<1>. DEFINE First(k) == {list[i].id : i \in 1..k}
            G == {k \in 0..n : /\ f[k] \in Seq(TaskSet) /\ Apart(f[k])
                               /\ Ids(f[k]) = First(k) \ {id}}
<1>3. 0 \in G
  <2>1. <<>> \in Seq(TaskSet) /\ DOMAIN <<>> = {} /\ 1..0 = {}
    BY EmptySeq
  <2>2. Apart(<<>>) /\ Ids(<<>>) = First(0) \ {id}
    BY <2>1 DEF Apart, Ids
  <2>3. f[0] \in Seq(TaskSet) /\ Apart(f[0]) /\ Ids(f[0]) = First(0) \ {id}
    BY <1>2, <2>1, <2>2
  <2>. HIDE DEF First
  <2>. QED  BY <1>1, <2>3
<1>4. \A k \in 0..n : k \in G /\ k < n => k + 1 \in G
  <2>. TAKE k \in 0..n
  <2>. HAVE k \in G /\ k < n
  <2>1. /\ k + 1 \in 1..n /\ k + 1 \in 0..n /\ list[k + 1] \in TaskSet
        /\ f[k + 1] = Kept(f[k], list[k + 1], id)
        /\ f[k] \in Seq(TaskSet) /\ Apart(f[k]) /\ Ids(f[k]) = First(k) \ {id}
    BY <1>1, <1>2
  <2>2. 1..k + 1 = 1..k \cup {k + 1}
    BY <1>1
  <2>3. First(k + 1) = First(k) \cup {list[k + 1].id}
    BY <2>2
  <2>4. list[k + 1].id \notin First(k)
    <3>1. \A i \in 1..k : i \in DOMAIN list /\ i # k + 1
      BY <1>1
    <3>. QED  BY <1>1, <2>1, <3>1 DEF Apart
  <2>. HIDE DEF First
  <2>5. CASE list[k + 1].id = id
    <3>1. f[k + 1] = f[k]
      BY <2>1, <2>5 DEF Kept
    <3>2. First(k + 1) \ {id} = First(k) \ {id}
      BY <2>3, <2>5
    <3>. QED  BY <2>1, <3>1, <3>2
  <2>6. CASE list[k + 1].id # id
    <3>1. f[k + 1] = Append(f[k], list[k + 1])
      BY <2>1, <2>6 DEF Kept
    <3>2. list[k + 1].id \notin Ids(f[k])
      BY <2>1, <2>4
    <3>3. /\ f[k + 1] \in Seq(TaskSet) /\ Apart(f[k + 1])
          /\ Ids(f[k + 1]) = Ids(f[k]) \cup {list[k + 1].id}
      BY <2>1, <3>1, <3>2, AddedTask
    <3>4. Ids(f[k + 1]) = First(k + 1) \ {id}
      BY <2>1, <2>3, <2>6, <3>3
    <3>. QED  BY <2>1, <3>3, <3>4
  <2>. QED  BY <2>5, <2>6
<1>5. n \in G
  <2>. HIDE DEF G
  <2>. QED  BY <1>1, <1>3, <1>4, UpTo
<1>6. First(n) = Ids(list)
  BY <1>1 DEF Ids
<1>. QED  BY <1>2, <1>5, <1>6

(* The steps of the tasks.  Elsewhere nothing changes.                      *)
LEMMA TasksStay ==
    ASSUME TasksInv, UNCHANGED <<tasks, homes, gone>>,
           editing' = editing \/ editing' \in {NoTask, NewTask}
    PROVE  TasksInv'
<1>1. editing' \in {NoTask, NewTask} \/
      \E t \in TaskSet : editing' = {t} /\ t.id \in DOMAIN homes
  BY DEF TasksInv
<1>. QED  BY <1>1 DEF TasksInv

LEMMA TasksInitInv == TasksInit => TasksInv
<1>. SUFFICES ASSUME TasksInit PROVE TasksInv
  OBVIOUS
<1>1. <<>> \in Seq(TaskSet) /\ <<>> \in Seq(Workspaces) /\ DOMAIN <<>> = {}
  BY EmptySeq
<1>2. Apart(<<>>) /\ Ids(<<>>) = {}
  BY <1>1 DEF Apart, Ids
<1>3. tasks = [w \in Workspaces |-> <<>>] /\ editing = NoTask /\ homes = <<>> /\ gone = {}
  BY DEF TasksInit
<1>4. tasks \in [Workspaces -> Seq(TaskSet)] /\ \A w \in Workspaces : tasks[w] = <<>>
  BY <1>1, <1>3
<1>5. ASSUME NEW w \in Workspaces
      PROVE  /\ Apart(tasks[w])
             /\ Ids(tasks[w]) = {id \in DOMAIN homes : homes[id] = w} \ gone
  <2>1. {id \in DOMAIN homes : homes[id] = w} = {}
    BY <1>1, <1>3
  <2>. QED  BY <1>2, <1>3, <1>4, <2>1
<1>. QED  BY <1>1, <1>3, <1>4, <1>5 DEF TasksInv

(* A new task is of the workspace it is created in.                         *)
LEMMA CreateKeeps ==
    ASSUME TasksInv, NEW w \in Workspaces, NEW text \in Texts, CreateTask(w, text),
           editing' \in {NoTask, NewTask} \/ editing' = editing
    PROVE  TasksInv'
<1>. DEFINE n == Len(homes)
            task == Task(n + 1, text)
<1>1. /\ homes \in Seq(Workspaces) /\ n \in Nat /\ DOMAIN homes = 1..n
      /\ tasks \in [Workspaces -> Seq(TaskSet)] /\ gone \subseteq DOMAIN homes
  BY LenProperties DEF TasksInv
<1>2. /\ homes' \in Seq(Workspaces) /\ DOMAIN homes' = 1..n + 1 /\ homes'[n + 1] = w
      /\ \A id \in 1..n : homes'[id] = homes[id]
  <2>1. homes' = Append(homes, w)
    BY DEF CreateTask
  <2>. QED  BY <1>1, <2>1, AppendProperties, LenProperties
<1>3. task \in TaskSet /\ task.id = n + 1
  BY <1>1 DEF Task, TaskSet
<1>4. tasks' = [tasks EXCEPT ![w] = Append(@, task)] /\ gone' = gone
  BY DEF CreateTask
<1>. HIDE DEF task, n
<1>5. n + 1 \notin DOMAIN homes /\ 1..n + 1 = 1..n \cup {n + 1}
  BY <1>1
<1>6. /\ tasks[w] \in Seq(TaskSet) /\ Apart(tasks[w])
      /\ Ids(tasks[w]) = {id \in DOMAIN homes : homes[id] = w} \ gone
  BY DEF TasksInv
<1>7. task.id \notin Ids(tasks[w])
  BY <1>3, <1>5, <1>6
<1>8. /\ Append(tasks[w], task) \in Seq(TaskSet) /\ Apart(Append(tasks[w], task))
      /\ Ids(Append(tasks[w], task)) = Ids(tasks[w]) \cup {n + 1}
  BY <1>3, <1>6, <1>7, AddedTask
<1>9. /\ tasks' \in [Workspaces -> Seq(TaskSet)] /\ tasks'[w] = Append(tasks[w], task)
      /\ \A v \in Workspaces : v # w => tasks'[v] = tasks[v]
  BY <1>1, <1>4, <1>8
<1>10. ASSUME NEW v \in Workspaces
       PROVE  /\ Apart(tasks'[v])
              /\ Ids(tasks'[v]) = {id \in DOMAIN homes' : homes'[id] = v} \ gone'
  <2>1. Apart(tasks[v]) /\ Ids(tasks[v]) = {id \in DOMAIN homes : homes[id] = v} \ gone
    BY DEF TasksInv
  <2>2. n + 1 \notin gone
    BY <1>1, <1>5
  <2>3. CASE v = w
    <3>1. {id \in DOMAIN homes' : homes'[id] = v} =
             {id \in DOMAIN homes : homes[id] = v} \cup {n + 1}
      BY <1>1, <1>2, <1>5, <2>3
    <3>. QED  BY <1>4, <1>8, <1>9, <2>1, <2>2, <2>3, <3>1
  <2>4. CASE v # w
    <3>1. {id \in DOMAIN homes' : homes'[id] = v} = {id \in DOMAIN homes : homes[id] = v}
      BY <1>1, <1>2, <1>5, <2>4
    <3>. QED  BY <1>4, <1>9, <2>1, <2>4, <3>1
  <2>. QED  BY <2>3, <2>4
<1>11. DOMAIN homes \subseteq DOMAIN homes'
  BY <1>1, <1>2, <1>5
<1>12. editing' \in {NoTask, NewTask} \/
       \E t \in TaskSet : editing' = {t} /\ t.id \in DOMAIN homes'
  <2>1. CASE editing' \in {NoTask, NewTask}
    BY <2>1
  <2>2. CASE editing' = editing
    BY <1>11, <2>2 DEF TasksInv
  <2>. QED  BY <2>1, <2>2
<1>13. gone' \subseteq DOMAIN homes'
  BY <1>1, <1>4, <1>11
<1>. QED  BY <1>2, <1>9, <1>10, <1>12, <1>13 DEF TasksInv

(* What is saved changes no task's place.                                   *)
LEMMA UpdateKeeps ==
    ASSUME TasksInv, NEW w \in Workspaces, NEW task \in TaskSet, UpdateTask(w, task),
           UNCHANGED <<homes, gone>>, editing' = NoTask
    PROVE  TasksInv'
<1>. DEFINE new == [i \in DOMAIN tasks[w] |->
                      IF tasks[w][i].id = task.id THEN task ELSE tasks[w][i]]
<1>1. tasks \in [Workspaces -> Seq(TaskSet)] /\ tasks[w] \in Seq(TaskSet) /\ Apart(tasks[w])
  BY DEF TasksInv
<1>2. tasks' = [tasks EXCEPT ![w] = new]
  BY DEF UpdateTask
<1>3. new \in Seq(TaskSet) /\ Apart(new) /\ Ids(new) = Ids(tasks[w])
  BY <1>1, WrittenTask
<1>. HIDE DEF new
<1>4. /\ tasks' \in [Workspaces -> Seq(TaskSet)] /\ tasks'[w] = new
      /\ \A v \in Workspaces : v # w => tasks'[v] = tasks[v]
  BY <1>1, <1>2, <1>3
<1>5. ASSUME NEW v \in Workspaces
      PROVE  Apart(tasks'[v]) /\ Ids(tasks'[v]) = {id \in DOMAIN homes : homes[id] = v} \ gone
  <2>1. Apart(tasks[v]) /\ Ids(tasks[v]) = {id \in DOMAIN homes : homes[id] = v} \ gone
    BY DEF TasksInv
  <2>2. CASE v = w
    BY <1>3, <1>4, <2>1, <2>2
  <2>3. CASE v # w
    BY <1>4, <2>1, <2>3
  <2>. QED  BY <2>2, <2>3
<1>. QED  BY <1>4, <1>5 DEF TasksInv

(* What is deleted on the page of another workspace is not there.           *)
LEMMA DeleteKeeps ==
    ASSUME TasksInv, NEW w \in Workspaces, NEW id \in DOMAIN homes, DeleteTask(w, id),
           homes' = homes, editing' = NoTask
    PROVE  TasksInv'
<1>1. tasks \in [Workspaces -> Seq(TaskSet)] /\ tasks[w] \in Seq(TaskSet) /\ Apart(tasks[w])
  BY DEF TasksInv
<1>. DEFINE kept == Without(tasks[w], id)
<1>2. kept \in Seq(TaskSet) /\ Apart(kept) /\ Ids(kept) = Ids(tasks[w]) \ {id}
  BY <1>1, WithoutIs
<1>3. tasks' = [tasks EXCEPT ![w] = kept] /\ gone' = IF homes[id] = w THEN gone \cup {id} ELSE gone
  BY DEF DeleteTask
<1>. HIDE DEF kept
<1>4. /\ tasks' \in [Workspaces -> Seq(TaskSet)] /\ tasks'[w] = kept
      /\ \A v \in Workspaces : v # w => tasks'[v] = tasks[v]
  BY <1>1, <1>2, <1>3
<1>5. ASSUME NEW v \in Workspaces
      PROVE  Apart(tasks'[v]) /\ Ids(tasks'[v]) = {x \in DOMAIN homes : homes[x] = v} \ gone'
  <2>1. Apart(tasks[v]) /\ Ids(tasks[v]) = {x \in DOMAIN homes : homes[x] = v} \ gone
    BY DEF TasksInv
  <2>2. CASE v = w
    <3>1. Apart(tasks'[v]) /\ Ids(tasks'[v]) = ({x \in DOMAIN homes : homes[x] = v} \ gone) \ {id}
      BY <1>2, <1>4, <2>1, <2>2
    <3>2. CASE homes[id] = w
      BY <1>3, <3>1, <3>2
    <3>3. CASE homes[id] # w
      BY <1>3, <2>2, <3>1, <3>3
    <3>. QED  BY <3>2, <3>3
  <2>3. CASE v # w
    <3>1. tasks'[v] = tasks[v]
      BY <1>4, <2>3
    <3>2. {x \in DOMAIN homes : homes[x] = v} \ gone' = {x \in DOMAIN homes : homes[x] = v} \ gone
      BY <1>3, <2>3
    <3>. QED  BY <2>1, <3>1, <3>2
  <2>. QED  BY <2>2, <2>3
<1>6. gone' \subseteq DOMAIN homes
  BY <1>3 DEF TasksInv
<1>. QED  BY <1>4, <1>5, <1>6 DEF TasksInv

LEMMA TasksNextInv ==
    ASSUME TasksInv, NEW w \in Workspaces, TasksNext(w)
    PROVE  TasksInv'
<1>1. CASE OpenTask(w)
  <2>1. PICK i \in DOMAIN tasks[w] : editing' = {tasks[w][i]}
    BY <1>1 DEF OpenTask
  <2>2. tasks[w] \in Seq(TaskSet)
    BY DEF TasksInv
  <2>3. tasks[w][i] \in TaskSet
    BY <2>1, <2>2, LenProperties, ElementOfSeq
  <2>4. tasks[w][i].id \in DOMAIN homes
    <3>1. tasks[w][i].id \in Ids(tasks[w])
      BY <2>1 DEF Ids
    <3>. QED  BY <3>1 DEF TasksInv
  <2>5. \E t \in TaskSet : editing' = {t} /\ t.id \in DOMAIN homes
    BY <2>1, <2>3, <2>4
  <2>6. UNCHANGED <<tasks, homes, gone>>
    BY <1>1 DEF OpenTask
  <2>. QED  BY <2>5, <2>6 DEF TasksInv
<1>2. CASE OpenNew \/ CloseEditor
  BY <1>2, TasksStay DEF OpenNew, CloseEditor, EditorCloses
<1>3. CASE SaveTask(w)
  <2>1. PICK task \in editing, text \in Texts :
          IF editing = NewTask THEN CreateTask(w, text)
          ELSE UpdateTask(w, [task EXCEPT !.text = text]) /\ UNCHANGED <<homes, gone>>
    BY <1>3 DEF SaveTask
  <2>2. editing' = NoTask
    BY <1>3 DEF SaveTask, EditorCloses
  <2>3. CASE editing = NewTask
    BY <2>1, <2>2, <2>3, CreateKeeps
  <2>4. CASE editing # NewTask
    <3>1. task \in TaskSet
      BY <1>3, <2>1, <2>4 DEF TasksInv, SaveTask
    <3>2. [task EXCEPT !.text = text] \in TaskSet
      BY <2>1, <3>1 DEF TaskSet
    <3>. QED  BY <2>1, <2>2, <2>4, <3>2, UpdateKeeps
  <2>. QED  BY <2>3, <2>4
<1>4. CASE RemoveTask(w)
  <2>1. PICK task \in editing : DeleteTask(w, task.id)
    BY <1>4 DEF RemoveTask
  <2>2. task.id \in DOMAIN homes
    BY <1>4, <2>1 DEF TasksInv, RemoveTask
  <2>. QED  BY <1>4, <2>1, <2>2, DeleteKeeps DEF RemoveTask, EditorCloses
<1>. QED  BY <1>1, <1>2, <1>3, <1>4 DEF TasksNext

-----------------------------------------------------------------------------
(* What the panel and the form keep of their fields.                       *)

Saves(op) == op.kind = "upsert"
PanelShape ==
    /\ listed \subseteq Variables /\ loading \in BOOLEAN
    /\ \A l \in loads : l.current => loading
    /\ \A l, m \in loads : l.current /\ m.current => l = m
    /\ typed = {} \/ \E v \in Variables : typed = {v}
    /\ replacing => typed # {}
    /\ saving \in BOOLEAN /\ (saving => \E op \in ops : Saves(op))
    /\ \A op \in ops : Saves(op) => saving
    /\ \A op, other \in ops : Saves(op) /\ Saves(other) => op = other
    /\ asOf <= changes /\ changes <= MaxChanges

LEMMA PanelTyped ==
    ASSUME PanelShape, PanelTypes
    PROVE  PanelTypeOK
<1>1. Cardinality({}) = 0 /\ \A v : Cardinality({v}) = 1
  BY FS_EmptySet, FS_Singleton
<1>2. Cardinality(typed) <= 1
  <2>1. CASE typed = {}
    BY <1>1, <2>1
  <2>2. ASSUME NEW v, typed = {v} PROVE Cardinality(typed) <= 1
    <3>1. Cardinality({v}) = 1
      BY <1>1
    <3>. QED  BY <2>2, <3>1
  <2>. QED  BY <2>1, <2>2 DEF PanelShape
<1>3. saving = (\E op \in ops : op.kind = "upsert")
  BY DEF PanelShape, Saves
<1>4. asOf \in 0..MaxChanges
  BY PanelAssumption DEF PanelShape, PanelTypes, PanelAssumption
<1>. QED  BY <1>2, <1>3, <1>4 DEF PanelShape, PanelTypes, PanelTypeOK

(* A call keeps its kind, and an answer its reading is of the past.          *)
LEMMA KindKept ==
    ASSUME NEW op \in OpSet
    PROVE  /\ Saves([op EXCEPT !.phase = "reload"]) <=> Saves(op)
           /\ \A items, at : Saves([op EXCEPT !.phase = "reloaded", !.items = items, !.at = at])
                             <=> Saves(op)
BY DEF OpSet, Saves

(* One call ends, or goes on as another.                                    *)
LEMMA OpEnds ==
    ASSUME PanelShape, NEW op \in ops, ops' = ops \ {op}, saving' = (saving /\ ~Saves(op))
    PROVE  /\ saving' \in BOOLEAN /\ (saving' => \E other \in ops' : Saves(other))
           /\ \A other \in ops' : Saves(other) => saving'
           /\ \A a, b \in ops' : Saves(a) /\ Saves(b) => a = b
<1>1. saving' \in BOOLEAN
  BY DEF PanelShape
<1>2. saving' => \E other \in ops' : Saves(other)
  <2>. SUFFICES ASSUME saving' PROVE \E other \in ops' : Saves(other)
    OBVIOUS
  <2>1. saving /\ ~Saves(op)
    OBVIOUS
  <2>. QED  BY <2>1 DEF PanelShape
<1>3. \A other \in ops' : Saves(other) => saving'
  <2>. SUFFICES ASSUME NEW other \in ops', Saves(other) PROVE saving'
    OBVIOUS
  <2>1. other \in ops /\ other # op
    OBVIOUS
  <2>2. saving /\ ~Saves(op)
    BY <2>1 DEF PanelShape
  <2>. QED  BY <2>2
<1>. QED  BY <1>1, <1>2, <1>3 DEF PanelShape

LEMMA OpGoesOn ==
    ASSUME PanelShape, NEW op \in ops, NEW next, Saves(next) <=> Saves(op),
           ops' = (ops \ {op}) \cup {next}, saving' = saving
    PROVE  /\ saving' \in BOOLEAN /\ (saving' => \E other \in ops' : Saves(other))
           /\ \A other \in ops' : Saves(other) => saving'
           /\ \A a, b \in ops' : Saves(a) /\ Saves(b) => a = b
BY DEF PanelShape

(* What is displayed is a reading of the past.                              *)
LEMMA DisplayedShape ==
    ASSUME PanelShape, PanelTypes, NEW w, NEW items \in SUBSET Variables, NEW at \in Nat,
           at <= changes, NEW shown, Displays(w, items, at, shown)
    PROVE  listed' \subseteq Variables /\ asOf' <= changes
BY DEF PanelShape, PanelTypes, Displays

(* Mounted, and about another workspace.                                    *)
LEMMA ShapeMounted ==
    ASSUME PanelShape, loads = {}, loading = TRUE, NEW w \in Workspaces, PanelMounted(w)
    PROVE  PanelShape'
<1>1. UNCHANGED <<changes, listed, loading, ops, saving, typed, replacing, asOf>>
      /\ loads' = {Load(w)}
  BY DEF PanelMounted, form, past
<1>. QED  BY <1>1 DEF PanelShape

LEMMA ShapeShown ==
    ASSUME PanelShape, PanelTypes, NEW w \in Workspaces, ShowWorkspace(w)
    PROVE  PanelShape'
<1>. DEFINE old == {[l EXCEPT !.current = FALSE] : l \in loads}
<1>1. /\ loads' = old \cup {Load(w)} /\ listed' = {} /\ loading' = TRUE
      /\ typed' = {} /\ replacing' = FALSE /\ asOf' = 0
      /\ UNCHANGED <<saving, changes, ops>>
  BY DEF ShowWorkspace, FormReset
<1>2. \A m \in old : ~m.current
  <2>. TAKE m \in old
  <2>1. PICK l \in loads : m = [l EXCEPT !.current = FALSE]
    OBVIOUS
  <2>2. l \in LoadSet
    BY DEF PanelTypes
  <2>. QED  BY <2>1, <2>2 DEF LoadSet
<1>. HIDE DEF old
<1>3. \A l, m \in loads' : l.current /\ m.current => l = m
  BY <1>1, <1>2
<1>4. asOf' <= changes'
  BY <1>1 DEF PanelTypes
<1>5. saving' \in BOOLEAN /\ (saving' => \E op \in ops' : Saves(op))
      /\ (\A op \in ops' : Saves(op) => saving')
      /\ (\A op, other \in ops' : Saves(op) /\ Saves(other) => op = other)
  BY <1>1 DEF PanelShape
<1>6. listed' \subseteq Variables /\ loading' \in BOOLEAN
      /\ (\A l \in loads' : l.current => loading') /\ typed' = {} /\ ~replacing'
      /\ changes' <= MaxChanges
  BY <1>1 DEF PanelShape
<1>. QED  BY <1>3, <1>4, <1>5, <1>6 DEF PanelShape

(* A call begins.                                                           *)
LEMMA ShapeStarts ==
    ASSUME PanelShape, NEW shown,
           Submit(shown) \/ \E v \in Variables : RemoveVariable(shown, v)
    PROVE  PanelShape'
<1>1. CASE Submit(shown)
  <2>1. PICK v \in typed : ops' = ops \cup {Op("upsert", shown, v)}
    BY <1>1 DEF Submit, Start
  <2>2. ~saving /\ saving' = TRUE
        /\ UNCHANGED <<changes, listed, loading, loads, typed, replacing, asOf>>
    BY <1>1 DEF Submit, past
  <2>3. Saves(Op("upsert", shown, v))
    BY DEF Saves, Op
  <2>4. \A op \in ops : ~Saves(op)
    BY <2>2 DEF PanelShape
  <2>. QED  BY <2>1, <2>2, <2>3, <2>4 DEF PanelShape
<1>2. ASSUME NEW v \in Variables, RemoveVariable(shown, v) PROVE PanelShape'
  <2>1. ops' = ops \cup {Op("delete", shown, v)}
        /\ UNCHANGED <<changes, listed, loading, loads, typed, replacing, saving, asOf>>
    BY <1>2 DEF RemoveVariable, Start, form, past
  <2>2. ~Saves(Op("delete", shown, v))
    BY DEF Saves, Op
  <2>. QED  BY <2>1, <2>2 DEF PanelShape
<1>. QED  BY <1>1, <1>2

(* The form's fields.                                                       *)
LEMMA ShapeFields ==
    ASSUME PanelShape, Cancel \/ \E v \in Variables : TypeName(v) \/ ReplaceVariable(v)
    PROVE  PanelShape'
<1>1. UNCHANGED <<changes, listed, loading, loads, ops, saving, asOf>>
  BY DEF Cancel, TypeName, ReplaceVariable, past
<1>2. (typed' = {} \/ \E v \in Variables : typed' = {v}) /\ (replacing' => typed' # {})
  <2>1. CASE Cancel
    BY <2>1 DEF Cancel, FormReset
  <2>2. ASSUME NEW v \in Variables, TypeName(v)
        PROVE  (typed' = {} \/ \E u \in Variables : typed' = {u}) /\ (replacing' => typed' # {})
    BY <2>2 DEF TypeName, PanelShape
  <2>3. ASSUME NEW v \in Variables, ReplaceVariable(v)
        PROVE  (typed' = {} \/ \E u \in Variables : typed' = {u}) /\ (replacing' => typed' # {})
    BY <2>3 DEF ReplaceVariable
  <2>. QED  BY <2>1, <2>2, <2>3
<1>. QED  BY <1>1, <1>2 DEF PanelShape

(* A load is answered, taken or fails.                                      *)
LEMMA ShapeLoad ==
    ASSUME NEW shown \in Workspaces, PanelInv(shown), PanelShape, NEW l \in loads,
           AnswerLoad(l, shown) \/ TakeLoad(l, shown) \/ FailLoad(l)
    PROVE  PanelShape'
<1>1. PanelTypes /\ l \in LoadSet /\ l.current \in BOOLEAN
  BY DEF PanelInv, PanelTypes, LoadSet
<1>2. UNCHANGED <<changes, ops, saving, typed, replacing>>
  BY DEF AnswerLoad, TakeLoad, FailLoad, form
<1>3. CASE AnswerLoad(l, shown)
  <2>. DEFINE m == [l EXCEPT !.answered = TRUE, !.items = stored[l.ws], !.at = changes]
  <2>1. loads' = (loads \ {l}) \cup {m} /\ UNCHANGED <<listed, loading, asOf>>
    BY <1>3 DEF AnswerLoad
  <2>2. m.current = l.current
    BY <1>1 DEF LoadSet
  <2>. HIDE DEF m
  <2>. QED  BY <1>2, <2>1, <2>2 DEF PanelShape
<1>4. CASE TakeLoad(l, shown)
  <2>1. loads' = loads \ {l} /\ l.answered
    BY <1>4 DEF TakeLoad
  <2>2. CASE l.current
    <3>1. Displays(l.ws, l.items, l.at, shown) /\ loading' = FALSE
      BY <1>4, <2>2 DEF TakeLoad
    <3>2. l.items \in SUBSET Variables /\ l.at \in Nat
      BY <1>1 DEF LoadSet
    <3>3. l.at <= changes
      BY <2>1 DEF PanelInv, Dated, Since
    <3>4. listed' \subseteq Variables /\ asOf' <= changes
      BY <1>1, <3>1, <3>2, <3>3, DisplayedShape
    <3>5. \A m \in loads' : ~m.current
      BY <2>1, <2>2 DEF PanelShape
    <3>. QED  BY <1>2, <2>1, <3>1, <3>4, <3>5 DEF PanelShape
  <2>3. CASE ~l.current
    <3>1. UNCHANGED <<listed, asOf, loading>>
      BY <1>4, <2>3 DEF TakeLoad
    <3>. QED  BY <1>2, <2>1, <3>1 DEF PanelShape
  <2>. QED  BY <2>2, <2>3
<1>5. CASE FailLoad(l)
  <2>1. loads' = loads \ {l} /\ loading' = (loading /\ ~l.current) /\ UNCHANGED <<listed, asOf>>
    BY <1>5 DEF FailLoad
  <2>2. \A m \in loads' : m.current => loading'
    <3>. SUFFICES ASSUME NEW m \in loads', m.current PROVE loading'
      OBVIOUS
    <3>1. m \in loads /\ m # l
      BY <2>1
    <3>2. loading /\ ~l.current
      BY <3>1 DEF PanelShape
    <3>. QED  BY <2>1, <3>2
  <2>3. loading' \in BOOLEAN
    BY <1>1, <2>1 DEF PanelShape
  <2>. QED  BY <1>2, <2>1, <2>2, <2>3 DEF PanelShape
<1>. QED  BY <1>3, <1>4, <1>5

(* A change is made.                                                        *)
LEMMA ChangeShape ==
    ASSUME PanelShape, PanelTypes, NEW op, Change(op)
    PROVE  asOf <= changes' /\ changes' <= MaxChanges
<1>1. MaxChanges \in Nat
  BY PanelAssumption DEF PanelAssumption
<1>. QED  BY <1>1 DEF PanelShape, PanelTypes, Change

LEMMA ShapeElsewhere ==
    ASSUME NEW shown, PanelShape, PanelTypes, ChangedElsewhere(shown)
    PROVE  PanelShape'
<1>1. \E op : Change(op)
  BY DEF ChangedElsewhere
<1>2. asOf <= changes' /\ changes' <= MaxChanges
  BY <1>1, ChangeShape
<1>3. UNCHANGED <<listed, loading, loads, ops, saving, typed, replacing, asOf>>
  BY DEF ChangedElsewhere, form
<1>. QED  BY <1>2, <1>3 DEF PanelShape

(* A call is carried out, answered, or fails.                               *)
LEMMA ShapeOp ==
    ASSUME NEW shown \in Workspaces, PanelInv(shown), PanelShape, NEW op \in ops,
           \/ Changed(op) \/ OpFails(op, shown)
           \/ AnswerReload(op, shown) \/ TakeReload(op, shown)
    PROVE  PanelShape'
<1>. DEFINE Calls == /\ saving' \in BOOLEAN /\ (saving' => \E other \in ops' : Saves(other))
                     /\ \A other \in ops' : Saves(other) => saving'
                     /\ \A a, b \in ops' : Saves(a) /\ Saves(b) => a = b
<1>1. PanelTypes /\ op \in OpSet
  BY DEF PanelInv, PanelTypes
<1>2. loads' = loads /\ loading' = loading
  BY DEF Changed, OpFails, AnswerReload, TakeReload
<1>3. CASE Changed(op)
  <2>. DEFINE next == [op EXCEPT !.phase = "reload"]
  <2>1. ops' = (ops \ {op}) \cup {next} /\ Change(op)
        /\ typed' = {} /\ replacing' = FALSE /\ UNCHANGED <<listed, saving, asOf>>
    BY <1>3 DEF Changed, Reloads, FormReset, past
  <2>2. Saves(next) <=> Saves(op)
    BY <1>1, KindKept
  <2>. HIDE DEF next
  <2>3. Calls
    BY <2>1, <2>2, OpGoesOn
  <2>4. asOf <= changes' /\ changes' <= MaxChanges
    BY <1>1, <2>1, ChangeShape
  <2>. HIDE DEF Calls
  <2>5. /\ listed' \subseteq Variables /\ loading' \in BOOLEAN
        /\ \A l \in loads' : l.current => loading'
        /\ \A l, m \in loads' : l.current /\ m.current => l = m
    BY <1>2, <2>1 DEF PanelShape
  <2>. QED  BY <2>1, <2>3, <2>4, <2>5 DEF PanelShape, Calls
<1>4. CASE OpFails(op, shown)
  <2>1. ops' = ops \ {op} /\ saving' = (saving /\ ~Saves(op))
        /\ UNCHANGED <<listed, typed, replacing, asOf>>
    BY <1>4 DEF OpFails, SavingAfter, Saves
  <2>2. Calls
    BY <2>1, OpEnds
  <2>3. asOf <= changes' /\ changes' <= MaxChanges
    <3>1. CASE changes' = changes
      BY <3>1 DEF PanelShape
    <3>2. CASE Change(op)
      BY <1>1, <3>2, ChangeShape
    <3>. QED  BY <1>4, <3>1, <3>2 DEF OpFails
  <2>. HIDE DEF Calls
  <2>4. /\ listed' \subseteq Variables /\ loading' \in BOOLEAN
        /\ \A l \in loads' : l.current => loading'
        /\ \A l, m \in loads' : l.current /\ m.current => l = m
        /\ typed' = {} \/ \E v \in Variables : typed' = {v}
        /\ replacing' => typed' # {}
    BY <1>2, <2>1 DEF PanelShape
  <2>. QED  BY <2>1, <2>2, <2>3, <2>4 DEF PanelShape, Calls
<1>5. CASE AnswerReload(op, shown)
  <2>. DEFINE next == [op EXCEPT !.phase = "reloaded", !.items = stored[op.ws], !.at = changes]
  <2>1. ops' = (ops \ {op}) \cup {next}
        /\ UNCHANGED <<changes, listed, saving, typed, replacing, asOf>>
    BY <1>5 DEF AnswerReload, form
  <2>2. Saves(next) <=> Saves(op)
    BY <1>1, KindKept
  <2>. HIDE DEF next
  <2>3. Calls
    BY <2>1, <2>2, OpGoesOn
  <2>. HIDE DEF Calls
  <2>. QED  BY <1>2, <2>1, <2>3 DEF PanelShape, Calls
<1>6. CASE TakeReload(op, shown)
  <2>1. ops' = ops \ {op} /\ saving' = (saving /\ ~Saves(op)) /\ op.phase = "reloaded"
        /\ Displays(op.ws, op.items, op.at, shown)
        /\ UNCHANGED <<changes, typed, replacing>>
    BY <1>6 DEF TakeReload, SavingAfter, Saves
  <2>2. Calls
    BY <2>1, OpEnds
  <2>3. op.items \in SUBSET Variables /\ op.at \in Nat
    BY <1>1 DEF OpSet
  <2>4. op.at <= changes
    BY <2>1 DEF PanelInv, Dated, Since
  <2>5. listed' \subseteq Variables /\ asOf' <= changes
    BY <1>1, <2>1, <2>3, <2>4, DisplayedShape
  <2>. HIDE DEF Calls
  <2>. QED  BY <1>2, <2>1, <2>2, <2>5 DEF PanelShape, Calls
<1>. QED  BY <1>3, <1>4, <1>5, <1>6

LEMMA PanelNextShape ==
    ASSUME NEW shown \in Workspaces, PanelInv(shown), PanelShape, PanelNext(shown)
    PROVE  PanelShape'
<1>1. CASE Submit(shown) \/ \E v \in Variables : RemoveVariable(shown, v)
  BY <1>1, ShapeStarts
<1>2. CASE Cancel \/ \E v \in Variables : TypeName(v) \/ ReplaceVariable(v)
  BY <1>2, ShapeFields
<1>3. CASE ChangedElsewhere(shown)
  BY <1>3, ShapeElsewhere DEF PanelInv
<1>4. ASSUME NEW l \in loads, AnswerLoad(l, shown) \/ TakeLoad(l, shown) \/ FailLoad(l)
      PROVE  PanelShape'
  BY <1>4, ShapeLoad
<1>5. ASSUME NEW op \in ops, \/ Changed(op) \/ OpFails(op, shown)
                             \/ AnswerReload(op, shown) \/ TakeReload(op, shown)
      PROVE  PanelShape'
  BY <1>5, ShapeOp
<1>. QED  BY <1>1, <1>2, <1>3, <1>4, <1>5 DEF PanelNext

(* The form.                                                                *)
FormShape ==
    /\ source \in {"existing", "new"} /\ mode \in {"new", "existing"}
    /\ picking \in BOOLEAN /\ named \in BOOLEAN /\ incomplete \in BOOLEAN
    /\ reading \in BOOLEAN /\ refused \in BOOLEAN /\ submitting \in BOOLEAN
    /\ creates \in Nat /\ (submitting => creates > 0)

LEMMA FormTyped ==
    ASSUME FormInv, FormShape
    PROVE  FormTypeOK
BY DEF FormInv, FormShape, FormTypeOK, ReadSet

LEMMA FormShapeInit == FormInit => FormShape
<1>. SUFFICES ASSUME FormInit PROVE FormShape
  OBVIOUS
<1>1. /\ source = "existing" /\ mode = "new" /\ creates = 0
      /\ picking = FALSE /\ named = FALSE /\ incomplete = FALSE
      /\ reading = FALSE /\ refused = FALSE /\ submitting = FALSE
  BY DEF FormInit
<1>2. /\ picking \in BOOLEAN /\ named \in BOOLEAN /\ incomplete \in BOOLEAN
      /\ reading \in BOOLEAN /\ refused \in BOOLEAN /\ submitting \in BOOLEAN
  BY <1>1
<1>3. submitting => creates > 0
  <2>1. ~submitting
    BY <1>1
  <2>. QED  BY ONLY <2>1
<1>. QED  BY ONLY <1>1, <1>2, <1>3 DEF FormShape

LEMMA SendStays ==
    ASSUME FormShape, UNCHANGED <<submitting, creates>>
    PROVE  submitting' \in BOOLEAN /\ creates' \in Nat /\ (submitting' => creates' > 0)
BY DEF FormShape

LEMMA FormShapeNext ==
    ASSUME FormInv, FormShape, FormNext
    PROVE  FormShape'
<1>1. ASSUME NEW r \in Repositories, ChooseRepository(r) PROVE FormShape'
  BY <1>1 DEF ChooseRepository, FormShape, fetch, choice, send
<1>2. ASSUME NEW read \in reads, BranchesAnswered(read) \/ BranchesFail(read) PROVE FormShape'
  <2>1. read.current \in BOOLEAN
    BY DEF FormInv, ReadSet
  <2>2. reading' \in BOOLEAN /\ refused' \in BOOLEAN
    <3>1. CASE BranchesAnswered(read)
      BY <3>1 DEF BranchesAnswered, FormShape
    <3>2. CASE BranchesFail(read)
      BY <2>1, <3>2 DEF BranchesFail, FormShape, Stands
    <3>. QED  BY <1>2, <3>1, <3>2
  <2>3. UNCHANGED <<source, picking, mode, named, incomplete, submitting, creates>>
    BY <1>2 DEF BranchesAnswered, BranchesFail, choice, send
  <2>. QED  BY <2>2, <2>3, SendStays DEF FormShape
<1>3. CASE SelectBase \/ SelectExisting \/ ChangeMode \/ ChangeRepository
  <2>1. /\ UNCHANGED <<source, named, incomplete, reading, refused, submitting, creates>>
        /\ mode' \in {mode, "new", "existing"} /\ picking' \in {picking, TRUE}
    BY <1>3 DEF SelectBase, SelectExisting, ChangeMode, ChangeRepository, fetch, choice, send
  <2>2. picking' \in BOOLEAN
    <3>1. picking \in BOOLEAN
      BY DEF FormShape
    <3>. QED  BY ONLY <2>1, <3>1
  <2>3. /\ named' \in BOOLEAN /\ incomplete' \in BOOLEAN
        /\ reading' \in BOOLEAN /\ refused' \in BOOLEAN
    BY <2>1 DEF FormShape
  <2>4. source' \in {"existing", "new"} /\ mode' \in {"new", "existing"}
    BY <2>1 DEF FormShape
  <2>5. submitting' \in BOOLEAN /\ creates' \in Nat /\ (submitting' => creates' > 0)
    BY <2>1, SendStays
  <2>. QED  BY <2>2, <2>3, <2>4, <2>5 DEF FormShape
<1>4. CASE WriteName \/ EditVariables
  <2>1. UNCHANGED <<source, picking, mode, reading, refused, submitting, creates>>
    BY <1>4 DEF WriteName, EditVariables, fetch, send
  <2>2. named' \in BOOLEAN /\ incomplete' \in BOOLEAN
    <3>1. named \in BOOLEAN /\ incomplete \in BOOLEAN
      BY DEF FormShape
    <3>. QED  BY <1>4, <3>1 DEF WriteName, EditVariables
  <2>. QED  BY <2>1, <2>2, SendStays DEF FormShape
<1>5. CASE ChangeSource
  BY <1>5 DEF ChangeSource, FormUnmounted, FormShape
<1>6. CASE SubmitForm
  BY <1>6 DEF SubmitForm, FormShape, choice, fetch
<1>. QED  BY <1>1, <1>2, <1>3, <1>4, <1>5, <1>6 DEF FormNext

(* A form that is gone is not submitting.                                   *)
LEMMA RequestShape ==
    ASSUME FormShape, CreateFails
    PROVE  FormShape'
<1>1. UNCHANGED <<source, mode, picking, named, incomplete, reading, refused>>
      /\ creates > 0 /\ creates' = creates - 1
      /\ submitting' \in IF submitting /\ creates = 1 THEN {FALSE} ELSE {submitting, FALSE}
  BY DEF CreateFails, choice, fetch
<1>2. submitting' \in BOOLEAN /\ (submitting' => submitting /\ creates # 1)
  BY <1>1 DEF FormShape
<1>. QED  BY <1>1, <1>2 DEF FormShape

-----------------------------------------------------------------------------
(* The pages together.                                                     *)

(* A panel that is not there has no call of its own under way.              *)
PageInv ==
    /\ place \in Places
    /\ IF On("overview") THEN PanelInv(place.ws) ELSE PanelTypes /\ ops = {}

WebInv == FormInv /\ PageInv

(* The page as it opens.                                                    *)
LEMMA WebInitInv == WebInit => WebInv
<1> SUFFICES ASSUME WebInit PROVE WebInv
  OBVIOUS
<1>1. FormInv
  BY FormInitInv DEF WebInit
<1>2. place \in Places /\ place.page = "overview" /\ place.ws \in Workspaces
  BY DEF WebInit, Places
<1>3. /\ stored \in [Workspaces -> SUBSET Variables] /\ changes = 0
      /\ loads = {Load(place.ws)} /\ ops = {} /\ typed = {}
      /\ asOf = 0 /\ tangled = FALSE /\ owed = FALSE
  BY DEF WebInit, PanelInit
<1>4. PanelTypes
  BY <1>2, <1>3, LoadOK DEF PanelTypes
<1> DEFINE c == [x \in Workspaces |-> 0]
<1>5. c \in Dates
  BY <1>3 DEF Dates
<1>6. Dated(c) /\ Coming(c, place.ws)
  BY <1>2, <1>3, LoadOK DEF Dated, Coming
<1> HIDE DEF c
<1>7. PanelInv(place.ws)
  BY <1>2, <1>3, <1>4, <1>5, <1>6, LoadOK DEF PanelInv
<1> QED
  BY <1>1, <1>2, <1>7 DEF WebInv, PageInv, On

(* The form stays as it was, or starts over.                                *)
LEMMA FormStays ==
    ASSUME FormInv, UNCHANGED <<repository, choice, fetch>>
    PROVE  FormInv'
BY DEF FormInv, AnsweredBranchesFit, choice, fetch

LEMMA FormLeft ==
    ASSUME FormInv, LeaveForm
    PROVE  FormInv'
<1>1. CASE FormUnmounted
  BY <1>1 DEF FormUnmounted, FormInv, AnsweredBranchesFit
<1>2. CASE UNCHANGED formVars
  BY <1>2, FormStays DEF formVars, choice, fetch
<1> QED
  BY <1>1, <1>2 DEF LeaveForm

(* Leaving the overview ends its calls; coming to it starts a panel.        *)
LEMMA OverviewLeft ==
    ASSUME PageInv, LeaveOverview
    PROVE  PanelTypes' /\ ops' = {}
<1>1. PanelTypes
  BY DEF PageInv, PanelInv
<1>2. CASE On("overview")
  <2>1. PanelUnmounted
    BY <1>2 DEF LeaveOverview
  <2>2. /\ stored' = [w \in Workspaces |-> {}] /\ changes' = 0 /\ asOf' = 0
        /\ loads' = {} /\ ops' = {} /\ typed' = {} /\ tangled' = FALSE /\ owed' = FALSE
    BY <2>1 DEF PanelUnmounted, FormReset
  <2> QED
    BY <2>2 DEF PanelTypes
<1>3. CASE ~On("overview")
  BY <1>1, <1>3 DEF LeaveOverview, PageInv, PanelTypes, panelVars
<1> QED
  BY <1>2, <1>3

LEMMA OverviewShown ==
    ASSUME PageInv, NEW w \in Workspaces, OverviewOf(w)
    PROVE  PageInv'
<1>1. place' = [page |-> "overview", ws |-> w]
  BY DEF OverviewOf
<1>2. PanelInv(w)'
  <2>1. CASE On("overview")
    BY <2>1, ShowWorkspaceInv DEF PageInv, OverviewOf
  <2>2. CASE ~On("overview")
    BY <2>2, PanelMountedInv DEF PageInv, OverviewOf
  <2> QED
    BY <2>1, <2>2
<1>3. place' \in Places /\ On("overview")' /\ place'.ws = w
  BY <1>1 DEF Places, On
<1> QED
  BY <1>2, <1>3 DEF PageInv

(* Steps elsewhere leave the panel, or the place it would be at.             *)
LEMMA PageStays ==
    ASSUME PageInv, UNCHANGED <<place, panelVars>>
    PROVE  PageInv'
<1>1. UNCHANGED <<place, stored, changes, listed, loading, loads, ops, saving, typed,
                  replacing, asOf, tangled, owed>>
  BY DEF panelVars
<1>2. PanelTypes => PanelTypes'
  BY <1>1 DEF PanelTypes
<1>3. ASSUME NEW shown, PanelInv(shown) PROVE PanelInv(shown)'
  BY <1>1, <1>2, <1>3 DEF PanelInv, Dates, Dated, Since, Coming
<1>4. PanelInv(place.ws) => PanelInv(place.ws)'
  BY <1>1, <1>3
<1> QED
  BY <1>1, <1>2, <1>4 DEF PageInv, On

(* Every step of the pages keeps both.                                      *)
LEMMA WebNextInv == WebInv /\ [WebNext]_webVars => WebInv'
<1> SUFFICES ASSUME WebInv, [WebNext]_webVars PROVE WebInv'
  OBVIOUS
<1> USE DEF WebInv
<1>1. CASE ConversationStep \/ RequestFails \/ UNCHANGED webVars
  <2>1. UNCHANGED <<place, panelVars>> /\ UNCHANGED <<repository, choice, fetch>>
    BY <1>1 DEF ConversationStep, RequestFails, CreateFails, webVars, formVars, choice, fetch
  <2> QED
    BY <2>1, FormStays, PageStays
<1>2. CASE FormStep
  BY <1>2, FormNextInv, PageStays DEF FormStep
<1>3. CASE OverviewStep
  <2>1. UNCHANGED <<repository, choice, fetch>> /\ place' = place /\ On("overview")
    BY <1>3 DEF OverviewStep, formVars, choice, fetch
  <2>2. place \in Places /\ place.ws \in Workspaces /\ PanelInv(place.ws)
    BY <2>1 DEF PageInv, Places
  <2>3. CASE UNCHANGED panelVars
    BY <2>1, <2>3, FormStays, PageStays
  <2>4. CASE PanelNext(place.ws)
    <3>1. \A shown : shown = place.ws => PanelInv(shown)'
      BY <2>2, <2>4, PanelNextInv
    <3>2. PanelInv(place.ws)'
      BY <2>1, <3>1
    <3> QED
      BY <2>1, <2>2, <3>2, FormStays DEF PageInv, On
  <2> QED
    BY <1>3, <2>3, <2>4 DEF OverviewStep
<1>4. CASE OpenForm
  <2>1. PanelTypes' /\ ops' = {}
    BY <1>4, OverviewLeft DEF OpenForm
  <2>2. place' \in Places /\ ~On("overview")'
    BY <1>4 DEF OpenForm, PageInv, Places, On
  <2>3. FormInv'
    BY <1>4, FormStays DEF OpenForm, formVars, choice, fetch
  <2> QED
    BY <2>1, <2>2, <2>3 DEF PageInv
<1>5. ASSUME NEW w \in Workspaces, OpenConversation(w) PROVE WebInv'
  <2>1. PanelTypes' /\ ops' = {}
    BY <1>5, OverviewLeft DEF OpenConversation
  <2>2. place' \in Places /\ ~On("overview")'
    BY <1>5 DEF OpenConversation, Places, On
  <2>3. FormInv'
    BY <1>5, FormLeft DEF OpenConversation
  <2> QED
    BY <2>1, <2>2, <2>3 DEF PageInv
<1>6. ASSUME NEW w \in Workspaces, OpenOverview(w) PROVE WebInv'
  BY <1>6, OverviewShown, FormLeft DEF OpenOverview
<1>7. ASSUME NEW w \in Workspaces, FormSucceeds(w) PROVE WebInv'
  <2>1. PageInv'
    BY <1>7, OverviewShown DEF FormSucceeds
  <2>2. FormInv'
    <3>1. CASE On("create")
      BY <1>7, <3>1 DEF FormSucceeds, FormInv, AnsweredBranchesFit
    <3>2. CASE ~On("create")
      BY <1>7, <3>2, FormStays DEF FormSucceeds
    <3> QED
      BY <3>1, <3>2
  <2> QED
    BY <2>1, <2>2
<1> QED
  BY <1>1, <1>2, <1>3, <1>4, <1>5, <1>6, <1>7 DEF WebNext

(* Whatever is chosen while branches are being read, and whichever answer comes
   last: once those of the chosen repository are there, all the form holds is
   of that repository: the branch to work on is one of its branches, the base
   one of them or its default branch, which need not be among those that were
   answered (ExistingProjectForm, whose effect withdraws the read it started
   before; githubapp/client.go:196).                                        *)
THEOREM BranchesFit == WebSpec => []AnsweredBranchesFit
<1>1. WebInv => AnsweredBranchesFit
  BY DEF WebInv, FormInv
<1> QED
  BY <1>1, WebInitInv, WebNextInv, PTL DEF WebSpec

(* The variables panel at rest lists what its workspace has, for any number of
   loads, changes and reloads that came in any order, unless an answer came out
   of turn or a request or a reading was lost (EnvironmentPanel).          *)
THEOREM EnvironmentCorrect == WebSpec => []EnvironmentShown
<1>1. WebInv => EnvironmentShown
  BY PanelShows DEF WebInv, PageInv, EnvironmentShown
<1> QED
  BY <1>1, WebInitInv, WebNextInv, PTL DEF WebSpec
-----------------------------------------------------------------------------
(* The rest of the pages: the conversation, the tasks, and what is forgotten of
   a page that is left.                                                    *)

Forgotten ==
    /\ On("overview") \/ (loads = {} /\ loading = TRUE)
    /\ On("create") \/ submitting = FALSE

RestInv == ChatInv /\ TasksInv /\ PanelShape /\ FormShape /\ Forgotten

LEMMA ChatStays ==
    ASSUME ChatInv, UNCHANGED chatVars
    PROVE  ChatInv'
<1>1. UNCHANGED <<session, working, messages, start, history, viewing, draft, taskMode,
                  sends, tray, compact>>
  BY DEF chatVars
<1>2. ChatTypeOK'
  BY <1>1 DEF ChatInv, ChatTypeOK
<1>3. \A c : Cuts(c) <=> Cuts(c)'
  BY <1>1 DEF Cuts
<1>. QED  BY <1>1, <1>2, <1>3 DEF ChatInv

LEMMA ChatLeft ==
    ASSUME ChatInv, LeaveConversation
    PROVE  ChatInv'
BY ChatStays, UnmountKeeps DEF LeaveConversation

LEMMA ShapeStays ==
    ASSUME PanelShape, UNCHANGED panelVars
    PROVE  PanelShape' /\ UNCHANGED <<loads, loading>>
<1>1. UNCHANGED <<changes, listed, loading, loads, ops, saving, typed, replacing, asOf>>
  BY DEF panelVars
<1>. QED  BY <1>1 DEF PanelShape

LEMMA FormShapeStays ==
    ASSUME FormShape, UNCHANGED formVars
    PROVE  FormShape' /\ UNCHANGED submitting
<1>1. UNCHANGED <<source, picking, mode, named, incomplete, reading, refused,
                  submitting, creates>>
  BY DEF formVars
<1>. QED  BY <1>1 DEF FormShape

LEMMA PanelLeft ==
    ASSUME RestInv, LeaveOverview
    PROVE  PanelShape' /\ loads' = {} /\ loading' = TRUE /\ TasksInv'
<1>. USE DEF RestInv
<1>1. CASE On("overview")
  <2>1. EditorUnmounted /\ PanelUnmounted
    BY <1>1 DEF LeaveOverview
  <2>2. TasksInv'
    BY <2>1, TasksStay DEF EditorUnmounted, EditorCloses
  <2>3. /\ changes' = 0 /\ listed' = {} /\ loading' = TRUE /\ loads' = {} /\ ops' = {}
        /\ saving' = FALSE /\ typed' = {} /\ replacing' = FALSE /\ asOf' = 0
    BY <2>1 DEF PanelUnmounted, FormReset
  <2>4. saving' \in BOOLEAN /\ loading' \in BOOLEAN /\ ~saving' /\ ~replacing'
    BY <2>3
  <2>5. asOf' <= changes' /\ changes' <= MaxChanges
    BY <2>3, PanelAssumption DEF PanelAssumption
  <2>6. PanelShape'
    BY <2>3, <2>4, <2>5 DEF PanelShape
  <2>. QED  BY <2>2, <2>3, <2>6
<1>2. CASE ~On("overview")
  <2>1. UNCHANGED panelVars /\ UNCHANGED taskVars
    BY <1>2 DEF LeaveOverview
  <2>2. TasksInv'
    BY <2>1, TasksStay DEF taskVars
  <2>. QED  BY <1>2, <2>1, <2>2, ShapeStays DEF Forgotten
<1>. QED  BY <1>1, <1>2

LEMMA ShapeLeft ==
    ASSUME RestInv, LeaveForm
    PROVE  FormShape' /\ submitting' = FALSE
<1>. USE DEF RestInv
<1>1. CASE On("create")
  <2>1. FormUnmounted /\ source' = "existing"
    BY <1>1 DEF LeaveForm
  <2>2. /\ picking' = FALSE /\ mode' = "new" /\ named' = FALSE /\ incomplete' = FALSE
        /\ reading' = FALSE /\ refused' = FALSE /\ submitting' = FALSE /\ creates' = creates
    BY <2>1 DEF FormUnmounted
  <2>3. /\ picking' \in BOOLEAN /\ named' \in BOOLEAN /\ incomplete' \in BOOLEAN
        /\ reading' \in BOOLEAN /\ refused' \in BOOLEAN /\ submitting' \in BOOLEAN
        /\ ~submitting'
    BY <2>2
  <2>4. creates' \in Nat
    BY <2>2 DEF FormShape
  <2>. QED  BY <2>1, <2>2, <2>3, <2>4 DEF FormShape
<1>2. CASE ~On("create")
  <2>1. UNCHANGED formVars
    BY <1>2 DEF LeaveForm
  <2>. QED  BY <1>2, <2>1, FormShapeStays DEF Forgotten
<1>. QED  BY <1>1, <1>2

(* The overview, of this workspace or of another.                           *)
LEMMA ShapeOverview ==
    ASSUME RestInv, PageInv, NEW w \in Workspaces, OverviewOf(w)
    PROVE  ChatInv' /\ TasksInv' /\ PanelShape' /\ On("overview")'
<1>. USE DEF RestInv
<1>1. ChatInv' /\ TasksInv' /\ On("overview")'
  <2>1. UNCHANGED taskVars /\ LeaveConversation /\ place' = [page |-> "overview", ws |-> w]
    BY DEF OverviewOf
  <2>2. TasksInv'
    BY <2>1, TasksStay DEF taskVars
  <2>. QED  BY <2>1, <2>2, ChatLeft DEF On
<1>2. CASE On("overview")
  <2>1. ShowWorkspace(w) /\ PanelTypes
    BY <1>2 DEF OverviewOf, PageInv, PanelInv
  <2>. QED  BY <1>1, <2>1, ShapeShown
<1>3. CASE ~On("overview")
  <2>1. PanelMounted(w) /\ loads = {} /\ loading = TRUE
    BY <1>3 DEF OverviewOf, Forgotten
  <2>. QED  BY <1>1, <2>1, ShapeMounted
<1>. QED  BY <1>2, <1>3

LEMMA RestInitInv == WebInit => RestInv
<1>. SUFFICES ASSUME WebInit PROVE RestInv
  OBVIOUS
<1>1. ChatInv /\ TasksInv /\ FormShape
  BY ChatInitInv, TasksInitInv, FormShapeInit DEF WebInit
<1>2. place.page = "overview"
  BY DEF WebInit
<1>3. submitting = FALSE
  BY DEF WebInit, FormInit
<1>4. Forgotten
  BY <1>2, <1>3 DEF Forgotten, On
<1>5. /\ changes = 0 /\ listed = {} /\ loading = TRUE /\ loads = {Load(place.ws)} /\ ops = {}
      /\ saving = FALSE /\ typed = {} /\ replacing = FALSE /\ asOf = 0
  BY DEF WebInit, PanelInit
<1>6. saving \in BOOLEAN /\ loading \in BOOLEAN /\ ~saving /\ ~replacing
  BY <1>5
<1>7. asOf <= changes /\ changes <= MaxChanges
  BY <1>5, PanelAssumption DEF PanelAssumption
<1>8. PanelShape
  BY <1>5, <1>6, <1>7 DEF PanelShape
<1>. QED  BY <1>1, <1>4, <1>8 DEF RestInv

LEMMA RestNextInv == WebInv /\ RestInv /\ [WebNext]_webVars => RestInv'
<1>. SUFFICES ASSUME WebInv, RestInv, [WebNext]_webVars PROVE RestInv'
  OBVIOUS
<1>0. /\ ChatInv /\ TasksInv /\ PanelShape /\ FormShape /\ Forgotten
      /\ FormInv /\ PageInv /\ place \in Places /\ place.ws \in Workspaces
  BY DEF RestInv, WebInv, PageInv, Places
<1>1. ASSUME UNCHANGED place, PanelShape', FormShape', loads' = loads, loading' = loading,
             submitting' = submitting, ChatInv', TasksInv'
      PROVE  RestInv'
  BY <1>0, <1>1 DEF RestInv, Forgotten, On
<1>2. CASE UNCHANGED webVars
  <2>1. UNCHANGED <<place, chatVars, taskVars, panelVars, formVars>>
    BY <1>2 DEF webVars
  <2>2. TasksInv'
    BY <1>0, <2>1, TasksStay DEF taskVars
  <2>. QED  BY <1>0, <1>1, <2>1, <2>2, ChatStays, ShapeStays, FormShapeStays
<1>3. CASE ConversationStep
  <2>1. UNCHANGED <<place, panelVars, formVars>>
    BY <1>3 DEF ConversationStep
  <2>2. CASE ChatNext /\ UNCHANGED taskVars
    <3>1. ChatInv' /\ TasksInv'
      BY <1>0, <2>2, ChatNextInv, TasksStay DEF taskVars
    <3>. QED  BY <1>0, <1>1, <2>1, <3>1, ShapeStays, FormShapeStays
  <2>3. CASE CreateTaskFromChat
    <3>1. SubmitTask /\ CreateTask(place.ws, "written") /\ editing' = editing
      BY <2>3 DEF CreateTaskFromChat
    <3>2. TasksInv'
      BY <1>0, <3>1, CreateKeeps DEF Texts
    <3>. QED  BY <1>0, <1>1, <2>1, <3>1, <3>2, ChatNextInv, ShapeStays, FormShapeStays
  <2>. QED  BY <1>3, <2>2, <2>3 DEF ConversationStep
<1>4. CASE OverviewStep
  <2>1. UNCHANGED <<place, chatVars, formVars>> /\ On("overview")
    BY <1>4 DEF OverviewStep
  <2>2. ChatInv' /\ FormShape' /\ submitting' = submitting
    BY <1>0, <2>1, ChatStays, FormShapeStays
  <2>3. CASE TasksNext(place.ws) /\ UNCHANGED panelVars
    <3>1. TasksInv'
      BY <1>0, <2>3, TasksNextInv
    <3>. QED  BY <1>0, <1>1, <2>1, <2>2, <2>3, <3>1, ShapeStays
  <2>4. CASE PanelNext(place.ws) /\ UNCHANGED taskVars
    <3>1. PanelInv(place.ws)
      BY <1>0, <2>1 DEF PageInv
    <3>2. PanelShape'
      BY <1>0, <2>4, <3>1, PanelNextShape
    <3>3. TasksInv'
      BY <1>0, <2>4, TasksStay DEF taskVars
    <3>4. Forgotten'
      BY <1>0, <2>1, <2>2 DEF Forgotten, On
    <3>. QED  BY <2>2, <3>2, <3>3, <3>4 DEF RestInv
  <2>. QED  BY <1>4, <2>3, <2>4 DEF OverviewStep
<1>5. CASE FormStep \/ RequestFails
  <2>1. UNCHANGED <<place, chatVars, taskVars, panelVars>>
    BY <1>5 DEF FormStep, RequestFails
  <2>2. TasksInv' /\ ChatInv' /\ PanelShape' /\ loads' = loads /\ loading' = loading
    BY <1>0, <2>1, TasksStay, ChatStays, ShapeStays DEF taskVars
  <2>3. FormShape' /\ (On("create") \/ submitting' = FALSE)
    <3>1. CASE FormStep
      BY <1>0, <3>1, FormShapeNext DEF FormStep
    <3>2. CASE RequestFails
      <4>1. CreateFails
        BY <3>2 DEF RequestFails
      <4>2. On("create") \/ submitting' = FALSE
        BY <1>0, <4>1 DEF CreateFails, Forgotten
      <4>. QED  BY <1>0, <4>1, <4>2, RequestShape
    <3>. QED  BY <1>5, <3>1, <3>2
  <2>4. Forgotten'
    BY <1>0, <2>1, <2>2, <2>3 DEF Forgotten, On
  <2>. QED  BY <2>2, <2>3, <2>4 DEF RestInv
<1>6. CASE OpenForm
  <2>1. LeaveOverview /\ LeaveConversation /\ UNCHANGED formVars
        /\ place' = [place EXCEPT !.page = "create"]
    BY <1>6 DEF OpenForm
  <2>2. On("create")'
    BY <1>0, <2>1 DEF On, Places
  <2>3. Forgotten'
    BY <2>1, <2>2, PanelLeft DEF Forgotten
  <2>. QED  BY <1>0, <2>1, <2>3, PanelLeft, ChatLeft, FormShapeStays DEF RestInv
<1>7. ASSUME NEW w \in Workspaces, OpenConversation(w) PROVE RestInv'
  <2>1. LeaveOverview /\ LeaveForm /\ UNCHANGED chatVars
    BY <1>7 DEF OpenConversation
  <2>2. PanelShape' /\ loads' = {} /\ loading' = TRUE /\ TasksInv'
    BY <2>1, PanelLeft
  <2>3. FormShape' /\ submitting' = FALSE
    BY <2>1, ShapeLeft
  <2>4. Forgotten'
    BY <2>2, <2>3 DEF Forgotten
  <2>. QED  BY <1>0, <2>1, <2>2, <2>3, <2>4, ChatStays DEF RestInv
<1>8. ASSUME NEW w \in Workspaces, OpenOverview(w) PROVE RestInv'
  <2>1. OverviewOf(w) /\ LeaveForm
    BY <1>8 DEF OpenOverview
  <2>2. ChatInv' /\ TasksInv' /\ PanelShape' /\ On("overview")'
    BY <1>0, <2>1, ShapeOverview
  <2>3. FormShape' /\ submitting' = FALSE
    BY <2>1, ShapeLeft
  <2>4. Forgotten'
    BY <2>2, <2>3 DEF Forgotten
  <2>. QED  BY <2>2, <2>3, <2>4 DEF RestInv
<1>9. ASSUME NEW w \in Workspaces, FormSucceeds(w) PROVE RestInv'
  <2>1. OverviewOf(w) /\ Created
    BY <1>9 DEF FormSucceeds
  <2>2. ChatInv' /\ TasksInv' /\ PanelShape' /\ On("overview")'
    BY <1>0, <2>1, ShapeOverview
  <2>3. creates' \in Nat
    BY <1>0, <2>1 DEF Created, FormShape
  <2>4. FormShape' /\ submitting' = FALSE
    <3>1. CASE On("create")
      <4>1. /\ source' = "existing" /\ mode' = "new"
            /\ picking' = FALSE /\ named' = FALSE /\ incomplete' = FALSE
            /\ reading' = FALSE /\ refused' = FALSE /\ submitting' = FALSE
        BY <1>9, <3>1 DEF FormSucceeds
      <4>2. /\ picking' \in BOOLEAN /\ named' \in BOOLEAN /\ incomplete' \in BOOLEAN
            /\ reading' \in BOOLEAN /\ refused' \in BOOLEAN /\ submitting' \in BOOLEAN
            /\ ~submitting'
        BY <4>1
      <4>. QED  BY <2>3, <4>1, <4>2 DEF FormShape
    <3>2. CASE ~On("create")
      <4>1. UNCHANGED <<source, picking, mode, named, incomplete, reading, refused, submitting>>
        BY <1>9, <3>2 DEF FormSucceeds, choice, fetch
      <4>2. submitting' = FALSE
        BY <1>0, <3>2, <4>1 DEF Forgotten
      <4>3. submitting' \in BOOLEAN /\ ~submitting'
        BY <4>2
      <4>4. /\ source' \in {"existing", "new"} /\ mode' \in {"new", "existing"}
            /\ picking' \in BOOLEAN /\ named' \in BOOLEAN /\ incomplete' \in BOOLEAN
            /\ reading' \in BOOLEAN /\ refused' \in BOOLEAN
        BY <1>0, <4>1 DEF FormShape
      <4>. QED  BY <2>3, <4>2, <4>3, <4>4 DEF FormShape
    <3>. QED  BY <3>1, <3>2
  <2>5. Forgotten'
    BY <2>2, <2>4 DEF Forgotten
  <2>. QED  BY <2>2, <2>4, <2>5 DEF RestInv
<1>. QED  BY <1>2, <1>3, <1>4, <1>5, <1>6, <1>7, <1>8, <1>9 DEF WebNext

(* The two go together: what the first needs of no other, the second of it.  *)
THEOREM PagesInductive == WebSpec => [](WebInv /\ RestInv)
<1>1. WebInit => WebInv /\ RestInv
  BY WebInitInv, RestInitInv
<1>2. WebInv /\ RestInv /\ [WebNext]_webVars => (WebInv /\ RestInv)'
  BY WebNextInv, RestNextInv
<1>. QED  BY <1>1, <1>2, PTL DEF WebSpec

(* The pages keep their types: among them that the context tray and the task
   mode are never on together, that the panel is loading while a load of it
   stands, that it is saving as long as its save is under way, and that a form
   says it submits only while a request does.                              *)
THEOREM PagesTypeCorrect == WebSpec => []WebTypeOK
<1>1. WebInv /\ RestInv => WebTypeOK
  <2>. SUFFICES ASSUME WebInv, RestInv PROVE WebTypeOK
    OBVIOUS
  <2>1. PanelTypes /\ place \in Places /\ FormInv
    BY DEF WebInv, PageInv, PanelInv
  <2>. QED  BY <2>1, PanelTyped, FormTyped, TasksTyped DEF RestInv, ChatInv, WebTypeOK
<1>. QED  BY <1>1, PagesInductive, PTL

(* Nothing said is hidden and nothing shown twice, however long the
   conversation, and however often a fresh one was started, a past one viewed
   and the page left (useConversationContexts: startFresh).                *)
THEOREM ConversationWhole == WebSpec => []NothingHidden
<1>1. RestInv => NothingHidden
  BY ToldIsAll DEF RestInv
<1>. QED  BY <1>1, PagesInductive, PTL

(* Of all the activities of a conversation, at most one is shown at work, or one
   is about to be, and none unless the session works, whatever the messages are
   (buildConversationFeed, activityRunState, showStartingActivity).        *)
THEOREM ActivityAlone == WebSpec => []OneActivityWorks
<1>1. RestInv => OneActivityWorks
  <2>. SUFFICES ASSUME RestInv PROVE OneActivityWorks
    OBVIOUS
  <2>1. messages \in Seq(MessageSet) /\ start \in 0..Len(messages)
    BY DEF RestInv, ChatInv, ChatTypeOK
  <2>. QED  BY <2>1, OneWorks
<1>. QED  BY <1>1, PagesInductive, PTL

(* Whatever order requests, interruptions, calls and answers come in, and though
   a later request uses the id of an earlier call again, every conversation,
   the current one and the past ones, is shown with each text once and in
   order, each command in the activity it was asked for in, with its own
   output, and each activity closed or completed by the text that ended it, for
   any number of messages and call ids (buildConversationFeed).            *)
THEOREM FeedFaithful == WebSpec => []FeedIsFaithful
<1>1. WebInit => Ordered(messages)
  <2>1. WebInit => messages = <<>>
    BY DEF WebInit, ChatInit
  <2>. QED  BY <2>1, EmptyOrdered
<1>2. Ordered(messages) /\ [WebNext]_webVars => Ordered(messages)'
  <2>. SUFFICES ASSUME Ordered(messages), [WebNext]_webVars PROVE Ordered(messages')
    OBVIOUS
  <2>. QED  BY MessagesGo, ComesOrdered, EmptyOrdered
<1>3. WebInv /\ RestInv /\ Ordered(messages) => FeedIsFaithful
  <2>. SUFFICES ASSUME RestInv, Ordered(messages) PROVE FeedIsFaithful
    OBVIOUS
  <2>1. Orderly(Displayed)
    BY ShownOrderly DEF RestInv, Ordered
  <2>. QED  BY <2>1, FeedIsOf DEF FeedIsFaithful
<1>. QED  BY <1>1, <1>2, <1>3, PagesInductive, PTL DEF WebSpec

(* A task stays in the workspace it was created in, once, until it is deleted
   there, for any number of workspaces and tasks, also when the editor it is
   open in has come to be about another workspace (WorkspaceTasksPanel).    *)
THEOREM TasksCorrect == WebSpec => []TasksStayPut
<1>1. RestInv => TasksStayPut
  BY PutOK DEF RestInv
<1>. QED  BY <1>1, PagesInductive, PTL
=============================================================================
