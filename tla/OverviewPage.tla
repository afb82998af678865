----------------------------- MODULE OverviewPage -----------------------------
(***************************************************************************)
(* The overview page of a workspace: its tasks, and its variables (web/src/   *)
(* inspector/EnvironmentPanel.tsx) with the requests they send (internal/     *)
(* webapp/handlers.go, session_handlers.go).  The panels stay when the page   *)
(* comes to be about another workspace; a request and its answer are one step, *)
(* of which the server's part may take place and the answer be lost.          *)
(***************************************************************************)
EXTENDS WorkspaceTasks

CONSTANTS Variables,
          MaxLoads,     \* bound on the reads of the effect under way
          MaxOps,       \* bound on the changes under way
          MaxChanges    \* bound on the changes made

ASSUME PanelAssumption == {MaxLoads, MaxOps, MaxChanges} \subseteq Nat

VARIABLES
    stored,     \* server: the names each workspace has
    changes,    \* server: the changes made so far
    listed,     \* state "variables"
    loading,    \* state "loading"
    loads,      \* the reads of the effect, and whether it still stands
    ops,        \* the calls of submit and remove under way
    saving,     \* state "saving"
    typed,      \* the name in the form, if any
    replacing,  \* the form is for a variable there is (editingName)
    asOf,       \* history: the latest reading shown
    tangled,    \* history: the page shows an answer out of turn
    owed        \* history: a change nothing will make the page read

panelVars == <<stored, changes, listed, loading, loads, ops, saving, typed, replacing,
               asOf, tangled, owed>>
form == <<saving, typed, replacing>>
past == <<asOf, tangled, owed>>

Load(w) == [ws |-> w, current |-> TRUE, answered |-> FALSE, items |-> {}, at |-> 0]
Op(kind, w, v) == [kind |-> kind, ws |-> w, name |-> v, phase |-> "request",
                   items |-> {}, at |-> 0]

FormReset == typed' = {} /\ replacing' = FALSE

-----------------------------------------------------------------------------
(* The effect on workspace.id.                                              *)
ShowWorkspace(w) ==
    /\ FormReset /\ UNCHANGED saving
    /\ listed' = {} /\ loading' = TRUE
    /\ loads' = {[l EXCEPT !.current = FALSE] : l \in loads} \cup {Load(w)}
    /\ Cardinality(loads') <= MaxLoads
    /\ asOf' = 0 /\ tangled' = FALSE /\ owed' = FALSE
    /\ UNCHANGED <<stored, changes, ops>>

(* A reading of the shown workspace has every change in it so far.           *)
Reads(w, shown) == owed' = (owed /\ w # shown)

AnswerLoad(l, shown) ==
    /\ ~l.answered
    /\ loads' = (loads \ {l}) \cup
         {[l EXCEPT !.answered = TRUE, !.items = stored[l.ws], !.at = changes]}
    /\ IF l.current THEN Reads(l.ws, shown) ELSE UNCHANGED owed
    /\ UNCHANGED <<stored, changes, listed, loading, ops, form, asOf, tangled>>

Displays(w, items, at, shown) ==
    /\ listed' = items
    /\ tangled' = (w # shown \/ at < asOf)
    /\ asOf' = IF at > asOf THEN at ELSE asOf

TakeLoad(l, shown) ==
    /\ l.answered /\ loads' = loads \ {l}
    /\ IF l.current THEN Displays(l.ws, l.items, l.at, shown) /\ loading' = FALSE
       ELSE UNCHANGED <<listed, tangled, asOf, loading>>
    /\ UNCHANGED <<stored, changes, ops, form, owed>>

FailLoad(l) ==
    /\ ~l.answered /\ loads' = loads \ {l}
    /\ loading' = (loading /\ ~l.current) /\ owed' = (owed \/ l.current)
    /\ UNCHANGED <<stored, changes, listed, ops, form, asOf, tangled>>

-----------------------------------------------------------------------------
(* The form and the rows, on the page of workspace w.  They are locked and
   unlocked with the sessions and the status, at any time: a step that is not
   taken.                                                                  *)

TypeName(v) ==
    /\ ~replacing
    /\ typed' = IF typed = {v} THEN {} ELSE {v}
    /\ UNCHANGED <<stored, changes, listed, loading, loads, ops, saving, replacing, past>>

ReplaceVariable(v) ==
    /\ ~loading /\ v \in listed
    /\ typed' = {v} /\ replacing' = TRUE
    /\ UNCHANGED <<stored, changes, listed, loading, loads, ops, saving, past>>

Cancel ==
    /\ replacing /\ FormReset
    /\ UNCHANGED <<stored, changes, listed, loading, loads, ops, saving, past>>

Start(op) == op \notin ops /\ Cardinality(ops) < MaxOps /\ ops' = ops \cup {op}

Submit(w) ==
    /\ ~saving
    /\ \E v \in typed : Start(Op("upsert", w, v))
    /\ saving' = TRUE
    /\ UNCHANGED <<stored, changes, listed, loading, loads, typed, replacing, past>>

RemoveVariable(w, v) ==
    /\ ~loading /\ v \in listed
    /\ Start(Op("delete", w, v))
    /\ UNCHANGED <<stored, changes, listed, loading, loads, form, past>>

-----------------------------------------------------------------------------
(* A change, and the reload after it, which nothing withdraws.               *)

Change(op) ==
    /\ changes < MaxChanges /\ changes' = changes + 1
    /\ stored' = [stored EXCEPT ![op.ws] = IF op.kind = "upsert" THEN @ \cup {op.name}
                                           ELSE @ \ {op.name}]

ReloadsIfSaved(op) == IF op.kind = "upsert" THEN {[op EXCEPT !.phase = "reload"]} ELSE {}
Reloads(op) == {[op EXCEPT !.phase = "reload"]}

(* finally: of submit only.                                                 *)
SavingAfter(op) == saving' = (saving /\ op.kind # "upsert")

Changed(op) ==
    /\ op.phase = "request" /\ (op.kind = "delete" => op.name \in stored[op.ws])
    /\ Change(op)
    /\ ops' = (ops \ {op}) \cup Reloads(op)
    /\ FormReset
    /\ UNCHANGED <<listed, loading, loads, saving, past>>

(* Another browser, or a request of a panel that is gone.                     *)
ChangedElsewhere(shown) ==
    /\ \E w \in Workspaces, v \in Variables, kind \in {"upsert", "delete"} :
          Change(Op(kind, w, v)) /\ owed' = (owed \/ w = shown)
    /\ UNCHANGED <<listed, loading, loads, ops, form, asOf, tangled>>

(* Refused, lost, or carried out and its answer lost.                        *)
OpFails(op, shown) ==
    /\ op.phase \in {"request", "reload"}
    /\ ops' = ops \ {op} /\ SavingAfter(op)
    /\ \/ op.phase = "request" /\ UNCHANGED <<stored, changes, owed>>
       \/ op.phase = "request" /\ Change(op) /\ owed' = (owed \/ op.ws = shown)
       \/ op.phase = "reload" /\ UNCHANGED <<stored, changes>> /\ owed' = (owed \/ op.ws = shown)
    /\ UNCHANGED <<listed, loading, loads, typed, replacing, asOf, tangled>>

AnswerReload(op, shown) ==
    /\ op.phase = "reload"
    /\ ops' = (ops \ {op}) \cup
         {[op EXCEPT !.phase = "reloaded", !.items = stored[op.ws], !.at = changes]}
    /\ Reads(op.ws, shown)
    /\ UNCHANGED <<stored, changes, listed, loading, loads, form, asOf, tangled>>

TakeReload(op, shown) ==
    /\ op.phase = "reloaded" /\ ops' = ops \ {op}
    /\ Displays(op.ws, op.items, op.at, shown) /\ SavingAfter(op)
    /\ UNCHANGED <<stored, changes, loading, loads, typed, replacing, owed>>

-----------------------------------------------------------------------------
PanelInit(shown) ==
    /\ stored \in [Workspaces -> SUBSET Variables] /\ changes = 0
    /\ listed = {} /\ loading = TRUE /\ loads = {Load(shown)} /\ ops = {}
    /\ saving = FALSE /\ typed = {} /\ replacing = FALSE
    /\ asOf = 0 /\ tangled = FALSE /\ owed = FALSE

(* The panel goes with its page: what is under way changes no page any more.
   The variables are forgotten, and any when there is a panel again.          *)
PanelUnmounted ==
    /\ stored' = [w \in Workspaces |-> {}] /\ changes' = 0
    /\ listed' = {} /\ loading' = TRUE /\ loads' = {} /\ ops' = {}
    /\ saving' = FALSE /\ FormReset
    /\ asOf' = 0 /\ tangled' = FALSE /\ owed' = FALSE

PanelMounted(w) ==
    /\ stored' \in [Workspaces -> SUBSET Variables]
    /\ loads' = {Load(w)}
    /\ UNCHANGED <<changes, listed, loading, ops, form, past>>

PanelNext(shown) ==
    \/ Submit(shown) \/ Cancel \/ ChangedElsewhere(shown)
    \/ \E v \in Variables : TypeName(v) \/ ReplaceVariable(v) \/ RemoveVariable(shown, v)
    \/ \E l \in loads : AnswerLoad(l, shown) \/ TakeLoad(l, shown) \/ FailLoad(l)
    \/ \E op \in ops : \/ Changed(op) \/ OpFails(op, shown)
                       \/ AnswerReload(op, shown) \/ TakeReload(op, shown)

PanelTypeOK ==
    /\ stored \in [Workspaces -> SUBSET Variables] /\ listed \subseteq Variables
    /\ loading \in BOOLEAN /\ ((\E l \in loads : l.current) => loading)
    /\ typed \subseteq Variables /\ Cardinality(typed) <= 1 /\ (replacing => typed # {})
    /\ saving = (\E op \in ops : op.kind = "upsert")
    /\ asOf \in 0..MaxChanges

(* A panel at rest lists the variables its workspace has, whatever was saved,
   replaced and deleted meanwhile and whichever workspace it was about before,
   unless an answer came out of turn or a request or a reading was lost.      *)
PanelAtRest == loads = {} /\ ops = {}
EnvironmentShownIsStored(shown) ==
    PanelAtRest /\ ~tangled /\ ~owed => listed = stored[shown]
=============================================================================
