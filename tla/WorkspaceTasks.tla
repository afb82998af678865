---------------------------- MODULE WorkspaceTasks ----------------------------
(***************************************************************************)
(* The tasks a page keeps for its workspaces (app/WorkspaceApplication.tsx)   *)
(* and the editor of the overview (workspaces/WorkspaceTasksPanel.tsx).  The  *)
(* editor outlives a change of workspace under it: it is not keyed by it.    *)
(***************************************************************************)
EXTENDS Naturals, Sequences, FiniteSets, SequencesExt

CONSTANTS Workspaces,
          MaxTasks      \* bound on the tasks ever created

ASSUME TasksAssumption == MaxTasks \in Nat

VARIABLES
    tasks,      \* tasksByWorkspace
    editing,    \* the task in the editor, "new" as a task without id, or none
    homes,      \* history: the workspace each task was created in
    gone        \* history: the tasks deleted in the workspace they are of

taskVars == <<tasks, editing, homes, gone>>

Texts   == {"template", "written"}
Task(id, text) == [id |-> id, text |-> text]
NewTask == {Task(0, "template")}
NoTask  == {}

(* createTask: its id is the time and the number of tasks, never used before. *)
CreateTask(w, text) ==
    /\ Len(homes) < MaxTasks
    /\ tasks' = [tasks EXCEPT ![w] = Append(@, Task(Len(homes) + 1, text))]
    /\ homes' = Append(homes, w)
    /\ UNCHANGED gone

UpdateOrAdd(w, task) ==
    tasks' = [tasks EXCEPT ![w] =
                  IF \E i \in DOMAIN @ : @[i].id = task.id
                  THEN [i \in DOMAIN @ |-> IF @[i].id = task.id THEN task ELSE @[i]]
                  ELSE Append(@, task)]
UpdateTask(w, task) ==
    tasks' = [tasks EXCEPT ![w] = [i \in DOMAIN @ |-> IF @[i].id = task.id THEN task ELSE @[i]]]

(* filter, task after task.                                                 *)
Kept(before, task, id) == IF task.id = id THEN before ELSE Append(before, task)
Without(list, id) == FoldLeft(LAMBDA before, task : Kept(before, task, id), <<>>, list)

DeleteTask(w, id) ==
    /\ tasks' = [tasks EXCEPT ![w] = Without(@, id)]
    /\ gone' = IF homes[id] = w THEN gone \cup {id} ELSE gone

-----------------------------------------------------------------------------
(* The editor, on the page of workspace w; what is typed in it is chosen when
   it is saved.                                                            *)

EditorCloses == editing' = NoTask

OpenTask(w) ==
    /\ editing = NoTask
    /\ \E i \in DOMAIN tasks[w] : editing' = {tasks[w][i]}
    /\ UNCHANGED <<tasks, homes, gone>>

OpenNew ==
    /\ editing = NoTask /\ editing' = NewTask
    /\ UNCHANGED <<tasks, homes, gone>>

CloseEditor == editing # NoTask /\ EditorCloses /\ UNCHANGED <<tasks, homes, gone>>

SaveTask(w) ==
    /\ editing # NoTask
    /\ \E task \in editing, text \in Texts :
          IF editing = NewTask THEN CreateTask(w, text)
          ELSE UpdateTask(w, [task EXCEPT !.text = text]) /\ UNCHANGED <<homes, gone>>
    /\ EditorCloses

RemoveTask(w) ==
    /\ editing \notin {NoTask, NewTask}
    /\ \E task \in editing : DeleteTask(w, task.id)
    /\ EditorCloses
    /\ UNCHANGED homes

-----------------------------------------------------------------------------
TasksInit ==
    /\ tasks = [w \in Workspaces |-> <<>>]
    /\ editing = NoTask
    /\ homes = <<>> /\ gone = {}

(* The editor goes with its page, the tasks stay.                           *)
EditorUnmounted == EditorCloses /\ UNCHANGED <<tasks, homes, gone>>

TasksNext(w) == \/ OpenTask(w) \/ OpenNew \/ CloseEditor
                \/ SaveTask(w) \/ RemoveTask(w)

TasksTypeOK ==
    /\ \A w \in Workspaces : \A i \in DOMAIN tasks[w] : tasks[w][i].text \in Texts
    /\ Cardinality(editing) <= 1
    /\ homes \in Seq(Workspaces) /\ gone \subseteq DOMAIN homes

(* A task stays in the workspace it was created in, once, until it is deleted
   there, and does not come back: also when the editor it is open in has come
   to be about another workspace before it is saved or deleted.            *)
TasksStayPut ==
    \A w \in Workspaces :
        LET ids == [i \in DOMAIN tasks[w] |-> tasks[w][i].id]
        IN IsInjective(ids) /\ ToSet(ids) = {id \in DOMAIN homes : homes[id] = w} \ gone
=============================================================================
