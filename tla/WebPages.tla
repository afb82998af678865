------------------------------- MODULE WebPages -------------------------------
(***************************************************************************)
(* The pages that are about one workspace or create one, and the tasks they   *)
(* share (web/src/app/WorkspaceApplication.tsx): the conversation page, whose  *)
(* composer creates tasks, the overview, which edits them, and the creation   *)
(* form.  A page that is left loses its state and the tasks stay; the overview *)
(* of one workspace becomes that of another without being left.              *)
(***************************************************************************)
EXTENDS ChatPanel, OverviewPage, CreationForm

VARIABLE place      \* the page shown, and its workspace

webVars == <<place, chatVars, taskVars, panelVars, formVars>>

Places == [page : {"conversation", "overview", "create"}, ws : Workspaces]
On(page) == place.page = page

-----------------------------------------------------------------------------
(* The panels of the overview, whose editor and loads go with the page.      *)
LeaveOverview == IF On("overview") THEN EditorUnmounted /\ PanelUnmounted
                 ELSE UNCHANGED <<taskVars, panelVars>>
LeaveConversation == IF On("conversation") THEN ChatUnmounted ELSE UNCHANGED chatVars
LeaveForm == IF On("create") THEN FormUnmounted /\ source' = "existing" ELSE UNCHANGED formVars

OpenConversation(w) ==
    /\ ~On("conversation") /\ place' = [page |-> "conversation", ws |-> w]
    /\ LeaveOverview /\ LeaveForm /\ UNCHANGED chatVars

OpenForm ==
    /\ ~On("create") /\ place' = [place EXCEPT !.page = "create"]
    /\ LeaveOverview /\ LeaveConversation /\ UNCHANGED formVars

OverviewOf(w) ==
    /\ place' = [page |-> "overview", ws |-> w] /\ LeaveConversation
    /\ IF On("overview") THEN ShowWorkspace(w) ELSE PanelMounted(w)
    /\ UNCHANGED taskVars

OpenOverview(w) ==
    /\ place # [page |-> "overview", ws |-> w]
    /\ OverviewOf(w) /\ LeaveForm

(* A create request that succeeds opens the overview of its workspace, from
   whichever page the user has gone to.                                    *)
FormSucceeds(w) ==
    /\ Created
    /\ place # [page |-> "overview", ws |-> w] /\ OverviewOf(w)
    /\ IF On("create")
       THEN /\ repository' = None /\ picking' = FALSE /\ offered' = None
            /\ base' = None /\ existing' = None /\ mode' = "new"
            /\ named' = FALSE /\ incomplete' = FALSE
            /\ reading' = FALSE /\ reads' = {} /\ refused' = FALSE
            /\ submitting' = FALSE /\ source' = "existing"
       ELSE UNCHANGED <<source, repository, picking, choice, fetch, submitting>>

-----------------------------------------------------------------------------
(* onCreateTask of the conversation page.                                   *)
CreateTaskFromChat ==
    /\ SubmitTask /\ CreateTask(place.ws, "written")
    /\ UNCHANGED editing

ConversationStep ==
    /\ On("conversation")
    /\ \/ ChatNext /\ UNCHANGED taskVars
       \/ CreateTaskFromChat
    /\ UNCHANGED <<place, panelVars, formVars>>

OverviewStep ==
    /\ On("overview")
    /\ \/ TasksNext(place.ws) /\ UNCHANGED panelVars
       \/ PanelNext(place.ws) /\ UNCHANGED taskVars
    /\ UNCHANGED <<place, chatVars, formVars>>

FormStep ==
    /\ On("create") /\ FormNext
    /\ UNCHANGED <<place, chatVars, taskVars, panelVars>>

(* The request of a form that is gone goes on.                                *)
RequestFails == CreateFails /\ UNCHANGED <<place, chatVars, taskVars, panelVars>>

WebInit ==
    /\ place \in {p \in Places : p.page = "overview"}
    /\ ChatInit /\ TasksInit /\ PanelInit(place.ws) /\ FormInit

WebNext ==
    \/ ConversationStep \/ OverviewStep \/ FormStep \/ RequestFails
    \/ OpenForm
    \/ \E w \in Workspaces : OpenConversation(w) \/ OpenOverview(w) \/ FormSucceeds(w)

WebSpec == WebInit /\ [][WebNext]_webVars

-----------------------------------------------------------------------------
WebTypeOK ==
    /\ place \in Places
    /\ ChatTypeOK /\ TasksTypeOK /\ PanelTypeOK /\ FormTypeOK

(* The panel of the overview of a workspace that has come to rest.           *)
EnvironmentShown == On("overview") => EnvironmentShownIsStored(place.ws)
=============================================================================
