----------------------------- MODULE CreationForm -----------------------------
(***************************************************************************)
(* The page that creates a workspace (web/src/workspaces: WorkspaceHome,      *)
(* ExistingProjectForm, NewProjectForm, RepositoryPicker, BranchSelection,    *)
(* CreationEnvironment, WorkspaceSetupSummary).  The branches of a repository *)
(* are read when it is chosen; the answers come in any order.                *)
(***************************************************************************)
EXTENDS Naturals, FiniteSets

CONSTANTS Repositories, None,
          BranchesOf,   \* the names the branches of a repository are answered with
          DefaultOf,    \* its default branch, which may not be one of them: the
                        \* answer is one page, and a repository may be empty
          MaxReads,     \* bound on the reads of branches under way
          MaxCreates    \* bound on the create requests under way

ASSUME FormAssumption ==
    /\ None \notin Repositories
    /\ \A r \in Repositories : None \notin BranchesOf[r]
    /\ MaxReads \in Nat /\ MaxCreates \in Nat

VARIABLES
    source,     \* the form shown: an existing repository, or a new project
    repository, \* the repository chosen
    picking,    \* RepositoryPicker: "editing"
    offered,    \* state "branches", as the repository they are of
    base,       \* baseBranch
    existing,   \* existingBranch
    mode,       \* branchMode
    named,      \* the fields a name must be put in have one
    incomplete, \* a drafted variable lacks its name or its value
    reading,    \* branchesLoading
    reads,      \* the reads under way, and whether their effect still stands
    refused,    \* the read of the chosen repository failed
    submitting, \* the form's own request is under way
    creates     \* create requests under way, of forms that are gone too

formVars == <<source, repository, picking, offered, base, existing, mode, named,
              incomplete, reading, reads, refused, submitting, creates>>
choice == <<base, existing, mode, named, incomplete>>
fetch  == <<offered, reading, reads, refused>>
send   == <<submitting, creates>>

Names == IF offered = None THEN {} ELSE BranchesOf[offered]
DefaultBranch == IF repository = None THEN base ELSE DefaultOf[repository]

-----------------------------------------------------------------------------
(* The effect on the repository: it withdraws the read before, and leaves the
   branches and the choices until the new one is answered.                  *)

Withdrawn == {[read EXCEPT !.current = FALSE] : read \in reads}

ChooseRepository(r) ==
    /\ source = "existing" /\ (repository = None \/ picking)
    /\ picking' = FALSE /\ repository' = r
    /\ IF r = repository THEN UNCHANGED fetch
       ELSE /\ reads' = Withdrawn \cup {[of |-> r, current |-> TRUE]}
            /\ Cardinality(reads') <= MaxReads
            /\ reading' = TRUE /\ refused' = FALSE /\ UNCHANGED offered
    /\ UNCHANGED <<source, choice, send>>

ChangeRepository ==
    /\ source = "existing" /\ repository # None /\ ~picking
    /\ picking' = TRUE
    /\ UNCHANGED <<source, repository, choice, fetch, send>>

StandsAlways(read) == TRUE
Stands(read) == read.current

BranchesAnswered(read) ==
    /\ reads' = reads \ {read}
    /\ IF Stands(read)
       THEN /\ offered' = read.of /\ base' = DefaultOf[read.of] /\ existing' = None
            /\ reading' = FALSE /\ UNCHANGED refused
       ELSE UNCHANGED <<offered, base, existing, reading, refused>>
    /\ UNCHANGED <<source, repository, picking, mode, named, incomplete, send>>

BranchesFail(read) ==
    /\ reads' = reads \ {read}
    /\ reading' = (reading /\ ~Stands(read)) /\ refused' = (refused \/ Stands(read))
    /\ UNCHANGED <<source, repository, picking, offered, choice, send>>

-----------------------------------------------------------------------------
(* The fields.                                                             *)

SelectEnabled == source = "existing" /\ repository # None /\ ~reading

SelectBase ==
    /\ SelectEnabled /\ mode = "new" /\ base' \in (Names \cup {None}) \ {base}
    /\ UNCHANGED <<source, repository, picking, existing, mode, named, incomplete, fetch, send>>

SelectExisting ==
    /\ SelectEnabled /\ mode = "existing" /\ existing' \in (Names \cup {None}) \ {existing}
    /\ UNCHANGED <<source, repository, picking, base, mode, named, incomplete, fetch, send>>

ChangeMode ==
    /\ source = "existing" /\ mode' \in {"new", "existing"} \ {mode}
    /\ base' = IF mode' = "existing" THEN DefaultBranch ELSE base
    /\ UNCHANGED <<source, repository, picking, existing, named, incomplete, fetch, send>>

WriteName ==
    /\ source = "new" \/ mode = "new"
    /\ named' = ~named
    /\ UNCHANGED <<source, repository, picking, base, existing, mode, incomplete, fetch, send>>

EditVariables ==
    /\ incomplete' = ~incomplete
    /\ UNCHANGED <<source, repository, picking, base, existing, mode, named, fetch, send>>

-----------------------------------------------------------------------------
(* The form starts over when the other one is shown and when the page is left;
   its requests go on.                                                     *)
FormUnmounted ==
    /\ repository' = None /\ picking' = FALSE /\ offered' = None
    /\ base' = None /\ existing' = None /\ mode' = "new"
    /\ named' = FALSE /\ incomplete' = FALSE
    /\ reading' = FALSE /\ reads' = {} /\ refused' = FALSE
    /\ submitting' = FALSE /\ UNCHANGED creates

ChangeSource ==
    /\ source' \in {"existing", "new"} \ {source}
    /\ FormUnmounted

(* canSubmit, the disabled button and the required fields of the form: a list
   that does not offer what was chosen shows that nothing is.                *)
CanSubmit ==
    /\ ~incomplete /\ ~submitting
    /\ \/ source = "new" /\ named
       \/ source = "existing" /\ repository # None /\ mode = "new" /\ named
          /\ (SelectEnabled => base \in Names)
       \/ source = "existing" /\ repository # None /\ mode = "existing" /\ existing # None
          /\ (SelectEnabled => existing \in Names)

SubmitForm ==
    /\ CanSubmit /\ creates < MaxCreates
    /\ submitting' = TRUE /\ creates' = creates + 1
    /\ UNCHANGED <<source, repository, picking, choice, fetch>>

(* A request that fails, or whose refresh does, leaves the form as it was; the
   caller goes to the workspace of one that does not.                       *)
CreateFails ==
    /\ creates > 0 /\ creates' = creates - 1
    /\ submitting' \in IF submitting /\ creates = 1 THEN {FALSE} ELSE {submitting, FALSE}
    /\ UNCHANGED <<source, repository, picking, choice, fetch>>

Created == creates > 0 /\ creates' = creates - 1

-----------------------------------------------------------------------------
FormInit ==
    /\ source = "existing" /\ repository = None /\ picking = FALSE /\ offered = None
    /\ base = None /\ existing = None /\ mode = "new" /\ named = FALSE /\ incomplete = FALSE
    /\ reading = FALSE /\ reads = {} /\ refused = FALSE
    /\ submitting = FALSE /\ creates = 0

FormNext == \/ ChangeRepository \/ SelectBase \/ SelectExisting \/ ChangeMode
            \/ WriteName \/ EditVariables \/ ChangeSource \/ SubmitForm
            \/ \E r \in Repositories : ChooseRepository(r)
            \/ \E read \in reads : BranchesAnswered(read) \/ BranchesFail(read)

FormTypeOK ==
    /\ source \in {"existing", "new"} /\ mode \in {"new", "existing"}
    /\ repository \in Repositories \cup {None} /\ offered \in Repositories \cup {None}
    /\ reads \subseteq [of : Repositories, current : BOOLEAN]
    /\ {picking, named, incomplete, reading, refused, submitting} \subseteq BOOLEAN
    /\ submitting => creates > 0

(* When the branches of the chosen repository are there, all the form holds is
   of that repository, one of its branches or its default one, though the
   choice was changed while others were being read and whichever answer came
   last.  It does not hold before they are there nor once their read has failed:
   the choices of the repository before stay.                                *)
AnsweredBranchesFit ==
    repository # None /\ ~reading /\ ~refused =>
        /\ offered = repository
        /\ base \in BranchesOf[repository] \cup {DefaultOf[repository], None}
        /\ existing \in BranchesOf[repository] \cup {None}
=============================================================================
