------------------------------ MODULE Projects ------------------------------
(***************************************************************************)
(* The workspace and the projects of an account (app/modules/projects),    *)
(* without their runs (Pipeline) and without the single specs of a         *)
(* campaign (CreativeAssets): handlers in threads, with a transaction      *)
(* each, read, change and store rows while others do, and the account may  *)
(* be deleted under them.  A campaign of an earlier release has no ids for *)
(* its specs; whoever reads it first gives it some.                        *)
(***************************************************************************)
EXTENDS FiniteSets

CONSTANTS
  Calls,      \* the handlers that may run
  PatchFields,    \* the columns of ProjectPatch
  Texts       \* bound: what a column can contain

None == "none"          \* a field that is left out; no ids
Fields == PatchFields \cup {"onboarding_answers"}

VARIABLES
  account,    \* is the row of the user there, and with it a workspace and a project?
  made,       \* the calls whose workspace, project or export job is stored
  project,    \* the columns of the project
  document,   \* is the document of the project stored?
  ids,        \* the call that has made up the ids of the specs, None for none
  call        \* the calls

rows == <<account, made, project, document, ids>>
vars == <<rows, call>>

Operations == {"workspace", "project", "look", "update", "onboard", "upload", "remove",
               "export", "campaign", "preview", "edit", "close"}
Results == {"fine", "unauthorized", "not_found", "crash"}
ProjectRow == [Fields -> Texts]
Form == [Fields -> Texts \cup {None}]

\* seen, ids: the columns and the ids as it has read or made them up; given, copy: the
\* form of a change and the ids in the campaign the client sends; ended: the calls that
\* had ended before it came in.
Call == [at : {"idle", "read", "backfill", "check", "write", "end"}, op : Operations,
         given : Form, copy : Calls \cup {None}, seen : ProjectRow, ids : Calls \cup {None},
         ended : SUBSET Calls, result : Results]
Blank == [f \in Fields |-> CHOOSE t \in Texts : TRUE]
Idle == [at |-> "idle", op |-> "look", given |-> [f \in Fields |-> None], copy |-> None,
         seen |-> Blank, ids |-> None, ended |-> {}, result |-> "fine"]

Init ==
  /\ account = TRUE /\ made = {} /\ project = Blank /\ document = TRUE /\ ids = None
  /\ call = [c \in Calls |-> Idle]

-----------------------------------------------------------------------------
At(c, step) == call[c].at = step
Is(c, ops) == call[c].op \in ops
Goes(c, step) == call' = [call EXCEPT ![c].at = step]
Ends(c, result) ==
  call' = [call EXCEPT ![c].at = "end", ![c].result = result, ![c].seen = Blank]
Keeps(c, result) == Ends(c, result) /\ UNCHANGED rows

\* What a client can have got: the ids of earlier answers, or none.
Copies == {None} \cup {call[d].ids : d \in {e \in Calls : At(e, "end")}}

\* update_project changes the columns a patch names, submit_onboarding the answers.
Forms(op) ==
  CASE op = "update" -> {g \in Form : g["onboarding_answers"] = None}
    [] op = "onboard" -> {g \in Form : \A f \in Fields : (f = "onboarding_answers") = (g[f] # None)}
    [] OTHER -> {Idle.given}

\* A request reaches its handler.
Begin(c) ==
  /\ At(c, "idle")
  /\ \E op \in Operations : \E given \in Forms(op) : \E copy \in Copies :
       /\ op # "edit" => copy = None
       /\ call' = [call EXCEPT ![c] =
                     [Idle EXCEPT !.at = "read", !.op = op, !.given = given, !.copy = copy,
                                  !.ended = {d \in Calls : At(d, "end")}]]
  /\ UNCHANGED rows

\* The ids in the path are another user's, or nobody's.
Stray(c) ==
  /\ At(c, "read") /\ ~Is(c, {"workspace", "close"})
  /\ Keeps(c, "not_found")

\* get_project, which looks at the owner of the workspace; the storage helper then
\* refuses the arguments of upload_document.
Find(c) ==
  /\ At(c, "read") /\ Is(c, {"project", "look", "update", "onboard", "upload", "remove", "export"})
  /\ IF ~account \/ (Is(c, {"remove"}) /\ ~document) THEN Ends(c, "not_found")
     ELSE IF Is(c, {"look"}) THEN Ends(c, "fine")
     ELSE IF Is(c, {"upload"}) THEN Ends(c, "crash")
     ELSE call' = [call EXCEPT ![c].at = "write", ![c].seen = project]
  /\ UNCHANGED rows

\* The INSERT of a row that belongs to the account, and its commit; its foreign key
\* refuses it when the account is gone.
Insert(c) ==
  /\ made' = IF account THEN made \cup {c} ELSE made
  /\ Ends(c, IF account THEN "fine" ELSE "crash")
  /\ UNCHANGED <<account, project, document, ids>>

\* An access token serves for a while after its user is gone.
CreateWorkspace(c) == At(c, "read") /\ Is(c, {"workspace"}) /\ Insert(c)
CreateProject(c) == At(c, "write") /\ Is(c, {"project"}) /\ Insert(c)
CreateExportJob(c) == At(c, "write") /\ Is(c, {"export"}) /\ Insert(c)

\* The fields a form changes in the row that was read.
Changed(c) == {f \in Fields : call[c].given[f] \notin {None, call[c].seen[f]}}

\* The UPDATE and its commit; there is none when nothing has changed.
Update(c) ==
  /\ At(c, "write") /\ Is(c, {"update", "onboard"})
  /\ IF account \/ Changed(c) = {}
     THEN /\ project' = [f \in Fields |-> IF f \in Changed(c) THEN call[c].given[f] ELSE project[f]]
          /\ Ends(c, "fine")
     ELSE Ends(c, "crash") /\ UNCHANGED project
  /\ UNCHANGED <<account, made, document, ids>>

\* delete_source_document, which does not mind a row that is gone.
Remove(c) ==
  /\ At(c, "write") /\ Is(c, {"remove"})
  /\ document' = FALSE
  /\ Ends(c, "fine")
  /\ UNCHANGED <<account, made, project, ids>>

-----------------------------------------------------------------------------
(* The campaign: list_artifacts, get_artifact, preview_artifact, edit_artifact. *)

\* _ensure_creative_campaign_spec_ids reads it and makes up the ids that are missing.
ReadCampaign(c) ==
  /\ At(c, "read") /\ Is(c, {"campaign", "preview", "edit"})
  /\ IF account
     THEN call' = [call EXCEPT ![c].at = IF ids = None THEN "backfill" ELSE "check",
                               ![c].ids = IF ids = None THEN c ELSE ids]
     ELSE Ends(c, "not_found")
  /\ UNCHANGED rows

\* Mutant of Backfill: the ids are told but not stored.
BackfillUnsaved(c) == At(c, "backfill") /\ Goes(c, "check") /\ UNCHANGED rows

\* They are committed with the whole payload.
Backfill(c) ==
  /\ At(c, "backfill")
  /\ IF account THEN Goes(c, "check") /\ ids' = c
                ELSE Ends(c, "crash") /\ UNCHANGED ids
  /\ UNCHANGED <<account, made, project, document>>

\* get_project comes last; most artifacts have no preview.
Check(c) ==
  /\ At(c, "check")
  /\ \/ ~account /\ Ends(c, "not_found")
     \/ account /\ Is(c, {"campaign", "preview"}) /\ Ends(c, "fine")
     \/ account /\ Is(c, {"preview"}) /\ Ends(c, "not_found")
     \/ account /\ Is(c, {"edit"}) /\ Goes(c, "write")
  /\ UNCHANGED rows

\* update_artifact_payload: what the client sends replaces the payload as a
\* whole; there is no UPDATE when it is the same.
Edit(c) ==
  /\ At(c, "write") /\ Is(c, {"edit"})
  /\ \/ account /\ ids' = call[c].copy /\ Ends(c, "fine")
     \/ /\ ~account /\ UNCHANGED ids
        /\ \E result \in Results : /\ result = "crash" \/ (result = "fine" /\ call[c].copy = call[c].ids)
                                /\ Ends(c, result)
  /\ UNCHANGED <<account, made, project, document>>

-----------------------------------------------------------------------------
\* delete_account: get_current_user_record finds the user; the foreign keys delete all
\* that belongs to it.
FindAccount(c) ==
  /\ At(c, "read") /\ Is(c, {"close"})
  /\ IF account THEN Goes(c, "write") ELSE Ends(c, "unauthorized")
  /\ UNCHANGED rows

DeleteAccount(c) ==
  /\ At(c, "write") /\ Is(c, {"close"})
  /\ account' = FALSE /\ made' = {} /\ document' = FALSE /\ ids' = None
  /\ project' = Blank
  /\ Ends(c, "fine")

Step(c) ==
  \/ Stray(c) \/ Find(c) \/ CreateWorkspace(c) \/ CreateProject(c) \/ CreateExportJob(c)
  \/ Update(c) \/ Remove(c)
  \/ ReadCampaign(c) \/ Backfill(c) \/ Check(c) \/ Edit(c)
  \/ FindAccount(c) \/ DeleteAccount(c)

Next == \E c \in Calls : Begin(c) \/ Step(c)

Spec == Init /\ [][Next]_vars

-----------------------------------------------------------------------------
(* Properties *)

TypeOK ==
  /\ account \in BOOLEAN /\ document \in BOOLEAN
  /\ made \subseteq Calls /\ project \in ProjectRow /\ ids \in Calls \cup {None}
  /\ call \in [Calls -> Call]

\* No row outlives the account it belongs to, whatever was under way when that was
\* deleted (auth/routes.py:454).
NoOrphans == ~account => made = {} /\ ~document /\ ids = None

Fine(c, ops) == At(c, "end") /\ Is(c, ops) /\ call[c].result = "fine"
Overlap(c, d) == c # d /\ ~At(d, "idle") /\ c \notin call[d].ended /\ d \notin call[c].ended

\* What an answered form has said about a column is still there, or what a form that
\* came later or overlapped it has said.
FormsAreKept == account =>
  \A c \in Calls : Fine(c, {"update", "onboard"}) =>
    \A f \in Fields : call[c].given[f] \notin {None, project[f]} =>
      \E d \in Calls : d \notin call[c].ended /\ call[d].given[f] = project[f]

\* Whoever has been told the ids of the specs can go on editing by them, unless other
\* requests for the campaign overlapped or an edit has replaced it: reading it again
\* does not make up new ids (services.py:332-362).
IdsAreKept == account =>
  \A c \in Calls : Fine(c, {"campaign"}) =>
    \/ ids = call[c].ids
    \/ \E d \in Calls : Is(d, {"campaign", "preview", "edit"}) /\ Overlap(c, d)
    \/ \E d \in Calls : Fine(d, {"edit"}) /\ c \in call[d].ended
=============================================================================
