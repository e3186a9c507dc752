------------------------------- MODULE Sites -------------------------------
(***************************************************************************)
(* The website of a pack (app/modules/builder): its owner creates, edits,  *)
(* unpublishes and deletes the row, visitors read the page and leave their *)
(* contact.  Handlers run in threads with a transaction each and commit    *)
(* the columns they have changed.  What the code hands to object storage   *)
(* never gets there (upload_file and delete_file are coroutines that       *)
(* nobody awaits), so that the row is all there is.  The pack itself is    *)
(* served by the legacy routes of app/modules/packs, which change nothing. *)
(***************************************************************************)
EXTENDS Integers, FiniteSets

CONSTANTS
  Calls,      \* the handlers that may run
  MaxSites,   \* bound: the rows that are ever there
  Columns,    \* what the owner edits: name, files, messages; "files" is one of them
  Texts       \* bound: what a column can contain

SiteIds == 1..MaxSites
None == "none"      \* NULL, or a field that a request leaves out

VARIABLES
  site,       \* the rows of builder_project for the pack
  call        \* the calls

vars == <<site, call>>

\* draft: the edited columns; live: live_url is set, and with it published_at and
\* subdomain_slug may be; kept: published_files, None if it is NULL or empty.
Row == [stored : {"never", "yes", "deleted"}, draft : [Columns -> Texts],
        live : BOOLEAN, kept : Texts \cup {None}]
Empty == [c \in Columns |-> CHOOSE t \in Texts : TRUE]
Unused == [stored |-> "never", draft |-> Empty, live |-> FALSE,
           kept |-> None]

Reading == {"get", "visit", "lead", "publish", "generate"}
Writing == {"create", "update", "delete", "unpublish"}

\* What the legacy routes answer: the list leaves out a field of its own schema, create
\* and delete pass the wrong arguments to their services, a pack that is missing does
\* not fit the schema of an answer, and there is no brand guide.
LegacyAnswers ==
  [list_packs |-> {"value_error"}, create_legacy |-> {"crash"}, get_pack |-> {"fine", "crash"},
   remove_pack |-> {"crash"}, download_all |-> {"stream", "not_found"},
   brand_guide |-> {"not_found"}]
Legacy == DOMAIN LegacyAnswers
Results == {"fine", "bad_request"} \cup UNION {LegacyAnswers[op] : op \in Legacy}

\* row: the row as it has read it; given: what an update asks for; shown: the files a
\* visitor has seen.
Call == [at : {"idle", "read", "again", "write", "end"}, op : Reading \cup Writing \cup Legacy,
         s : SiteIds, row : Row, given : [Columns -> Texts \cup {None}],
         shown : Texts \cup {None}, result : Results]
Idle == [at |-> "idle", op |-> "get", s |-> 1, row |-> Unused,
         given |-> [c \in Columns |-> None], shown |-> None, result |-> "fine"]

\* Pages that are live were published by an earlier release, which kept the files in the
\* row if it had no object storage.
Init ==
  /\ \/ site = [s \in SiteIds |-> Unused]
     \/ \E live \in BOOLEAN, kept \in Texts \cup {None} :
          /\ ~live => kept = None
          /\ site = [s \in SiteIds |->
                       IF s = 1 THEN [Unused EXCEPT !.stored = "yes", !.live = live, !.kept = kept]
                       ELSE Unused]
  /\ call = [c \in Calls |-> Idle]

-----------------------------------------------------------------------------
\* The row that the next INSERT makes.
Fresh == {s \in SiteIds : site[s].stored = "never" /\ \A i \in 1..s - 1 : site[i].stored # "never"}
Stored(s) == site[s].stored = "yes"
Live(s) == Stored(s) /\ site[s].live

\* load_published_html, _metadata and _snapshot ask object storage for a page under a
\* name of their own, but storage only knows the names that it has given: nothing is found.
StoredPage(s) == None
\* load_published_snapshot.
Snapshot(s) == IF StoredPage(s) # None THEN StoredPage(s) ELSE site[s].kept
\* What serve_published_site shows.
Page(s) == IF Snapshot(s) # None THEN Snapshot(s) ELSE site[s].draft["files"]

\* publish_project_artifacts and remove_published_artifacts make coroutines of the uploads
\* and deletions, which never run and so never fail.
HandOver == UNCHANGED site

At(c, step) == call[c].at = step
Ends(c, result) ==
  call' = [call EXCEPT ![c].at = "end", ![c].result = result, ![c].row = Unused,
                       ![c].given = Idle.given]

\* A request for one of the endpoints reaches its handler.
Begin(c) ==
  /\ At(c, "idle")
  /\ \E op \in Reading \cup Writing \cup Legacy, s \in SiteIds,
        given \in [Columns -> Texts \cup {None}] :
       /\ op # "update" => given = Idle.given
       /\ op \in Legacy => s = 1
       /\ call' = [call EXCEPT ![c] =
                     [Idle EXCEPT !.at = "read", !.op = op, !.s = s, !.given = given]]
  /\ UNCHANGED site

\* create_pack looks whether the pack is the user's, then for its site, and returns that
\* if there is one.
LookForPack(c) ==
  /\ At(c, "read") /\ call[c].op = "create"
  /\ \/ Ends(c, "not_found")
     \/ (\E s \in SiteIds : Stored(s)) /\ Ends(c, "fine")
     \/ (\A s \in SiteIds : ~Stored(s)) /\ call' = [call EXCEPT ![c].at = "write"]
  /\ UNCHANGED site

\* Mutant of Insert: pack_id is not unique.
InsertFreely(c) ==
  /\ At(c, "write") /\ call[c].op = "create"
  /\ \E s \in Fresh :
       /\ site' = [site EXCEPT ![s].stored = "yes"]
       /\ call' = [call EXCEPT ![c].at = "again", ![c].s = s]

\* create: the INSERT and its commit, which the unique constraint on pack_id refuses
\* when another create was faster.
Insert(c) ==
  /\ At(c, "write") /\ call[c].op = "create"
  /\ \/ /\ \E s \in SiteIds : Stored(s)
        /\ Ends(c, "crash") /\ UNCHANGED site
     \/ /\ \A s \in SiteIds : ~Stored(s)
        /\ \E s \in Fresh :
             /\ site' = [site EXCEPT ![s].stored = "yes"]
             /\ call' = [call EXCEPT ![c].at = "again", ![c].s = s]

\* get_by_id, for the handlers of the owner; publish and generate then use the pack's row
\* as if it were the site's and fail, generate if its body was good; unpublish has storage
\* delete the page.
Find(c) ==
  /\ At(c, "read") /\ call[c].op \in {"get", "publish", "generate", "update", "delete", "unpublish"}
  /\ \/ ~Stored(call[c].s) /\ Ends(c, "not_found")
     \/ Stored(call[c].s) /\ call[c].op = "get" /\ Ends(c, "fine")
     \/ Stored(call[c].s) /\ call[c].op \in {"publish", "generate"} /\ Ends(c, "crash")
     \/ Stored(call[c].s) /\ call[c].op = "generate" /\ Ends(c, "bad_request")
     \/ /\ Stored(call[c].s) /\ call[c].op \in Writing
        /\ call' = [call EXCEPT ![c].at = "write", ![c].row = site[call[c].s]]
  /\ HandOver

\* The columns an update assigns.
Changed(c) == {f \in Columns : call[c].given[f] \notin {None, call[c].row.draft[f]}}

\* The row after the UPDATE.
Updated(row, c) ==
  [row EXCEPT !.draft = [f \in Columns |-> IF f \in Changed(c) THEN call[c].given[f] ELSE @[f]]]

\* unpublish: live_url, published_at, subdomain_slug and published_files become NULL.
Unpublished(row) == [row EXCEPT !.live = FALSE, !.kept = None]

\* The commit of an update or an unpublish: nothing is written when nothing has
\* changed, and an UPDATE that meets no row is an error.
Write(c) ==
  /\ At(c, "write") /\ call[c].op \in {"update", "unpublish"}
  /\ LET s == call[c].s
         After(row) == IF call[c].op = "update" THEN Updated(row, c) ELSE Unpublished(row)
         writes == After(call[c].row) # call[c].row
     IN IF writes /\ ~Stored(s)
        THEN Ends(c, "crash") /\ UNCHANGED site
        ELSE /\ site' = IF writes THEN [site EXCEPT ![s] = After(@)] ELSE site
             /\ call' = [call EXCEPT ![c].at = "again"]

\* db.refresh, and the answer.
Refresh(c) ==
  /\ At(c, "again")
  /\ Ends(c, IF Stored(call[c].s) THEN "fine" ELSE "crash")
  /\ UNCHANGED site

\* delete, which does not mind a row that is gone.
Delete(c) ==
  /\ At(c, "write") /\ call[c].op = "delete"
  /\ site' = [site EXCEPT ![call[c].s].stored = "deleted"]
  /\ Ends(c, "fine")

\* serve_published_site: the page is made of the published files, or of the draft if
\* none were kept, and handed to storage.
Serve(c) ==
  /\ At(c, "read") /\ call[c].op = "visit"
  /\ call' = [call EXCEPT ![c].at = "end",
                ![c].result = IF Live(call[c].s) THEN "fine" ELSE "not_found",
                ![c].shown = IF Live(call[c].s) THEN Page(call[c].s) ELSE None]
  /\ HandOver

\* capture_builder_lead: the trap field, a missing name or contact, or a page that is
\* not live; what a good form says is kept nowhere.
CaptureLead(c) ==
  /\ At(c, "read") /\ call[c].op = "lead"
  /\ \/ Ends(c, "bad_request")
     \/ Ends(c, IF StoredPage(call[c].s) # None \/ Live(call[c].s) THEN "fine" ELSE "not_found")
  /\ UNCHANGED site

\* The legacy routes.
ServePack(c) ==
  /\ At(c, "read") /\ call[c].op \in Legacy
  /\ \E result \in LegacyAnswers[call[c].op] : Ends(c, result)
  /\ UNCHANGED site

Step(c) ==
  \/ LookForPack(c) \/ Insert(c) \/ Find(c) \/ Write(c) \/ Refresh(c) \/ Delete(c)
  \/ Serve(c) \/ CaptureLead(c) \/ ServePack(c)

Next == \E c \in Calls : Begin(c) \/ Step(c)

Spec == Init /\ [][Next]_vars

-----------------------------------------------------------------------------
(* Properties *)

TypeOK == site \in [SiteIds -> Row] /\ call \in [Calls -> Call]

\* A pack has one site, however many requests create it at once (routes.py:101).
OneSite == \A s, t \in SiteIds : Stored(s) /\ Stored(t) => s = t

\* A page that is not live never becomes so: no handler that has read the row of a page
\* before it was taken down brings it back when it writes (unpublish_project,
\* routes.py:245).
DownStaysDown == \A s \in SiteIds : ~Live(s) => ~Live(s)'
\* While a page is live, edits of its draft reach no visitor if the published files were
\* kept: all have seen those (routes.py:312).
VisitorsSeeThePublished == \A s \in SiteIds : Live(s) /\ site[s].kept # None =>
  \A c \in Calls :
    At(c, "end") /\ call[c].op = "visit" /\ call[c].s = s /\ call[c].result = "fine" =>
      call[c].shown = site[s].kept

=============================================================================
