------------------------------ MODULE Waitlist ------------------------------
(***************************************************************************)
(* The public waitlist (app/modules/waitlist).  A form subscribes an email *)
(* address: the first subscription inserts the row and tells the team,     *)
(* every later one adds what its form says to that row.  Requests run in   *)
(* threads with a transaction each (READ COMMITTED), look the row up       *)
(* before they insert it, and are saved from each other by the unique      *)
(* constraint on email; a form is sent again by hand when it fails.        *)
(***************************************************************************)
EXTENDS Integers, FiniteSets

CONSTANTS
  Requests,       \* bound: the forms that are sent
  Spellings,      \* the addresses that are typed
  NormalForm,     \* what str.strip().lower() makes of them
  Columns,        \* the optional columns: first_name, role, source
  Values,         \* what they can contain
  MaxFaults       \* bound: connections lost, processes that end

ASSUME NormalAssumption ==
  /\ Spellings # {}
  /\ NormalForm \in [Spellings -> Spellings]
  /\ \A s \in Spellings : NormalForm[NormalForm[s]] = NormalForm[s]
ASSUME FaultAssumption == MaxFaults \in Nat

Blank == "blank"      \* None, in a form or in the row
Spaces == "spaces"    \* white space typed into a field

VARIABLES
  table,          \* the rows of waitlist_signup by email; its domain: the emails stored
  req,            \* the requests
  notices,        \* the notifications handed to Resend: <<request, its row>>
  faults

vars == <<table, req, notices, faults>>

Row == [Columns -> Values \cup {Blank}]
NoDetails == [c \in Columns |-> Blank]
Someone == NormalForm[CHOOSE s \in Spellings : TRUE]
Steps == {"idle", "look", "insert", "again", "merge", "merged",
          "refresh", "notify", "end"}
Answers == {"none", "new", "already", "refused", "error"}

\* typed, mail: the address as typed and as looked up; given: the cleaned fields;
\* row: the row as the session has read it.
Request == [at : Steps, typed : Spellings, mail : Spellings,
            given : Row, row : Row, answer : Answers]

Init ==
  /\ table = [s \in {} |-> NoDetails]
  /\ req = [r \in Requests |-> [at |-> "idle", typed |-> Someone, mail |-> Someone,
                                given |-> NoDetails, row |-> NoDetails, answer |-> "none"]]
  /\ notices = {}
  /\ faults = MaxFaults

-----------------------------------------------------------------------------
\* _clean_optional_text.
Clean(text) == IF text = Spaces THEN Blank ELSE text

\* _normalize_email.
NormalizeEmail(address) == NormalForm[address]

Stored(email) == email \in DOMAIN table

Goes(r, step) == req' = [req EXCEPT ![r].at = step]
Ends(r, answer) == req' = [req EXCEPT ![r].at = "end", ![r].answer = answer]

\* A form arrives.  A form whose trap field is filled is refused.
Submit(r) ==
  /\ req[r].at = "idle"
  /\ \/ \E address \in Spellings, fields \in [Columns -> Values \cup {Blank, Spaces}] :
          req' = [req EXCEPT ![r].at = "look", ![r].typed = address,
                             ![r].mail = NormalizeEmail(address),
                             ![r].given = [c \in Columns |-> Clean(fields[c])]]
     \/ Ends(r, "refused")
  /\ UNCHANGED <<table, notices, faults>>

\* The row has been found; _merge_signup_details follows.
Finds(r) == req' = [req EXCEPT ![r].at = "merge", ![r].row = table[req[r].mail]]

\* The look-up before the insert.
LookUp(r) ==
  /\ req[r].at = "look"
  /\ IF Stored(req[r].mail) THEN Finds(r) ELSE Goes(r, "insert")
  /\ UNCHANGED <<table, notices, faults>>

Inserts(r) ==
  table' = [e \in DOMAIN table \cup {req[r].mail} |->
              IF e = req[r].mail THEN req[r].given ELSE table[e]]

\* The insert and its commit.  An insert of an email that another transaction is
\* inserting waits for the end of that one, so that the two are one step.
Insert(r) ==
  /\ req[r].at = "insert"
  /\ IF Stored(req[r].mail)
     THEN Goes(r, "again") /\ UNCHANGED table
     ELSE Inserts(r) /\ Goes(r, "refresh")
  /\ UNCHANGED <<notices, faults>>

\* The look-up after the IntegrityError.
LookAgain(r) ==
  /\ req[r].at = "again"
  /\ IF Stored(req[r].mail) THEN Finds(r) ELSE Ends(r, "error")
  /\ UNCHANGED <<table, notices, faults>>

\* The columns _merge_signup_details assigns.
Changed(r) == {c \in Columns : req[r].given[c] \notin {Blank, req[r].row[c]}}

\* Mutant of Merged: fields left blank are assigned too.
MergedBlanks(r) == req[r].given

\* Mutant of Merged: the row is written as it was read.
MergedWhole(r) ==
  [c \in Columns |-> IF c \in Changed(r) THEN req[r].given[c] ELSE req[r].row[c]]

\* The row after the UPDATE, which contains the assigned columns only.
Merged(r) ==
  [c \in Columns |-> IF c \in Changed(r) THEN req[r].given[c] ELSE table[req[r].mail][c]]

\* _merge_signup_details: the UPDATE and its commit, unless nothing is new.
Merge(r) ==
  /\ req[r].at = "merge"
  /\ table' = [table EXCEPT ![req[r].mail] = Merged(r)]
  /\ Goes(r, "merged")
  /\ UNCHANGED <<notices, faults>>

\* db.refresh after a merge, and the answer.
AnswerMerged(r) ==
  /\ req[r].at = "merged"
  /\ Ends(r, "already")
  /\ UNCHANGED <<table, notices, faults>>

\* db.refresh reads the new row for the notification, and the answer is sent.
Refresh(r) ==
  /\ req[r].at = "refresh"
  /\ req' = [req EXCEPT ![r].at = "notify", ![r].answer = "new",
                        ![r].row = table[req[r].mail]]
  /\ UNCHANGED <<table, notices, faults>>

\* The background task: the mail goes out, or it is not configured or fails.
Notify(r) ==
  /\ req[r].at = "notify"
  /\ Goes(r, "end")
  /\ \/ notices' = notices \cup {<<r, req[r].row>>}
     \/ UNCHANGED notices
  /\ UNCHANGED <<table, faults>>

\* The connection is lost or the process ends, before a statement or before the
\* mail; what is committed stays.
Dies(r) ==
  /\ req[r].at \notin {"idle", "end"}
  /\ faults > 0 /\ faults' = faults - 1
  /\ req' = [req EXCEPT ![r].at = "end",
                        ![r].answer = IF @ = "none" THEN "error" ELSE @]
  /\ UNCHANGED <<table, notices>>

Next == \E r \in Requests :
  \/ Submit(r) \/ LookUp(r) \/ Insert(r) \/ LookAgain(r) \/ Merge(r)
  \/ AnswerMerged(r) \/ Refresh(r) \/ Notify(r) \/ Dies(r)

Spec == Init /\ [][Next]_vars

-----------------------------------------------------------------------------
(* Properties *)

\* The types; white space never becomes a name (_clean_optional_text).
TypeOK ==
  /\ DOMAIN table \subseteq Spellings
  /\ \A e \in DOMAIN table : table[e] \in Row
  /\ req \in [Requests -> Request]
  /\ notices \subseteq Requests \X Row
  /\ faults \in 0..MaxFaults

\* Who has inserted a row.
Newcomer(r) == req[r].at \in {"refresh", "notify"} \/ req[r].answer = "new"

SamePerson(r, s) == NormalForm[req[r].typed] = NormalForm[req[s].typed]

\* However requests for one address overlap and however it is spelled, one of them
\* is the newcomer, and the team hears of it at most once; and, as long as nothing
\* fails, every row has its newcomer (already_subscribed, routes.py:35).
OneNewcomer ==
  /\ \A r, s \in Requests : Newcomer(r) /\ Newcomer(s) /\ SamePerson(r, s) => r = s
  /\ \A m, n \in notices : SamePerson(m[1], n[1]) => m = n
  /\ faults = MaxFaults =>
       \A e \in DOMAIN table : \E r \in Requests : Newcomer(r) /\ req[r].mail = e

\* Two requests that both find no row do not end in an error: the one whose insert
\* is refused finds the row of the other (services.py:158-174).
ConflictsRecover == \A r \in Requests : req[r].answer = "error" => faults < MaxFaults

\* What the form of an answered request said about a column, the row and the
\* notification of its newcomer still say, or what a later form said about it;
\* nothing is blanked.
NothingIsForgotten ==
  /\ \A r \in Requests, c \in Columns :
       req[r].answer \in {"new", "already"} /\ req[r].given[c] # Blank =>
         table[req[r].mail][c] # Blank
  /\ \A n \in notices, c \in Columns : req[n[1]].given[c] # Blank => n[2][c] # Blank

\* What the visitors who were answered, and the team, may rely on.
Inv == TypeOK /\ OneNewcomer /\ ConflictsRecover /\ NothingIsForgotten

\* A request changes the columns its form says something about, and only to that,
\* although it has read the whole row before another request changed it.
OnlyOwnColumns ==
  [][\A e \in DOMAIN table, c \in Columns : table'[e][c] # table[e][c] =>
       \E r \in Requests : req[r].at # req'[r].at /\ table'[e][c] = req[r].given[c]]_vars

=============================================================================
