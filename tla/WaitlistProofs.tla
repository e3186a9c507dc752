--------------------------- MODULE WaitlistProofs ---------------------------
(***************************************************************************)
(* Proofs about Waitlist, for any number of forms, people, spellings,      *)
(* columns, values and faults.                                             *)
(***************************************************************************)
EXTENDS Waitlist, TLAPS

\* The form of a request is about the person whose address was typed.
Mailed == \A r \in Requests : req[r].mail = NormalForm[req[r].typed]

Answer(r) ==
  CASE req[r].at \in Steps \ {"notify", "end"} -> {"none"}
    [] req[r].at = "notify" -> {"new"}
    [] OTHER -> Answers

\* What a request knows: its row exists from the first time it was seen, and the columns that
\* were given or seen there are not blank.
Told(r, row) == \A c \in Columns : row[c] # Blank => table[req[r].mail][c] # Blank

RequestOK(r) ==
  /\ req[r].answer \in Answer(r)
  /\ req[r].at \in {"again", "merge", "merged"} => Stored(req[r].mail)
  /\ req[r].answer \in {"new", "already"} => Stored(req[r].mail)
  /\ Newcomer(r) => Stored(req[r].mail)
  /\ req[r].at = "merge" => Told(r, req[r].row)
  /\ req[r].at \in {"merged", "refresh"} => Told(r, req[r].given)
  /\ req[r].answer \in {"new", "already"} => Told(r, req[r].given)
  /\ req[r].at = "notify" =>
       \A c \in Columns : req[r].given[c] # Blank => req[r].row[c] # Blank

\* A mail is sent by a request that is at its end, after it was answered.
NoticesOK ==
  \A n \in notices :
    /\ req[n[1]].at = "end" /\ req[n[1]].answer = "new"
    /\ \A c \in Columns : req[n[1]].given[c] # Blank => n[2][c] # Blank

OneNoticeEach == \A m, n \in notices : m[1] = n[1] => m = n

NewcomersDiffer ==
  \A r, s \in Requests : Newcomer(r) /\ Newcomer(s) /\ req[r].mail = req[s].mail => r = s

RowsHaveNewcomers ==
  faults = MaxFaults =>
    \A e \in DOMAIN table : \E r \in Requests : Newcomer(r) /\ req[r].mail = e

FormsInv ==
  /\ TypeOK /\ Mailed
  /\ \A r \in Requests : RequestOK(r)
  /\ NoticesOK /\ OneNoticeEach /\ NewcomersDiffer /\ RowsHaveNewcomers /\ ConflictsRecover

Step(r) ==
  \/ Submit(r) \/ LookUp(r) \/ Insert(r) \/ LookAgain(r) \/ Merge(r)
  \/ AnswerMerged(r) \/ Refresh(r) \/ Notify(r) \/ Dies(r)

-----------------------------------------------------------------------------
(* The table *)

\* A step touches one row, and blanks nothing.
Keeps ==
  /\ DOMAIN table \subseteq DOMAIN table'
  /\ \A e \in DOMAIN table, c \in Columns : table[e][c] # Blank => table'[e][c] # Blank

LEMMA MergedRow ==
  ASSUME TypeOK, NEW r \in Requests, Stored(req[r].mail)
  PROVE  /\ Merged(r) \in Row
         /\ \A c \in Columns :
              /\ Merged(r)[c] \in {table[req[r].mail][c], req[r].given[c]}
              /\ Merged(r)[c] # table[req[r].mail][c] => Merged(r)[c] = req[r].given[c]
              /\ table[req[r].mail][c] # Blank => Merged(r)[c] # Blank
              /\ req[r].given[c] # Blank =>
                   Merged(r)[c] = req[r].given[c] \/ req[r].row[c] = req[r].given[c]
<1>1. req[r] \in Request /\ req[r].given \in Row /\ table[req[r].mail] \in Row
  BY DEF TypeOK, Request, Stored
<1> QED
  BY <1>1 DEF Merged, Changed, Row

LEMMA StepTable ==
  ASSUME TypeOK, \A s \in Requests : RequestOK(s), NEW r \in Requests, Step(r)
  PROVE  /\ DOMAIN table' \subseteq Spellings /\ \A e \in DOMAIN table' : table'[e] \in Row
         /\ Keeps
<1>0. req[r] \in Request /\ req[r].mail \in Spellings /\ req[r].given \in Row
  BY DEF TypeOK, Request
<1>1. CASE Merge(r)
  <2>1. Stored(req[r].mail)
    BY <1>1 DEF Merge, RequestOK
  <2>2. /\ DOMAIN table' = DOMAIN table
        /\ \A e \in DOMAIN table : table'[e] = IF e = req[r].mail THEN Merged(r) ELSE table[e]
    BY <1>1 DEF Merge
  <2> QED
    BY <2>1, <2>2, MergedRow DEF TypeOK, Keeps
<1>2. CASE Insert(r)
  <2>1. CASE table' = table
    BY <2>1 DEF TypeOK, Keeps
  <2>2. CASE ~Stored(req[r].mail)
    <3>1. /\ DOMAIN table' = DOMAIN table \cup {req[r].mail}
          /\ \A e \in DOMAIN table' : table'[e] = IF e = req[r].mail THEN req[r].given ELSE table[e]
      BY <1>2, <2>2 DEF Insert, Inserts
    <3> QED
      BY <1>0, <2>2, <3>1 DEF TypeOK, Keeps, Stored
  <2> QED
    BY <1>2, <2>1, <2>2 DEF Insert
<1>3. CASE Submit(r) \/ LookUp(r) \/ LookAgain(r) \/ AnswerMerged(r) \/ Refresh(r)
             \/ Notify(r) \/ Dies(r)
  BY <1>3 DEF Submit, LookUp, LookAgain, AnswerMerged, Refresh, Notify, Dies, TypeOK, Keeps
<1> QED
  BY <1>1, <1>2, <1>3 DEF Step

-----------------------------------------------------------------------------
(* The request that moves *)

\* What a step of r makes of its request: nobody else's changes.
Moved(r) ==
  /\ req' \in [Requests -> Request]
  /\ \A s \in Requests \ {r} : req'[s] = req[s]
  /\ req'[r].mail = NormalForm[req'[r].typed]
  /\ req[r].at # "idle" => req'[r].mail = req[r].mail /\ req'[r].given = req[r].given
  /\ req'[r].at # req[r].at

Known == TypeOK /\ Mailed /\ \A s \in Requests : RequestOK(s)

LEMMA SubmitMoves ==
  ASSUME Known, NEW r \in Requests, Submit(r)
  PROVE  Moved(r) /\ RequestOK(r)' /\ ~Newcomer(r)' /\ req'[r].answer \in {"none", "refused"}
<1>0. req[r] \in Request /\ req \in [Requests -> Request] /\ req[r].answer = "none"
  BY DEF Known, TypeOK, RequestOK, Answer, Submit, Steps
<1>1. ASSUME NEW address \in Spellings, NEW fields \in [Columns -> Values \cup {Blank, Spaces}],
             req' = [req EXCEPT ![r].at = "look", ![r].typed = address,
                                ![r].mail = NormalizeEmail(address),
                                ![r].given = [c \in Columns |-> Clean(fields[c])]]
      PROVE  Moved(r) /\ RequestOK(r)' /\ ~Newcomer(r)' /\ req'[r].answer \in {"none", "refused"}
  <2> DEFINE given == [c \in Columns |-> Clean(fields[c])]
  <2>1. given \in Row
    BY DEF Row, Clean
  <2>2. NormalForm[address] \in Spellings
    BY NormalAssumption
  <2> HIDE DEF given
  <2>3. req' = [req EXCEPT ![r] = [@ EXCEPT !.at = "look", !.typed = address,
                                     !.mail = NormalForm[address], !.given = given]]
    BY <1>0, <1>1 DEF NormalizeEmail, given
  <2> DEFINE new == [req[r] EXCEPT !.at = "look", !.typed = address,
                                   !.mail = NormalForm[address], !.given = given]
  <2>4. /\ new \in Request /\ new.at = "look" /\ new.typed = address
        /\ new.mail = NormalForm[address] /\ new.answer = "none"
    BY <1>0, <2>1, <2>2 DEF Request, Steps
  <2>5. req' = [req EXCEPT ![r] = new]
    BY <2>3
  <2> HIDE DEF new
  <2>6. Moved(r)
    BY <1>0, <2>4, <2>5 DEF Moved, Submit
  <2> QED
    BY <1>0, <2>4, <2>5, <2>6 DEF RequestOK, Answer, Steps, Newcomer
<1>2. ASSUME Ends(r, "refused")
      PROVE  Moved(r) /\ RequestOK(r)' /\ ~Newcomer(r)' /\ req'[r].answer \in {"none", "refused"}
  <2> DEFINE new == [req[r] EXCEPT !.at = "end", !.answer = "refused"]
  <2>1. /\ new \in Request /\ new.at = "end" /\ new.answer = "refused"
        /\ new.typed = req[r].typed /\ new.mail = req[r].mail
    BY <1>0 DEF Request, Steps, Answers
  <2>2. req' = [req EXCEPT ![r] = new]
    BY <1>0, <1>2 DEF Ends
  <2> HIDE DEF new
  <2> QED
    BY <1>0, <2>1, <2>2 DEF Moved, Submit, Known, Mailed, RequestOK, Answer, Steps, Answers,
       Newcomer
<1> QED
  BY <1>1, <1>2 DEF Submit

\* A step that only moves on, or ends with an answer.
LEMMA GoesMoves ==
  ASSUME Known, NEW r \in Requests, NEW step \in Steps, Goes(r, step), step # req[r].at
  PROVE  /\ Moved(r) /\ req'[r].at = step /\ req'[r].answer = req[r].answer
         /\ req'[r].mail = req[r].mail /\ req'[r].given = req[r].given
         /\ req'[r].row = req[r].row
<1>0. req[r] \in Request /\ req \in [Requests -> Request]
  BY DEF Known, TypeOK
<1> DEFINE new == [req[r] EXCEPT !.at = step]
<1>1. /\ new \in Request /\ new.at = step /\ new.typed = req[r].typed /\ new.mail = req[r].mail
      /\ new.given = req[r].given /\ new.row = req[r].row /\ new.answer = req[r].answer
  BY <1>0 DEF Request
<1>2. req' = [req EXCEPT ![r] = new]
  BY <1>0 DEF Goes
<1> HIDE DEF new
<1> QED
  BY <1>0, <1>1, <1>2 DEF Moved, Known, Mailed

LEMMA EndsMoves ==
  ASSUME Known, NEW r \in Requests, NEW answer \in Answers, Ends(r, answer), req[r].at # "end"
  PROVE  /\ Moved(r) /\ req'[r].at = "end" /\ req'[r].answer = answer
         /\ req'[r].mail = req[r].mail /\ req'[r].given = req[r].given
<1>0. req[r] \in Request /\ req \in [Requests -> Request]
  BY DEF Known, TypeOK
<1> DEFINE new == [req[r] EXCEPT !.at = "end", !.answer = answer]
<1>1. /\ new \in Request /\ new.at = "end" /\ new.typed = req[r].typed /\ new.mail = req[r].mail
      /\ new.given = req[r].given /\ new.answer = answer
  BY <1>0 DEF Request, Steps
<1>2. req' = [req EXCEPT ![r] = new]
  BY <1>0 DEF Ends
<1> HIDE DEF new
<1> QED
  BY <1>0, <1>1, <1>2 DEF Moved, Known, Mailed

\* A row that is found is kept as it is read.
LEMMA FindsMoves ==
  ASSUME Known, NEW r \in Requests, Finds(r), Stored(req[r].mail), req[r].at # "merge"
  PROVE  /\ Moved(r) /\ req'[r].at = "merge" /\ req'[r].answer = req[r].answer
         /\ req'[r].mail = req[r].mail /\ req'[r].given = req[r].given
         /\ req'[r].row = table[req[r].mail]
<1>0. req[r] \in Request /\ req \in [Requests -> Request] /\ table[req[r].mail] \in Row
  BY DEF Known, TypeOK, Stored
<1> DEFINE new == [req[r] EXCEPT !.at = "merge", !.row = table[req[r].mail]]
<1>1. /\ new \in Request /\ new.at = "merge" /\ new.typed = req[r].typed /\ new.mail = req[r].mail
      /\ new.given = req[r].given /\ new.row = table[req[r].mail] /\ new.answer = req[r].answer
  BY <1>0 DEF Request, Steps
<1>2. req' = [req EXCEPT ![r] = new]
  BY <1>0 DEF Finds
<1> HIDE DEF new
<1> QED
  BY <1>0, <1>1, <1>2 DEF Moved, Known, Mailed

LEMMA RefreshMoves ==
  ASSUME Known, NEW r \in Requests, Refresh(r)
  PROVE  /\ Moved(r) /\ req'[r].at = "notify" /\ req'[r].answer = "new"
         /\ req'[r].mail = req[r].mail /\ req'[r].given = req[r].given
         /\ req'[r].row = table[req[r].mail]
<1>0. req[r] \in Request /\ req \in [Requests -> Request] /\ table[req[r].mail] \in Row
  BY DEF Known, TypeOK, Stored, Refresh, RequestOK, Newcomer
<1> DEFINE new == [req[r] EXCEPT !.at = "notify", !.answer = "new", !.row = table[req[r].mail]]
<1>1. /\ new \in Request /\ new.at = "notify" /\ new.typed = req[r].typed /\ new.mail = req[r].mail
      /\ new.given = req[r].given /\ new.row = table[req[r].mail] /\ new.answer = "new"
  BY <1>0 DEF Request, Steps, Answers
<1>2. req' = [req EXCEPT ![r] = new]
  BY <1>0 DEF Refresh
<1> HIDE DEF new
<1> QED
  BY <1>0, <1>1, <1>2 DEF Moved, Known, Mailed, Refresh

\* A step of r leaves r with what it should know; who becomes a newcomer has inserted the row;
\* a newcomer remains one unless its request dies.
LEMMA StepRequest ==
  ASSUME Known, NEW r \in Requests, Step(r)
  PROVE  /\ Moved(r) /\ RequestOK(r)'
         /\ Newcomer(r)' /\ ~Newcomer(r) =>
              ~Stored(req[r].mail) /\ DOMAIN table' = DOMAIN table \cup {req[r].mail}
         /\ DOMAIN table' = DOMAIN table \/ Newcomer(r)'
         /\ Newcomer(r) => Newcomer(r)' \/ faults' # faults
<1>k. /\ Keeps /\ RequestOK(r) /\ req[r] \in Request
  BY StepTable DEF Known, TypeOK
<1>1. CASE Submit(r)
  <2>1. table' = table /\ ~Newcomer(r)
    BY <1>1, <1>k DEF Submit, Newcomer, RequestOK, Answer, Steps
  <2> QED
    BY <1>1, <2>1, SubmitMoves
<1>2. CASE LookUp(r)
  <2>0. /\ table' = table /\ req[r].at = "look" /\ req[r].answer = "none"
    BY <1>2, <1>k DEF LookUp, RequestOK, Answer, Steps
  <2>1. CASE Finds(r) /\ Stored(req[r].mail)
    BY <2>0, <2>1, FindsMoves DEF RequestOK, Told, Answer, Steps, Newcomer, Stored
  <2>2. CASE Goes(r, "insert")
    BY <2>0, <2>2, GoesMoves DEF RequestOK, Answer, Steps, Newcomer
  <2> QED
    BY <1>2, <2>1, <2>2 DEF LookUp
<1>3. CASE Insert(r)
  <2>0. req[r].at = "insert" /\ req[r].answer = "none"
    BY <1>3, <1>k DEF Insert, RequestOK, Answer, Steps
  <2>1. CASE Stored(req[r].mail) /\ Goes(r, "again") /\ table' = table
    BY <2>0, <2>1, GoesMoves DEF RequestOK, Answer, Steps, Newcomer, Stored
  <2>2. CASE ~Stored(req[r].mail) /\ Inserts(r) /\ Goes(r, "refresh")
    <3>1. /\ DOMAIN table' = DOMAIN table \cup {req[r].mail}
          /\ table'[req[r].mail] = req[r].given
      BY <2>2 DEF Inserts
    <3> QED
      BY <2>0, <2>2, <3>1, GoesMoves DEF RequestOK, Told, Answer, Steps, Newcomer, Stored
  <2> QED
    BY <1>3, <2>1, <2>2 DEF Insert
<1>4. CASE LookAgain(r)
  <2>0. /\ table' = table /\ req[r].at = "again" /\ req[r].answer = "none"
        /\ Stored(req[r].mail) /\ Finds(r)
    BY <1>4, <1>k DEF LookAgain, RequestOK, Answer, Steps
  <2> QED
    BY <2>0, FindsMoves DEF RequestOK, Told, Answer, Steps, Newcomer, Stored
<1>5. CASE Merge(r)
  <2>0. /\ req[r].at = "merge" /\ req[r].answer = "none" /\ Stored(req[r].mail)
        /\ Goes(r, "merged") /\ Told(r, req[r].row)
    BY <1>5, <1>k DEF Merge, RequestOK, Answer, Steps
  <2>1. DOMAIN table' = DOMAIN table /\ table'[req[r].mail] = Merged(r)
    BY <1>5, <2>0 DEF Merge, Stored
  <2>2. \A c \in Columns : req[r].given[c] # Blank => Merged(r)[c] # Blank
    BY <2>0, MergedRow DEF Known, Told
  <2> QED
    BY <2>0, <2>1, <2>2, GoesMoves DEF RequestOK, Told, Answer, Steps, Newcomer, Stored
<1>6. CASE AnswerMerged(r)
  <2>0. /\ table' = table /\ req[r].at = "merged" /\ req[r].answer = "none"
        /\ Stored(req[r].mail) /\ Ends(r, "already") /\ Told(r, req[r].given)
    BY <1>6, <1>k DEF AnswerMerged, RequestOK, Answer, Steps
  <2> QED
    BY <2>0, EndsMoves DEF RequestOK, Told, Answer, Steps, Answers, Newcomer, Stored
<1>7. CASE Refresh(r)
  <2>0. /\ table' = table /\ req[r].at = "refresh"
        /\ Stored(req[r].mail) /\ Told(r, req[r].given)
    BY <1>7, <1>k DEF Refresh, RequestOK, Newcomer
  <2> QED
    BY <1>7, <2>0, RefreshMoves DEF RequestOK, Told, Answer, Steps, Newcomer, Stored
<1>8. CASE Notify(r)
  <2>0. /\ table' = table /\ req[r].at = "notify" /\ req[r].answer = "new"
        /\ Stored(req[r].mail) /\ Goes(r, "end") /\ Told(r, req[r].given)
    BY <1>8, <1>k DEF Notify, RequestOK, Answer, Steps, Newcomer
  <2> QED
    BY <2>0, GoesMoves DEF RequestOK, Told, Answer, Steps, Answers, Newcomer, Stored
<1>9. CASE Dies(r)
  <2> DEFINE answer == IF req[r].answer = "none" THEN "error" ELSE req[r].answer
  <2>0. /\ table' = table /\ req[r].at # "end" /\ Ends(r, answer)
        /\ answer \in Answers /\ faults' # faults
    BY <1>9, <1>k DEF Dies, Ends, Request, Answers, Known, TypeOK
  <2>1. answer \in {"new", "already"} => Stored(req[r].mail) /\ Told(r, req[r].given)
    BY <1>k DEF RequestOK
  <2>2. answer = "new" => req[r].answer = "new"
    OBVIOUS
  <2> HIDE DEF answer
  <2>3. /\ Moved(r) /\ req'[r].at = "end" /\ req'[r].answer = answer
        /\ req'[r].mail = req[r].mail /\ req'[r].given = req[r].given
    BY <2>0, EndsMoves
  <2> QED
    BY <2>0, <2>1, <2>2, <2>3 DEF RequestOK, Told, Answer, Steps, Answers, Newcomer, Stored
<1> QED
  BY <1>1, <1>2, <1>3, <1>4, <1>5, <1>6, <1>7, <1>8, <1>9 DEF Step

-----------------------------------------------------------------------------
(* All requests *)

\* The other requests know what they knew.
LEMMA StepKnown ==
  ASSUME Known, NEW r \in Requests, Step(r), faults \in 0..MaxFaults
  PROVE  Mailed' /\ \A s \in Requests : RequestOK(s)'
<1>1. Moved(r) /\ RequestOK(r)' /\ Keeps
  BY StepRequest, StepTable DEF Known
<1>2. ASSUME NEW s \in Requests \ {r}
      PROVE  RequestOK(s)'
  BY <1>1, <1>2 DEF Known, Moved, Keeps, RequestOK, Answer, Told, Stored, Newcomer
<1> QED
  BY <1>1, <1>2 DEF Known, Moved, Mailed

LEMMA StepNotices ==
  ASSUME FormsInv, NEW r \in Requests, Step(r)
  PROVE  /\ NoticesOK' /\ OneNoticeEach'
         /\ notices' \subseteq Requests \X Row /\ faults' \in 0..MaxFaults
<1>1. Known /\ Moved(r) /\ TypeOK /\ NoticesOK /\ OneNoticeEach
  BY StepRequest DEF FormsInv, Known
<1>2. CASE Notify(r) /\ notices' = notices \cup {<<r, req[r].row>>}
  <2>1. req[r].at = "notify" /\ req'[r].at = "end" /\ req'[r].answer = "new"
        /\ req'[r].given = req[r].given /\ req[r].row \in Row
    BY <1>1, <1>2, GoesMoves DEF Notify, Known, TypeOK, Request, RequestOK, Answer, Steps
  <2>2. \A c \in Columns : req[r].given[c] # Blank => req[r].row[c] # Blank
    BY <1>1, <2>1 DEF Known, RequestOK
  <2>3. \A n \in notices : n[1] # r /\ n[1] \in Requests
    BY <1>1, <2>1 DEF NoticesOK, TypeOK
  <2> QED
    BY <1>1, <1>2, <2>1, <2>2, <2>3 DEF NoticesOK, OneNoticeEach, Moved, TypeOK, Notify
<1>3. CASE notices' = notices
  <2>1. \A n \in notices : n[1] \in Requests /\ req[n[1]].at = "end"
    BY <1>1 DEF NoticesOK, TypeOK
  <2>2. req[r].at # "end"
    BY DEF Step, Submit, LookUp, Insert, LookAgain, Merge, AnswerMerged, Refresh, Notify, Dies
  <2>3. \A n \in notices : req'[n[1]] = req[n[1]]
    BY <1>1, <2>1, <2>2 DEF Moved
  <2>4. faults' \in 0..MaxFaults
    <3>1. faults' = faults \/ (faults > 0 /\ faults' = faults - 1)
      BY DEF Step, Submit, LookUp, Insert, LookAgain, Merge, AnswerMerged, Refresh, Notify, Dies
    <3>2. faults \in 0..MaxFaults
      BY <1>1 DEF TypeOK
    <3> QED
      BY <3>1, <3>2, FaultAssumption
  <2> QED
    BY <1>1, <1>3, <2>3, <2>4 DEF NoticesOK, OneNoticeEach, TypeOK
<1>4. notices' = notices \/ (Notify(r) /\ notices' = notices \cup {<<r, req[r].row>>})
  BY DEF Step, Submit, LookUp, Insert, LookAgain, Merge, AnswerMerged, Refresh, Notify, Dies
<1> QED
  BY <1>2, <1>3, <1>4

LEMMA StepNewcomers ==
  ASSUME FormsInv, NEW r \in Requests, Step(r)
  PROVE  NewcomersDiffer' /\ RowsHaveNewcomers' /\ ConflictsRecover'
<1>1. Known /\ Moved(r) /\ TypeOK
  BY StepRequest DEF FormsInv, Known
<1>2. \A s \in Requests \ {r} : req'[s] = req[s] /\ (Newcomer(s)' <=> Newcomer(s))
  BY <1>1 DEF Moved, Newcomer
<1>m. Newcomer(r) => req'[r].mail = req[r].mail
  BY <1>1 DEF Moved, Known, Newcomer, RequestOK, Answer, Steps
<1>n. Newcomer(r)' => req'[r].mail = req[r].mail
  BY <1>1, SubmitMoves DEF Moved, Known, Step, LookUp, Insert, LookAgain, Merge,
     AnswerMerged, Refresh, Notify, Dies
<1>f. /\ faults' = faults \/ (Dies(r) /\ faults > 0 /\ faults' = faults - 1)
      /\ faults \in 0..MaxFaults
  BY <1>1 DEF TypeOK, Step, Submit, LookUp, Insert, LookAgain, Merge, AnswerMerged, Refresh,
     Notify, Dies
<1>3. NewcomersDiffer'
  <2> SUFFICES ASSUME NEW s \in Requests \ {r}, Newcomer(r)', Newcomer(s)',
                      req'[r].mail = req'[s].mail
               PROVE  FALSE
    BY <1>2 DEF FormsInv, NewcomersDiffer
  <2>1. Newcomer(s) /\ req[s].mail = req[r].mail /\ Stored(req[s].mail)
    BY <1>1, <1>2, <1>n DEF Known, RequestOK
  <2>2. Newcomer(r)
    BY <1>1, <2>1, StepRequest
  <2> QED
    BY <2>1, <2>2 DEF FormsInv, NewcomersDiffer
<1>4. RowsHaveNewcomers'
  <2> SUFFICES ASSUME faults' = MaxFaults, NEW e \in DOMAIN table'
               PROVE  \E s \in Requests : Newcomer(s)' /\ req'[s].mail = e
    BY DEF RowsHaveNewcomers
  <2>1. faults' = faults /\ faults = MaxFaults
    BY <1>f, FaultAssumption
  <2>2. CASE e \in DOMAIN table
    <3>1. PICK s \in Requests : Newcomer(s) /\ req[s].mail = e
      BY <2>1, <2>2 DEF FormsInv, RowsHaveNewcomers
    <3> QED
      BY <1>1, <1>2, <1>m, <2>1, <3>1, StepRequest
  <2>3. CASE e \notin DOMAIN table
    <3>1. Newcomer(r)'
      BY <1>1, <2>3, StepRequest
    <3>2. e = req[r].mail
      <4>1. Newcomer(r) => Stored(req[r].mail)
        BY <1>1 DEF Known, RequestOK
      <4>2. DOMAIN table' \subseteq DOMAIN table \cup {req[r].mail}
        BY DEF Step, Submit, LookUp, Insert, Inserts, LookAgain, Merge, AnswerMerged, Refresh,
           Notify, Dies
      <4> QED
        BY <2>3, <4>2
    <3> QED
      BY <1>n, <3>1, <3>2
  <2> QED
    BY <2>2, <2>3
<1>5. ConflictsRecover'
  <2>1. req'[r].answer = "error" => req[r].answer = "error" \/ faults' = faults - 1
    <3>1. CASE Submit(r)
      BY <1>1, <3>1, SubmitMoves
    <3>2. CASE LookUp(r) \/ Insert(r) \/ Merge(r) \/ Notify(r)
      BY <1>1, <3>2 DEF LookUp, Insert, Merge, Notify, Finds, Goes, Known, TypeOK, Request
    <3>3. CASE LookAgain(r)
      <4>1. Stored(req[r].mail)
        BY <1>1, <3>3 DEF LookAgain, Known, RequestOK
      <4> QED
        BY <1>1, <3>3, <4>1, FindsMoves DEF LookAgain
    <3>4. CASE AnswerMerged(r)
      BY <1>1, <3>4, EndsMoves DEF AnswerMerged, Answers
    <3>5. CASE Refresh(r)
      BY <1>1, <3>5, RefreshMoves
    <3>6. CASE Dies(r)
      BY <3>6 DEF Dies
    <3> QED
      BY <3>1, <3>2, <3>3, <3>4, <3>5, <3>6 DEF Step
  <2> QED
    BY <1>2, <1>f, <2>1, FaultAssumption DEF FormsInv, ConflictsRecover
<1> QED
  BY <1>3, <1>4, <1>5

LEMMA FormsInvNext == FormsInv /\ [Next]_vars => FormsInv'
<1>1. ASSUME FormsInv, NEW r \in Requests, Step(r)
      PROVE  FormsInv'
  <2>1. Known /\ faults \in 0..MaxFaults /\ TypeOK
    BY <1>1 DEF FormsInv, Known, TypeOK
  <2>2. TypeOK'
    BY <1>1, <2>1, StepTable, StepRequest, StepNotices DEF TypeOK, Known, Moved
  <2> QED
    BY <1>1, <2>1, <2>2, StepKnown, StepNotices, StepNewcomers DEF FormsInv
<1>2. ASSUME FormsInv, UNCHANGED vars
      PROVE  FormsInv'
  BY <1>2 DEF FormsInv, vars, TypeOK, Mailed, RequestOK, Answer, Told, Stored, Newcomer, NoticesOK,
     OneNoticeEach, NewcomersDiffer, RowsHaveNewcomers, ConflictsRecover
<1> QED
  BY <1>1, <1>2 DEF Next, Step

LEMMA FormsInvInit == Init => FormsInv
<1> SUFFICES ASSUME Init
             PROVE  FormsInv
  OBVIOUS
<1> DEFINE new == [at |-> "idle", typed |-> Someone, mail |-> Someone,
                   given |-> NoDetails, row |-> NoDetails, answer |-> "none"]
<1>1. Someone \in Spellings /\ NormalForm[Someone] = Someone
  BY NormalAssumption DEF Someone
<1>2. new \in Request /\ req = [r \in Requests |-> new]
  BY <1>1 DEF Init, Request, Steps, Answers, Row, NoDetails
<1>3. new.at = "idle" /\ new.answer = "none" /\ new.mail = Someone /\ new.typed = Someone
  OBVIOUS
<1>4. DOMAIN table = {} /\ notices = {} /\ faults = MaxFaults
  BY DEF Init
<1> HIDE DEF new
<1>5. TypeOK
  BY <1>2, <1>4, FaultAssumption DEF TypeOK
<1> QED
  BY <1>1, <1>2, <1>3, <1>4, <1>5 DEF FormsInv, Mailed, RequestOK, Answer, Steps, Newcomer,
     NoticesOK, OneNoticeEach, NewcomersDiffer, RowsHaveNewcomers, ConflictsRecover

-----------------------------------------------------------------------------
(* The theorems *)

\* However many forms for one address overlap and however it is spelled: one of them is the
\* newcomer and is mailed once, no conflict ends in an error, and what was answered and mailed
\* contains what the form said (services.py:127-177, routes.py:35).
THEOREM OneNewcomerEach == Spec => []Inv
<1>1. FormsInv => Inv
  <2> SUFFICES ASSUME FormsInv
               PROVE  OneNewcomer /\ NothingIsForgotten
    BY DEF FormsInv, Inv
  <2>1. \A r, s \in Requests : SamePerson(r, s) <=> req[r].mail = req[s].mail
    BY DEF FormsInv, Mailed, SamePerson
  <2>2. \A n \in notices : n[1] \in Requests /\ Newcomer(n[1])
    BY DEF FormsInv, TypeOK, NoticesOK, Newcomer
  <2>3. OneNewcomer
    BY <2>1, <2>2 DEF FormsInv, OneNewcomer, NewcomersDiffer, OneNoticeEach, RowsHaveNewcomers
  <2>4. NothingIsForgotten
    BY DEF FormsInv, RequestOK, Told, NoticesOK, NothingIsForgotten
  <2> QED
    BY <2>3, <2>4
<1> QED
  BY <1>1, FormsInvInit, FormsInvNext, PTL DEF Spec

\* A request that has read a whole row writes those columns of it that its form says something
\* about, and to what it says (_merge_signup_details).
THEOREM FormsAddTheirOwn == Spec => OnlyOwnColumns
<1>1. FormsInv /\ [Next]_vars =>
        [\A e \in DOMAIN table, c \in Columns : table'[e][c] # table[e][c] =>
           \E r \in Requests : req[r].at # req'[r].at /\ table'[e][c] = req[r].given[c]]_vars
  <2> SUFFICES ASSUME FormsInv, NEW r \in Requests, Step(r), NEW e \in DOMAIN table,
                      NEW c \in Columns, table'[e][c] # table[e][c]
               PROVE  req[r].at # req'[r].at /\ table'[e][c] = req[r].given[c]
    BY DEF Next, Step
  <2>1. Known
    BY DEF FormsInv, Known
  <2>2. req[r].at # req'[r].at
    BY <2>1, StepRequest DEF Moved
  <2>3. CASE Merge(r)
    <3>1. Stored(req[r].mail) /\ e = req[r].mail /\ table'[e] = Merged(r)
      BY <2>1, <2>3 DEF Merge, Known, RequestOK, Stored
    <3> QED
      BY <2>1, <2>2, <3>1, MergedRow DEF Known
  <2>4. CASE Insert(r)
    BY <2>4 DEF Insert, Inserts, Stored
  <2> QED
    BY <2>3, <2>4 DEF Step, Submit, LookUp, LookAgain, AnswerMerged, Refresh, Notify, Dies
<1> QED
  BY <1>1, FormsInvInit, FormsInvNext, PTL DEF Spec, OnlyOwnColumns
=============================================================================
