------------------------------ MODULE Requests ------------------------------
(***************************************************************************)
(* The way of a request through the application (app/main.py): the         *)
(* observability middleware, inside it CORS, inside that the handlers of   *)
(* exceptions and the routes, whose handlers are those of ApiKeys, Sites,  *)
(* Posters and Projects or of another part of the API.  What one raises    *)
(* becomes an answer (app/core/errors.py), is counted                      *)
(* (app/core/metrics.py) and, when it is the fault of the server, mailed   *)
(* to the team after the answer (app/core/failure_alerts.py).  The process *)
(* may end at any time.                                                    *)
(***************************************************************************)
EXTENDS Integers, FiniteSets, Sequences

CONSTANTS
  Reqs,       \* bound: the requests
  Mixes,      \* bound: what part of the API they are for and where they come from
  MaxStops,   \* bound: how often the process ends
  MaxKeys, TiersSeen, MaxSites, Columns, Texts, MaxAssets, Letters, Knowledge, MaxImages, PatchFields

Areas == {"keys", "sites", "posters", "prompts", "projects", "other"}
\* A page of an allowed origin, one that sends cookies, and any other page.
Origins == {"page", "page_with_cookies", "elsewhere"}

ASSUME MixesAssumption == IsFiniteSet(Reqs) /\ Mixes \subseteq [Reqs -> Areas \X Origins]
ASSUME BoundsAssumption ==
  /\ MaxStops \in Nat
  /\ MaxKeys \in Nat \ {0} /\ MaxSites \in Nat \ {0} /\ MaxAssets \in Nat \ {0}
\* A request, like the text of a column, is not mistaken for none.
ASSUME RowsAssumption == "files" \in Columns /\ Texts # {} /\ "none" \notin Reqs \cup Texts
\* The letters differ from the versions that are none.
ASSUME LettersAssumption ==
  Letters \in Seq(STRING) \ {<<>>} /\ \A i \in DOMAIN Letters : Letters[i] \notin {"1", "Z1"}

VARIABLES
  req,        \* the requests
  told,       \* the alerts that were handed to the mailer: <<request, status>>
  metrics,    \* _total_requests and _error_requests of the process
  stops,
  key, tier, keycall,       \* ApiKeys
  site, sitecall,               \* Sites
  asset, postercall,            \* Posters
  account, made, project, document, ids, projectcall    \* Projects

K == INSTANCE ApiKeys WITH Calls <- Reqs, call <- keycall
S == INSTANCE Sites WITH Calls <- Reqs, call <- sitecall
P == INSTANCE Posters WITH Calls <- Reqs, call <- postercall
J == INSTANCE Projects WITH Calls <- Reqs, call <- projectcall

ASSUME KnowledgeAssumption == Knowledge \subseteq SUBSET P!Sources

shell == <<req, told, metrics, stops>>
keys == <<key, tier, keycall>>
sites == <<site, sitecall>>
posters == <<asset, postercall>>
projects == <<account, made, project, document, ids, projectcall>>
parts == <<keys, sites, posters, projects>>
vars == <<shell, parts>>

\* What a handler can raise, and the status of the answer.
StatusOf ==
  [unauthorized |-> 401, forbidden |-> 403, not_found |-> 404, method |-> 405,
   bad_request |-> 400, value_error |-> 400, invalid |-> 400, conflict |-> 409,
   gate |-> 422, rate |-> 429, crash |-> 500, bad_gateway |-> 502, unavailable |-> 503]
Exceptions == DOMAIN StatusOf
Statuses == {0, 200} \cup {StatusOf[e] : e \in Exceptions}

\* status: 0 until it is answered; alert: one is attached to the answer; allowed: the
\* origin of the page may read it; lost: the process ended before the answer or the
\* alert was sent; counted: the process still counts it.
Request == [at : {"idle", "handler", "sending", "streaming", "alerting", "end"},
            area : Areas, origin : Origins, status : Statuses, alert : BOOLEAN,
            allowed : BOOLEAN, lost : BOOLEAN, counted : BOOLEAN]

Init ==
  /\ \E mix \in Mixes :
       req = [r \in Reqs |-> [at |-> "idle", area |-> mix[r][1], origin |-> mix[r][2],
                              status |-> 0, alert |-> FALSE, allowed |-> FALSE,
                              lost |-> FALSE, counted |-> FALSE]]
  /\ told = {}
  /\ metrics = [total |-> 0, errors |-> 0]
  /\ stops = 0
  /\ K!Init /\ S!Init /\ P!Init /\ J!Init

-----------------------------------------------------------------------------
(* Errors *)

\* _default_error_info.  The error classes repeat its categories.
Category(status) ==
  CASE status = 401 -> "auth"
    [] status = 403 -> "permission"
    [] status = 404 -> "not_found"
    [] status \in {409, 422} -> "conflict"
    [] status = 429 -> "rate_limit"
    [] status \in 502..504 -> "service"
    [] status = 500 -> "server"
    [] OTHER -> "validation"
Retryable(status) == Category(status) \in {"rate_limit", "service", "server"}

RoutineCategories == {"auth", "permission", "not_found", "validation", "conflict", "rate_limit"}
RoutineStatuses == {400, 401, 403, 404, 409, 422, 429}

\* Mutant of ShouldAlert: what the client may try again is routine.
ShouldAlertFinal(status, category) ==
  status >= 400 /\ category \notin RoutineCategories /\ ~Retryable(status)

\* _should_send_failure_alert; the category is that of the context, if error_response
\* left one.
ShouldAlert(status, category) ==
  \/ status >= 500
  \/ status >= 400 /\ category \notin RoutineCategories /\ status \notin RoutineStatuses

\* record_request.
Recorded(status) ==
  [total |-> metrics.total + 1, errors |-> metrics.errors + IF status >= 500 THEN 1 ELSE 0]

\* Can the page read the answer?  CORSMiddleware permits it, and
\* _generic_exception_handler does when an exception has passed that by, but not for
\* requests with cookies.
MayRead(origin, exception) ==
  \/ origin = "page"
  \/ origin = "page_with_cookies" /\ exception # "crash"

\* The answer leaves the middleware with its alert, and is counted.
Answers(r, status, step, allowed) ==
  /\ req' = [req EXCEPT ![r].at = step, ![r].status = status,
                        ![r].alert = ShouldAlert(status, Category(status)),
                        ![r].allowed = allowed, ![r].counted = TRUE]
  /\ metrics' = Recorded(status)
  /\ UNCHANGED <<told, stops>>

Raises(r, exception) ==
  Answers(r, StatusOf[exception], "sending", MayRead(req[r].origin, exception))

Succeeds(r, result) ==
  Answers(r, 200, IF result = "stream" THEN "streaming" ELSE "sending",
          MayRead(req[r].origin, "none"))

-----------------------------------------------------------------------------
At(r, step) == req[r].at = step
Moves(r, step) == req' = [req EXCEPT ![r].at = step]

\* The request reaches its handler, which goes on until it returns or raises.
Part(r, area, Begin, Step) ==
  /\ req[r].area = area
  /\ \/ At(r, "idle") /\ Moves(r, "handler") /\ Begin
     \/ At(r, "handler") /\ Step /\ UNCHANGED req
  /\ UNCHANGED <<told, metrics, stops>>

HandleKeys(r) ==
  /\ Part(r, "keys", K!Begin(r), K!Step(r))
  /\ UNCHANGED <<sites, posters, projects>>
HandleSites(r) ==
  /\ Part(r, "sites", S!Begin(r), S!Step(r))
  /\ UNCHANGED <<keys, posters, projects>>
HandlePosters(r) ==
  /\ Part(r, "posters", P!Begin(r), P!Step(r))
  /\ UNCHANGED <<keys, sites, projects>>
HandlePrompts(r) ==
  /\ Part(r, "prompts", P!BeginPrompt(r), P!StepPrompt(r))
  /\ UNCHANGED <<keys, sites, projects>>
HandleProjects(r) ==
  /\ Part(r, "projects", J!Begin(r), J!Step(r))
  /\ UNCHANGED <<keys, sites, posters>>

\* The call of the handler.
Call(r) ==
  CASE req[r].area = "keys" -> keycall[r]
    [] req[r].area = "sites" -> sitecall[r]
    [] req[r].area \in {"posters", "prompts"} -> postercall[r]
    [] req[r].area = "projects" -> projectcall[r]

\* The handler returns or raises.
Answer(r) ==
  /\ At(r, "handler") /\ Call(r).at = "end"
  /\ LET result == Call(r).result
     IN IF result \in Exceptions THEN Raises(r, result) ELSE Succeeds(r, result)
  /\ UNCHANGED parts

\* The handlers of the other parts of the API, or what comes before a handler: there is
\* no such route or method, the body is not valid, the client is too fast or unknown.
AnswerOther(r) ==
  /\ At(r, "idle") /\ req[r].area = "other"
  /\ \/ \E exception \in Exceptions : Raises(r, exception)
     \/ \E result \in {"fine", "stream"} : Succeeds(r, result)
  /\ UNCHANGED parts

\* A stream ends, or breaks when its provider fails after the first text: the answer
\* was a 200, so nobody is told.
Stream(r) ==
  /\ At(r, "streaming")
  /\ Moves(r, "end")
  /\ UNCHANGED <<told, metrics, stops, parts>>

\* The client gets the answer; its background task comes afterwards.
Send(r) ==
  /\ At(r, "sending")
  /\ Moves(r, IF req[r].alert THEN "alerting" ELSE "end")
  /\ UNCHANGED <<told, metrics, stops, parts>>

\* send_failure_alert_email (FailureAlerts).
Alert(r) ==
  /\ At(r, "alerting")
  /\ told' = told \cup {<<r, req[r].status>>}
  /\ Moves(r, "end")
  /\ UNCHANGED <<metrics, stops, parts>>

\* The process ends, with everything it had not sent and with its numbers.
Stop ==
  /\ stops < MaxStops
  /\ stops' = stops + 1
  /\ metrics' = [total |-> 0, errors |-> 0]
  /\ req' = [r \in Reqs |->
               IF req[r].at \in {"idle", "end"} THEN [req[r] EXCEPT !.counted = FALSE]
               ELSE [req[r] EXCEPT !.at = "end", !.lost = TRUE, !.counted = FALSE]]
  /\ UNCHANGED <<told, parts>>

\* Keys expire and accounts change their tier by themselves.
Outside ==
  /\ K!Expire \/ K!ChangeTier
  /\ UNCHANGED <<shell, sites, posters, projects>>

Next ==
  \/ Stop \/ Outside
  \/ \E r \in Reqs :
       \/ HandleKeys(r) \/ HandleSites(r) \/ HandlePosters(r)
       \/ HandlePrompts(r) \/ HandleProjects(r)
       \/ Answer(r) \/ AnswerOther(r) \/ Stream(r) \/ Send(r) \/ Alert(r)

Spec == Init /\ [][Next]_vars

-----------------------------------------------------------------------------
(* Properties *)

TypeOK ==
  /\ req \in [Reqs -> Request]
  /\ told \subseteq Reqs \X Statuses
  /\ metrics \in [total : Nat, errors : Nat]
  /\ stops \in 0..MaxStops
  /\ K!TypeOK /\ S!TypeOK /\ P!TypeOK /\ J!TypeOK

\* The numbers of the process are those of the answers it has given (metrics.py:28-43).
NumbersAreRight ==
  /\ metrics.total = Cardinality({r \in Reqs : req[r].counted})
  /\ metrics.errors = Cardinality({r \in Reqs : req[r].counted /\ req[r].status >= 500})

\* The team hears of every failure of the server and of nothing else: the mail follows
\* each answer of 500 and above, under its own status, unless the process ended in
\* between, and never a refusal that the client is to blame for, whatever raised it
\* (failure_alerts.py:141-178).
FailuresAreTold ==
  /\ \A r \in Reqs : At(r, "end") /\ ~req[r].lost /\ req[r].status >= 500 =>
       <<r, req[r].status>> \in told
  /\ \A t \in told : t[2] >= 500 /\ t[2] = req[t[1]].status

\* A page of an allowed origin can read every error it is answered with, a crash too
\* (main.py:100-103), as long as it sends no cookies; no other page can.
ErrorsAreReadable == \A r \in Reqs : req[r].status >= 400 =>
  /\ req[r].origin = "page" => req[r].allowed
  /\ req[r].origin = "elsewhere" => ~req[r].allowed

\* What holds of the answers and of the rows of the parts.
Inv ==
  /\ TypeOK /\ NumbersAreRight /\ ErrorsAreReadable
  /\ K!CountsAreUses /\ S!OneSite /\ S!VisitorsSeeThePublished /\ J!NoOrphans

\* What a client was told has happened has happened for good, whatever handlers that
\* were under way do afterwards and even if the process ends: a revoked key is never
\* valid again, a deleted row is gone, a page that was taken down is not live, nothing
\* of a deleted account is left, and forms and the ids of specs are kept.
Told(r) == req[r].status = 200 /\ At(r, "end") /\ ~req[r].lost
AnswersAreKept == J!FormsAreKept /\ J!IdsAreKept /\ \A r \in Reqs : Told(r) =>
  /\ req[r].area = "keys" /\ Call(r).op = "revoke" => ~K!Valid(Call(r).k)
  /\ req[r].area = "keys" /\ Call(r).op = "delete" => ~K!Stored(Call(r).k)
  /\ req[r].area = "sites" /\ Call(r).op = "unpublish" => ~S!Live(Call(r).s)
  /\ req[r].area = "sites" /\ Call(r).op = "delete" => ~S!Stored(Call(r).s)
  /\ req[r].area = "posters" /\ Call(r).op = "delete" => ~P!Stored(Call(r).a)
  /\ req[r].area = "projects" /\ Call(r).op = "remove" => ~document
  /\ req[r].area = "projects" /\ Call(r).op = "close" => ~account

\* The properties of the parts, each stated in its module.

\* What is dead stays dead: keys that were revoked, deleted or have expired, and pages
\* that are not live.
NothingRevives == [][K!DeadKeysStayDead /\ S!DownStaysDown]_vars
\* Only overlapping requests give two versions of one type the same letter.
LettersTellVersions == P!LettersTellVersions
\* A prompt demands exactly the files of its slots, and makes nothing up that some
\* source knows.
PromptsAreExact == P!PromptsAreExact
=============================================================================
