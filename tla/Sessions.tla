------------------------------ MODULE Sessions ------------------------------
(***************************************************************************)
(* Signing in and staying signed in (app/core/auth).  The browsers of one  *)
(* person send requests that overlap; each holds a refresh token in its    *)
(* cookie jar, the server keeps one row per session with the hash of the   *)
(* token that is valid now.  Requests run in threads of the pool, each     *)
(* with a transaction of its own (READ COMMITTED): a statement sees the    *)
(* rows that are committed when it starts, and a row that another          *)
(* transaction has locked is waited for and then looked at again.          *)
(*                                                                         *)
(* Requests that are refused for a wrong password change nothing and are   *)
(* left out, as are access tokens, which the server does not store.        *)
(***************************************************************************)
EXTENDS Integers, FiniteSets

CONSTANTS
  Browsers,
  Requests,       \* bound: requests in flight at the same time
  Ops,            \* the kinds of request that are sent
  MaxSent,        \* bound: requests sent
  MaxFaults       \* bound: requests that die or whose answer is lost, expiries

SignIns == {"verify", "register", "login", "google"}
AllOps == SignIns \cup {"sendcode", "forgot", "refresh", "logout", "reset", "change", "delete"}

ASSUME BrowsersAssumption == IsFiniteSet(Browsers)
ASSUME OpsAssumption == Ops \subseteq AllOps
ASSUME BoundsAssumption == MaxSent \in Nat /\ MaxFaults \in Nat

None == 0         \* no user, no token, no session, no secret

VARIABLES
  user,           \* the id of the User row with the person's email, or None
  sessions,       \* the RefreshTokenSession rows
  secrets,        \* the unexpired EmailLoginCode and PasswordResetToken rows
  jar,            \* the refresh token in the cookie jar of each browser
  req,            \* the requests in flight
  issued,         \* the number of users, tokens and secrets created so far
  sent, faults,   \* the bounds used up
  heirs,          \* history: <<a token, the token that replaced it>>
  revoked,        \* history: the sessions that a password change found
  spent,          \* history: the secrets whose request was answered
  steady          \* history: the browsers that nothing should have signed out

rows == <<user, sessions, secrets>>
history == <<heirs, revoked, spent, steady>>
vars == <<rows, jar, req, issued, sent, faults, history>>

\* sid is the primary key, tok the token whose hash the row holds now.
Session == [sid : Nat \ {None}, tok : Nat \ {None}, fresh : BOOLEAN]

Steps == {"find", "create", "consume", "issue", "clear", "store",
          "lock", "rotate", "revoke", "reset", "wipe", "others", "lockothers", "own", "all",
          "delete", "answer"}

\* at: the next step; tok: the cookie sent; secret: the code or link sent;
\* uid: the user of the request; old, want: the secrets and the sessions that a
\* statement has found; held: the rows the transaction has locked; cookie: what
\* the answer does to the jar (a token, or one of these).
Keep == -1
Clear == None
Request ==
  [at : Steps, op : AllOps, b : Browsers, tok : Nat, secret : Nat, uid : Nat,
   old : SUBSET Nat, want : SUBSET Session, held : SUBSET Nat, cookie : Nat \cup {Keep}]

Fresh == issued + 1

Live == {s.tok : s \in {x \in sessions : x.fresh}}
WithToken(tok) == {s \in sessions : s.tok = tok}
Sids(set) == {s.sid : s \in set}

Active == {r \in Requests : req[r].at # "idle"}
ActiveOf(b) == {r \in Active : req[r].b = b}

\* The rows locked by another request.
LockedFor(r) == UNION {req[q].held : q \in Active \ {r}}

\* The first step of each kind of request.
First(op) ==
  CASE op \in SignIns -> "find"
    [] op \in {"sendcode", "forgot"} -> "clear"
    [] op = "refresh" -> "lock"
    [] op = "logout" -> "revoke"
    [] op = "reset" -> "reset"
    [] op = "change" -> "others"
    [] op = "delete" -> "delete"

NoRequest == [at |-> "idle"]

\* The person has an account and is signed in on every browser, or has none.
Init ==
  /\ \/ user = None /\ issued = 0 /\ sessions = {} /\ jar = [b \in Browsers |-> None]
     \/ /\ user = 1
        /\ issued = 1 + Cardinality(Browsers)
        /\ jar \in [Browsers -> 2..issued]
        /\ \A b, c \in Browsers : jar[b] = jar[c] => b = c
        /\ sessions = {[sid |-> jar[b], tok |-> jar[b], fresh |-> TRUE] : b \in Browsers}
  /\ secrets = {}
  /\ req = [r \in Requests |-> NoRequest]
  /\ sent = 0 /\ faults = 0
  /\ heirs = {} /\ revoked = {} /\ spent = {}
  /\ steady = {b \in Browsers : jar[b] # None}

-----------------------------------------------------------------------------
(* Steps of a request that several operations share. *)

At(r, step) == req[r].at = step

Becomes(r, new) == req' = [req EXCEPT ![r] = new]

\* The request goes on to another step.
GoTo(r, step) == Becomes(r, [req[r] EXCEPT !.at = step])

\* The transaction ends, its locks are released and the answer is on its way.
Answered(r, cookie) ==
  [req[r] EXCEPT !.at = "answer", !.old = {}, !.want = {}, !.held = {}, !.cookie = cookie]
Answer(r, cookie) == Becomes(r, Answered(r, cookie))

\* Mutant of Refuse: the cleared cookie reaches the browser.
RefuseAndClear(r) == Answer(r, Clear)

\* An error: the cookie set on `response` is dropped with it, as the handler of
\* the exception builds a response of its own.
Refuse(r) == Answer(r, Keep)

\* A browser sends a request with the token in its jar.  A request that signs
\* the browser out on purpose ends its steadiness.
Send(r, b, op, secret) ==
  /\ At(r, "idle") /\ sent < MaxSent /\ op \in Ops
  /\ op \in {"verify", "reset"} <=> secret # None
  /\ op \in {"change", "delete"} => user # None
  /\ sent' = sent + 1
  /\ Becomes(r, [at |-> First(op), op |-> op, b |-> b, tok |-> jar[b], secret |-> secret,
                 uid |-> user, old |-> {}, want |-> {}, held |-> {}, cookie |-> Keep])
  /\ steady' = IF op \in {"logout", "change", "delete"} THEN steady \ {b} ELSE steady
  /\ UNCHANGED <<rows, jar, issued, faults, heirs, revoked, spent>>

\* The browser takes in an answer; answers arrive in any order.
Receive(r) ==
  /\ At(r, "answer")
  /\ LET b == req[r].b
         cookie == req[r].cookie
     IN  /\ jar' = [jar EXCEPT ![b] = IF cookie = Keep THEN @ ELSE cookie]
         /\ steady' = IF req[r].op \in SignIns /\ cookie \in Live /\ ActiveOf(b) = {r}
                        THEN steady \cup {b} ELSE steady
  /\ Becomes(r, NoRequest)
  /\ UNCHANGED <<rows, issued, sent, faults, heirs, revoked, spent>>

\* The process dies, which rolls an open transaction back, or the answer is lost.
Fail(r) ==
  /\ r \in Active /\ faults < MaxFaults
  /\ faults' = faults + 1
  /\ steady' = steady \ {req[r].b}
  /\ Becomes(r, NoRequest)
  /\ UNCHANGED <<rows, jar, issued, sent, heirs, revoked, spent>>

-----------------------------------------------------------------------------
(* Login codes and reset links. *)

\* Kinds of secret do not share a table.
Kind(op) == IF op \in {"sendcode", "verify"} THEN "code" ELSE "link"
Secrets(op) == {k.id : k \in {x \in secrets : x.kind = Kind(op)}}
Without(set) == {k \in secrets : k.id \notin set}

\* send_login_code, forgot_password: the earlier secrets are found ...
FindEarlier(r) ==
  /\ At(r, "clear")
  /\ IF req[r].op = "forgot" /\ user = None
       THEN Answer(r, Keep)
       ELSE Becomes(r, [req[r] EXCEPT !.at = "store", !.old = Secrets(req[r].op)])
  /\ UNCHANGED <<rows, jar, issued, sent, faults, history>>

\* ... and replaced by a new one, which is mailed.
StoreSecret(r) ==
  /\ At(r, "store")
  /\ secrets' = Without(req[r].old) \cup {[kind |-> Kind(req[r].op), id |-> Fresh]}
  /\ issued' = Fresh
  /\ Answer(r, Keep)
  /\ UNCHANGED <<user, sessions, jar, sent, faults, history>>

-----------------------------------------------------------------------------
(* Signing in: verify_login_code, register, login, google_login. *)

\* The account is looked up, after the code in the case of verify_login_code.
FindAccount(r) ==
  /\ At(r, "find")
  /\ LET op == req[r].op
         found == user # None
     IN  \/ /\ \/ op = "verify" /\ req[r].secret \notin Secrets(op)
               \/ op = "register" /\ found
               \/ op = "login" /\ ~found
            /\ Refuse(r)
         \/ /\ op = "verify" => req[r].secret \in Secrets(op)
            /\ op = "register" => ~found
            /\ op = "login" => found
            /\ Becomes(r, [req[r] EXCEPT
                 !.uid = user,
                 !.at = CASE ~found -> "create" [] op = "verify" -> "consume" [] OTHER -> "issue"])
  /\ UNCHANGED <<rows, jar, issued, sent, faults, history>>

\* A new user; the unique email refuses the second of two.
CreateAccount(r) ==
  /\ At(r, "create")
  /\ IF user = None
       THEN /\ user' = Fresh /\ issued' = Fresh
            /\ Becomes(r, [req[r] EXCEPT
                 !.uid = Fresh, !.at = IF req[r].op = "verify" THEN "consume" ELSE "issue"])
       ELSE Refuse(r) /\ UNCHANGED <<user, issued>>
  /\ UNCHANGED <<sessions, secrets, jar, sent, faults, history>>

\* The code is deleted; that another request has done so first is only a warning.
ConsumeCode(r) ==
  /\ At(r, "consume")
  /\ secrets' = Without({req[r].secret})
  /\ GoTo(r, "issue")
  /\ UNCHANGED <<user, sessions, jar, issued, sent, faults, history>>

\* _issue_token_response: the session of the cookie is revoked and a new one is
\* created for the user, unless the user is gone by now (foreign key).
IssueToken(r) ==
  /\ At(r, "issue")
  /\ IF req[r].uid # user
       THEN Refuse(r) /\ UNCHANGED <<sessions, issued, spent>>
       ELSE /\ Sids(WithToken(req[r].tok)) \cap LockedFor(r) = {}
            /\ sessions' = (sessions \ WithToken(req[r].tok)) \cup
                             {[sid |-> Fresh, tok |-> Fresh, fresh |-> TRUE]}
            /\ issued' = Fresh
            /\ spent' = spent \cup ({req[r].secret} \ {None})
            /\ Answer(r, Fresh)
  /\ UNCHANGED <<user, secrets, jar, sent, faults, heirs, revoked, steady>>

-----------------------------------------------------------------------------
(* Rotation and logout. *)

\* _get_refresh_token_session: SELECT ... FOR UPDATE by the hash of the token.
LockSession(r, next) ==
  /\ Sids(WithToken(req[r].tok)) \cap LockedFor(r) = {}
  /\ IF \E s \in WithToken(req[r].tok) : s.fresh
       THEN Becomes(r, [req[r] EXCEPT !.at = next, !.held = @ \cup Sids(WithToken(req[r].tok))])
       ELSE Refuse(r)

\* refresh_access_token.
BeginRefresh(r) ==
  /\ At(r, "lock")
  /\ LockSession(r, "rotate")
  /\ UNCHANGED <<rows, jar, issued, sent, faults, history>>

\* rotate_refresh_token_session: the row of session sid gets a new token.
Rotated(set, sid) ==
  {IF s.sid = sid THEN [s EXCEPT !.tok = Fresh, !.fresh = TRUE] ELSE s : s \in set}

CommitRefresh(r) ==
  /\ At(r, "rotate")
  /\ \E sid \in req[r].held : sessions' = Rotated(sessions, sid)
  /\ issued' = Fresh
  /\ heirs' = heirs \cup {<<req[r].tok, Fresh>>}
  /\ Answer(r, Fresh)
  /\ UNCHANGED <<user, secrets, jar, sent, faults, revoked, spent, steady>>

Logout(r) ==
  /\ At(r, "revoke")
  /\ Sids(WithToken(req[r].tok)) \cap LockedFor(r) = {}
  /\ sessions' = sessions \ WithToken(req[r].tok)
  /\ Answer(r, Clear)
  /\ UNCHANGED <<user, secrets, jar, issued, sent, faults, history>>

-----------------------------------------------------------------------------
(* Passwords and the end of the account. *)

\* Mutant of Erase: the rows are deleted by the hashes that were read.
EraseAsRead(found) == sessions \ found

\* The rows that were found are deleted, whatever their token is by now.
Erase(found) == {s \in sessions : s.sid \notin Sids(found)}

\* reset_password finds the link and the user, hashes the password ...
FindLink(r) ==
  /\ At(r, "reset")
  /\ IF req[r].secret \in Secrets("reset") /\ user # None
       THEN Becomes(r, [req[r] EXCEPT !.at = "wipe", !.uid = user])
       ELSE Refuse(r)
  /\ UNCHANGED <<rows, jar, issued, sent, faults, history>>

\* revoke_user_refresh_token_sessions: the DELETE finds the user's rows ...
FindSessions(r) ==
  /\ At(r, "wipe")
  /\ Becomes(r, [req[r] EXCEPT !.at = "all", !.want = sessions])
  /\ UNCHANGED <<rows, jar, issued, sent, faults, history>>

\* ... waits for those that are locked, and the request commits.  A link is
\* deleted with them.  The UPDATE of a user who is gone by now is an error.
RevokeAll(r) ==
  /\ At(r, "all")
  /\ Sids(req[r].want) \cap LockedFor(r) = {}
  /\ IF user # req[r].uid
       THEN Refuse(r) /\ UNCHANGED <<sessions, secrets, revoked, spent, steady>>
       ELSE /\ sessions' = Erase(req[r].want)
            /\ secrets' = Without({req[r].secret})
            /\ revoked' = revoked \cup Sids(req[r].want)
            /\ spent' = spent \cup ({req[r].secret} \ {None})
            /\ steady' = {}
            /\ Answer(r, IF req[r].op = "change" THEN Clear ELSE Keep)
  /\ UNCHANGED <<user, jar, issued, sent, faults, heirs>>

\* change_password: the DELETE finds the rows but the one of the cookie ...
FindOthers(r) ==
  /\ At(r, "others")
  /\ IF user # req[r].uid
       THEN Refuse(r)
       ELSE Becomes(r, [req[r] EXCEPT
              !.want = sessions \ WithToken(req[r].tok),
              !.at = IF req[r].tok = None THEN "all" ELSE "lockothers"])
  /\ UNCHANGED <<rows, jar, issued, sent, faults, history>>

\* ... and locks them until the commit, deleted ...
LockOthers(r) ==
  /\ At(r, "lockothers")
  /\ Sids(req[r].want) \cap LockedFor(r) = {}
  /\ Becomes(r, [req[r] EXCEPT !.at = "own", !.held = Sids(req[r].want)])
  /\ UNCHANGED <<rows, jar, issued, sent, faults, history>>

\* ... then its own session is rotated, or all are revoked if it is gone.
ChangePassword(r) ==
  /\ At(r, "own")
  /\ Sids(WithToken(req[r].tok)) \cap LockedFor(r) = {}
  /\ LET kept == {s \in WithToken(req[r].tok) : s.fresh}
     IN  CASE user # req[r].uid ->
                Refuse(r) /\ UNCHANGED <<sessions, issued, heirs, revoked, steady>>
           [] user = req[r].uid /\ kept = {} ->
                /\ Becomes(r, [req[r] EXCEPT !.at = "all", !.want = @ \cup sessions])
                /\ UNCHANGED <<sessions, issued, heirs, revoked, steady>>
           [] OTHER ->
                /\ \E s \in kept : sessions' = Rotated(Erase(req[r].want), s.sid)
                /\ issued' = Fresh
                /\ heirs' = heirs \cup {<<req[r].tok, Fresh>>}
                /\ revoked' = revoked \cup Sids(req[r].want)
                /\ steady' = {}
                /\ Answer(r, Fresh)
  /\ UNCHANGED <<user, secrets, jar, sent, faults, spent>>

\* The rows a request waits for.
WaitsFor(r) ==
  CASE At(r, "own") -> Sids(WithToken(req[r].tok))
    [] req[r].at \in {"all", "lockothers"} -> Sids(req[r].want)
    [] OTHER -> {}

\* Two requests wait for each other; PostgreSQL aborts one of them.
AbortDeadlock(r) ==
  /\ \E q \in Active \ {r} : /\ WaitsFor(r) \cap req[q].held # {}
                             /\ WaitsFor(q) \cap req[r].held # {}
  /\ Refuse(r)
  /\ UNCHANGED <<rows, jar, issued, sent, faults, history>>

\* delete_account: the codes and links, the sessions and the user.
DeleteAccount(r) ==
  /\ At(r, "delete")
  /\ Sids(sessions) \cap LockedFor(r) = {}
  /\ IF user # req[r].uid
       THEN Refuse(r) /\ UNCHANGED <<rows, revoked, steady>>
       ELSE /\ user' = None /\ sessions' = {} /\ secrets' = {}
            /\ revoked' = revoked \cup Sids(sessions)
            /\ steady' = {}
            /\ Answer(r, Clear)
  /\ UNCHANGED <<jar, issued, sent, faults, heirs, spent>>

-----------------------------------------------------------------------------
(* Time. *)

ExpireSession(s) ==
  /\ faults < MaxFaults /\ s.fresh /\ s.sid \notin UNION {req[q].held : q \in Active}
  /\ faults' = faults + 1
  /\ sessions' = (sessions \ {s}) \cup {[s EXCEPT !.fresh = FALSE]}
  /\ steady' = {}
  /\ UNCHANGED <<user, secrets, jar, req, issued, sent, heirs, revoked, spent>>

ExpireSecret(k) ==
  /\ faults < MaxFaults
  /\ faults' = faults + 1
  /\ secrets' = secrets \ {k}
  /\ UNCHANGED <<user, sessions, jar, req, issued, sent, history>>

Step(r) ==
  \/ FindEarlier(r) \/ StoreSecret(r)
  \/ FindAccount(r) \/ CreateAccount(r) \/ ConsumeCode(r) \/ IssueToken(r)
  \/ BeginRefresh(r) \/ CommitRefresh(r) \/ Logout(r)
  \/ FindLink(r) \/ FindSessions(r) \/ RevokeAll(r)
  \/ FindOthers(r) \/ LockOthers(r) \/ ChangePassword(r) \/ AbortDeadlock(r)
  \/ DeleteAccount(r)

Next ==
  \/ \E r \in Requests :
       \/ \E b \in Browsers, op \in Ops, secret \in {k.id : k \in secrets} \cup {None} :
            Send(r, b, op, secret)
       \/ Step(r) \/ Receive(r) \/ Fail(r)
  \/ \E s \in sessions : ExpireSession(s)
  \/ \E k \in secrets : ExpireSecret(k)

Spec == Init /\ [][Next]_vars

-----------------------------------------------------------------------------
(* Properties *)

\* The types; and a transaction locks only rows it works on, none afterwards.
TypeOK ==
  /\ user \in Nat /\ issued \in Nat /\ sent \in 0..MaxSent /\ faults \in 0..MaxFaults
  /\ sessions \subseteq Session
  /\ secrets \subseteq [kind : {"code", "link"}, id : Nat \ {None}]
  /\ jar \in [Browsers -> Nat]
  /\ req \in [Requests -> Request \cup {NoRequest}]
  /\ \A r \in Active : req[r].held # {} => req[r].at \in {"rotate", "own", "all"}
  /\ heirs \subseteq Nat \X Nat
  /\ revoked \subseteq Nat /\ spent \subseteq Nat /\ steady \subseteq Browsers

\* A token is exchanged for a successor at most once, however many refreshes and
\* password changes are sent with it (FOR UPDATE, sessions.py:112).
OneHeir == \A x, y \in heirs : x[1] = y[1] => x = y

\* What was taken away does not come back.  A session that a reset or a change of
\* the password, or the deletion of the account, has found is gone for good, also
\* when it is being rotated meanwhile; and so is a code or a link whose request
\* has been answered.
RevokedIsGone ==
  /\ revoked \cap Sids(sessions) = {}
  /\ spent \cap {k.id : k \in secrets} = {}

\* A token is used once, and never after it was taken away.
Inv == TypeOK /\ OneHeir /\ RevokedIsGone

\* A browser that has signed in stays signed in, whatever its tabs send at the
\* same time: it loses its session only by a logout, a change of the password,
\* the end of the account, an expiry or a lost answer.
StaysSignedIn ==
  \A b \in steady :
    ActiveOf(b) = {} => jar[b] \in Live

=============================================================================
