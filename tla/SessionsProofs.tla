---------------------------- MODULE SessionsProofs ----------------------------
(***************************************************************************)
(* Proofs about Sessions, for any number of browsers and of requests, sent *)
(* and in flight.  That a token has one successor and that what was        *)
(* revoked stays away rest on what is known of the numbers that were       *)
(* issued, of the tables and of each request in flight (Sound).            *)
(***************************************************************************)
EXTENDS Sessions, FiniteSetTheorems, TLAPS

\* The rows are told apart by their keys and by their tokens.
RowsDiffer == \A s, t \in sessions : s.sid = t.sid \/ s.tok = t.tok => s = t

\* A token that was exchanged is no longer the token of a session.
HeirsAreGone == \A x \in heirs, s \in sessions : s.tok # x[1]

Ids(codes) == {k.id : k \in codes}

\* Every number that is about was issued.
Known ==
  /\ \A s \in sessions : s.sid <= issued /\ s.tok <= issued
  /\ \A k \in secrets : k.id <= issued
  /\ \A x \in heirs : x[1] <= issued
  /\ \A n \in revoked \cup spent : n <= issued
  /\ \A b \in Browsers : jar[b] <= issued

TablesOK == RowsDiffer /\ HeirsAreGone /\ Known /\ OneHeir /\ RevokedIsGone

\* What holds of a request x in flight, given the tables and the last number issued:
\* a rotation holds the row of its token, a change of the password the rows it has
\* found, and a code is consumed before a token is issued for it.
Sound(x, table, codes, last) ==
  /\ x.tok <= last /\ x.secret <= last /\ x.cookie <= last
  /\ \A s \in x.want : s.sid <= last
  /\ x.at = "rotate" => \E s \in table : s.tok = x.tok /\ x.held = {s.sid}
  /\ x.at = "own" => x.held = Sids(x.want)
  /\ x.held # {} => x.at \in {"rotate", "own", "all"}
  /\ x.at \in {"find", "create", "consume", "issue"} => x.op \in SignIns
  /\ x.op \in {"verify", "reset"} <=> x.secret # None
  /\ x.at = "issue" => x.secret \notin Ids(codes)

RequestsSound == \A r \in Active : Sound(req[r], sessions, secrets, issued)

\* FOR UPDATE: no row is locked twice.
LocksExclude == \A r, q \in Active : r # q => req[r].held \cap req[q].held = {}

TokenInv == TypeOK /\ TablesOK /\ RequestsSound /\ LocksExclude

-----------------------------------------------------------------------------
(* Requests in flight *)

LEMMA ActiveType ==
  ASSUME TypeOK, NEW r \in Active
  PROVE  r \in Requests /\ req[r] \in Request
<1>1. r \in Requests /\ req[r].at # "idle" /\ req[r] \in Request \cup {NoRequest}
  BY DEF Active, TypeOK
<1> QED
  BY <1>1 DEF NoRequest

\* A request that goes on stays what it is; the others are not touched.
LEMMA Becoming ==
  ASSUME TypeOK, NEW r \in Requests, NEW new \in Request, Becomes(r, new)
  PROVE  /\ req' \in [Requests -> Request \cup {NoRequest}]
         /\ req'[r] = new /\ \A q \in Requests \ {r} : req'[q] = req[q]
         /\ Active' = Active \cup {r}
<1>1. new.at # "idle"
  BY DEF Request, Steps
<1>2. /\ req' \in [Requests -> Request \cup {NoRequest}]
      /\ req'[r] = new /\ \A q \in Requests \ {r} : req'[q] = req[q]
  BY DEF TypeOK, Becomes
<1> QED
  BY <1>1, <1>2 DEF Active

\* A request that is over is in flight no more.
LEMMA Vanishing ==
  ASSUME TypeOK, NEW r \in Requests, Becomes(r, NoRequest)
  PROVE  /\ req' \in [Requests -> Request \cup {NoRequest}]
         /\ \A q \in Requests \ {r} : req'[q] = req[q]
         /\ Active' = Active \ {r}
<1>1. /\ req' \in [Requests -> Request \cup {NoRequest}]
      /\ req'[r] = NoRequest /\ \A q \in Requests \ {r} : req'[q] = req[q]
  BY DEF TypeOK, Becomes
<1> QED
  BY <1>1 DEF Active, NoRequest

\* What a step of r may do to what the others rely on: the rows they have locked stay,
\* and new codes and links have new numbers.
Respects(r) ==
  /\ issued' \in Nat /\ issued' >= issued
  /\ \A k \in secrets' : k \in secrets \/ k.id > issued
  /\ \A s \in sessions : s.sid \in LockedFor(r) => s \in sessions'

LEMMA OthersSound ==
  ASSUME TokenInv, NEW r, Respects(r), NEW q \in Active \ {r}
  PROVE  Sound(req[q], sessions', secrets', issued')
<1>1. /\ req[q] \in Request /\ Sound(req[q], sessions, secrets, issued)
      /\ issued \in Nat /\ sessions \subseteq Session
  BY ActiveType DEF TokenInv, RequestsSound, TypeOK
<1> DEFINE x == req[q]
<1>2. /\ x.tok \in Nat /\ x.secret \in Nat /\ x.cookie \in Int /\ x.want \subseteq Session
  BY <1>1 DEF Request, Keep
<1>3. /\ x.tok <= issued' /\ x.secret <= issued' /\ x.cookie <= issued'
      /\ \A s \in x.want : s.sid <= issued'
  BY <1>1, <1>2 DEF Sound, Respects, Session
<1>4. ASSUME x.at = "rotate"
      PROVE  \E s \in sessions' : s.tok = x.tok /\ x.held = {s.sid}
  <2>1. PICK s \in sessions : s.tok = x.tok /\ x.held = {s.sid}
    BY <1>1, <1>4 DEF Sound
  <2>2. s.sid \in LockedFor(r)
    BY <2>1 DEF LockedFor
  <2> QED
    BY <2>1, <2>2 DEF Respects
<1>5. ASSUME x.at = "issue"
      PROVE  x.secret \notin Ids(secrets')
  BY <1>1, <1>2, <1>5 DEF Sound, Respects, Ids
<1> QED
  BY <1>1, <1>3, <1>4, <1>5 DEF Sound

\* The requests, after one has gone on.
LEMMA RequestGoesOn ==
  ASSUME TokenInv, NEW r \in Requests, NEW new \in Request, Becomes(r, new), Respects(r),
         Sound(new, sessions', secrets', issued'), new.held \cap LockedFor(r) = {}
  PROVE  RequestsSound' /\ LocksExclude'
<1>1. /\ req'[r] = new /\ \A q \in Requests \ {r} : req'[q] = req[q]
      /\ Active' = Active \cup {r} /\ Active \subseteq Requests
  BY Becoming DEF TokenInv, Active
<1>2. RequestsSound'
  BY <1>1, OthersSound DEF RequestsSound
<1>3. \A q \in Active \ {r} : new.held \cap req[q].held = {}
  BY DEF LockedFor
<1>4. LocksExclude'
  BY <1>1, <1>3 DEF LocksExclude, TokenInv
<1> QED
  BY <1>2, <1>4

\* The requests, after one is over.
LEMMA RequestIsOver ==
  ASSUME TokenInv, NEW r \in Requests, Becomes(r, NoRequest), Respects(r)
  PROVE  RequestsSound' /\ LocksExclude'
<1>1. /\ \A q \in Requests \ {r} : req'[q] = req[q]
      /\ Active' = Active \ {r} /\ Active \subseteq Requests
  BY Vanishing DEF TokenInv, Active
<1>2. RequestsSound'
  BY <1>1, OthersSound DEF RequestsSound
<1>3. LocksExclude'
  BY <1>1 DEF LocksExclude, TokenInv
<1> QED
  BY <1>2, <1>3

\* An answer releases the locks and asks for nothing.
LEMMA AnswerSound ==
  ASSUME TokenInv, NEW r \in Active, NEW cookie \in Int, cookie >= Keep, cookie <= issued',
         issued' \in Nat, issued' >= issued
  PROVE  /\ Answered(r, cookie) \in Request
         /\ Answered(r, cookie).held = {}
         /\ Sound(Answered(r, cookie), sessions', secrets', issued')
<1>1. /\ req[r] \in Request /\ Sound(req[r], sessions, secrets, issued) /\ issued \in Nat
      /\ req[r].tok \in Nat /\ req[r].secret \in Nat
  BY ActiveType DEF TokenInv, TypeOK, RequestsSound, Request
<1>2. cookie \in Nat \cup {Keep}
  BY DEF Keep
<1> DEFINE x == Answered(r, cookie)
<1>3. x \in Request
  BY <1>1, <1>2 DEF Answered, Request, Steps
<1>4. /\ x.at = "answer" /\ x.held = {} /\ x.want = {} /\ x.cookie = cookie
      /\ x.tok = req[r].tok /\ x.secret = req[r].secret /\ x.op = req[r].op
  BY <1>1 DEF Answered, Request
<1> HIDE DEF x
<1>5. Sound(x, sessions', secrets', issued')
  BY <1>1, <1>4 DEF Sound
<1> QED
  BY <1>3, <1>4, <1>5 DEF x

-----------------------------------------------------------------------------
(* Steps that leave the tables alone *)

\* The tables and what is remembered of them.
Still == UNCHANGED <<user, sessions, secrets, jar, issued, heirs, revoked, spent>>

LEMMA StillRespects ==
  ASSUME TokenInv, Still, NEW r
  PROVE  Respects(r) /\ TablesOK'
<1>1. issued \in Nat
  BY DEF TokenInv, TypeOK
<1>2. Respects(r)
  BY <1>1 DEF Respects, Still
<1>3. TablesOK'
  BY DEF TokenInv, Still, TablesOK, RowsDiffer, HeirsAreGone, Known, OneHeir, RevokedIsGone
<1> QED
  BY <1>2, <1>3

\* A request goes on with what it has read, and locks what nobody else has locked.
LEMMA StillStep ==
  ASSUME TokenInv, Still, NEW r \in Requests, NEW new \in Request, Becomes(r, new),
         Sound(new, sessions, secrets, issued), new.held \cap LockedFor(r) = {},
         sent' \in 0..MaxSent, faults' \in 0..MaxFaults, steady' \subseteq Browsers
  PROVE  TokenInv'
<1>1. Respects(r) /\ TablesOK'
  BY StillRespects
<1>2. Sound(new, sessions', secrets', issued')
  BY DEF Still
<1>3. RequestsSound' /\ LocksExclude'
  BY <1>1, <1>2, RequestGoesOn
<1>4. req' \in [Requests -> Request \cup {NoRequest}]
  BY Becoming DEF TokenInv
<1>5. \A q \in Active' : req'[q].held # {} => req'[q].at \in {"rotate", "own", "all"}
  BY <1>3 DEF RequestsSound, Sound
<1>6. TypeOK'
  BY <1>4, <1>5 DEF TokenInv, TypeOK, Still
<1> QED
  BY <1>1, <1>3, <1>6 DEF TokenInv

\* Its transaction is rolled back, or it has nothing to do.
LEMMA StillAnswer ==
  ASSUME TokenInv, Still, NEW r \in Active, Answer(r, Keep), UNCHANGED <<sent, faults, steady>>
  PROVE  TokenInv'
<1>1. issued \in Nat /\ issued' = issued /\ r \in Requests
  BY DEF TokenInv, TypeOK, Still, Active
<1>2. /\ Answered(r, Keep) \in Request /\ Answered(r, Keep).held = {}
      /\ Sound(Answered(r, Keep), sessions', secrets', issued')
  BY <1>1, AnswerSound DEF Keep
<1>3. Sound(Answered(r, Keep), sessions, secrets, issued)
  BY <1>2 DEF Still
<1> QED
  BY <1>1, <1>2, <1>3, StillStep DEF Answer, TokenInv, TypeOK

\* The step of a request that only looks something up, with the record it becomes.
LEMMA Lookup ==
  ASSUME TokenInv, Still, NEW r \in Active, NEW new \in Request, Becomes(r, new),
         Sound(new, sessions, secrets, issued), new.held = {} \/ new.held = req[r].held,
         UNCHANGED <<sent, faults, steady>>
  PROVE  TokenInv'
<1>1. req[r].held \cap LockedFor(r) = {} /\ r \in Requests
  BY DEF TokenInv, LocksExclude, LockedFor, Active
<1> QED
  BY <1>1, StillStep DEF TokenInv, TypeOK

LEMMA InFlight ==
  ASSUME TokenInv, NEW r \in Requests, NEW step, At(r, step), step # "idle"
  PROVE  /\ r \in Active /\ req[r] \in Request
         /\ Sound(req[r], sessions, secrets, issued)
         /\ req[r].tok \in Nat /\ req[r].secret \in Nat /\ req[r].held \in SUBSET Nat
         /\ req[r].want \in SUBSET Session
<1>1. r \in Active
  BY DEF Active, At
<1> QED
  BY <1>1, ActiveType DEF TokenInv, RequestsSound, Request

LEMMA FindEarlierKeeps ==
  ASSUME TokenInv, NEW r \in Requests, FindEarlier(r)
  PROVE  TokenInv'
<1>1. /\ r \in Active /\ req[r] \in Request /\ Sound(req[r], sessions, secrets, issued)
      /\ req[r].at = "clear"
  BY InFlight DEF FindEarlier, At
<1>2. Still /\ UNCHANGED <<sent, faults, steady>>
  BY DEF FindEarlier, Still, rows, history
<1>3. CASE Answer(r, Keep)
  BY <1>1, <1>2, <1>3, StillAnswer
<1>4. CASE Becomes(r, [req[r] EXCEPT !.at = "store", !.old = Secrets(req[r].op)])
  <2> DEFINE new == [req[r] EXCEPT !.at = "store", !.old = Secrets(req[r].op)]
  <2>1. Secrets(req[r].op) \subseteq Nat
    BY DEF Secrets, TokenInv, TypeOK
  <2>2. new \in Request /\ new.held = req[r].held
    BY <1>1, <2>1 DEF Request, Steps
  <2>3. Sound(new, sessions, secrets, issued)
    BY <1>1 DEF Sound, Request
  <2> QED
    BY <1>1, <1>2, <1>4, <2>2, <2>3, Lookup
<1> QED
  BY <1>3, <1>4 DEF FindEarlier

LEMMA FindAccountKeeps ==
  ASSUME TokenInv, NEW r \in Requests, FindAccount(r)
  PROVE  TokenInv'
<1>1. /\ r \in Active /\ req[r] \in Request /\ Sound(req[r], sessions, secrets, issued)
      /\ req[r].at = "find"
  BY InFlight DEF FindAccount, At
<1>2. Still /\ UNCHANGED <<sent, faults, steady>>
  BY DEF FindAccount, Still, rows, history
<1>3. CASE Refuse(r)
  BY <1>1, <1>2, <1>3, StillAnswer DEF Refuse
<1>4. ASSUME NEW step \in {"create", "consume", "issue"},
             step = "issue" => req[r].op # "verify",
             Becomes(r, [req[r] EXCEPT !.uid = user, !.at = step])
      PROVE  TokenInv'
  <2> DEFINE new == [req[r] EXCEPT !.uid = user, !.at = step]
  <2>1. new \in Request /\ new.held = req[r].held
    BY <1>1, <1>4 DEF Request, Steps, TokenInv, TypeOK
  <2>2. /\ new.at = step /\ new.tok = req[r].tok /\ new.secret = req[r].secret
        /\ new.cookie = req[r].cookie /\ new.want = req[r].want /\ new.op = req[r].op
    BY <1>1 DEF Request
  <2>3. req[r].op \in SignIns /\ req[r].held = {}
    BY <1>1 DEF Sound
  <2>4. step = "issue" => req[r].secret = None
    BY <1>1, <1>4, <2>3 DEF Sound, SignIns
  <2>5. \A k \in secrets : k.id # None
    BY DEF TokenInv, TypeOK
  <2> HIDE DEF new
  <2>6. Sound(new, sessions, secrets, issued)
    BY <1>1, <1>4, <2>1, <2>2, <2>3, <2>4, <2>5 DEF Sound, Ids
  <2> QED
    BY <1>1, <1>2, <1>4, <2>1, <2>6, Lookup DEF new
<1> QED
  <2> DEFINE step == CASE user = None -> "create" [] req[r].op = "verify" -> "consume"
                       [] OTHER -> "issue"
  <2>1. step \in {"create", "consume", "issue"} /\ (step = "issue" => req[r].op # "verify")
    OBVIOUS
  <2>2. CASE Becomes(r, [req[r] EXCEPT !.uid = user,
               !.at = CASE ~(user # None) -> "create" [] req[r].op = "verify" -> "consume"
                        [] OTHER -> "issue"])
    <3>1. Becomes(r, [req[r] EXCEPT !.uid = user, !.at = step])
      BY <2>2
    <3> QED
      BY <2>1, <3>1, <1>4
  <2> QED
    BY <1>3, <2>2 DEF FindAccount

\* FOR UPDATE finds the row of the token, if it is there and nobody has it.
LEMMA BeginRefreshKeeps ==
  ASSUME TokenInv, NEW r \in Requests, BeginRefresh(r)
  PROVE  TokenInv'
<1>1. /\ r \in Active /\ req[r] \in Request /\ Sound(req[r], sessions, secrets, issued)
      /\ req[r].at = "lock" /\ req[r].held \in SUBSET Nat
  BY InFlight DEF BeginRefresh, At
<1>2. Still /\ UNCHANGED <<sent, faults, steady>>
  BY DEF BeginRefresh, Still, rows, history
<1>3. CASE Refuse(r)
  BY <1>1, <1>2, <1>3, StillAnswer DEF Refuse
<1>4. CASE ~ Refuse(r)
  <2> DEFINE found == Sids(WithToken(req[r].tok))
             new == [req[r] EXCEPT !.at = "rotate", !.held = @ \cup found]
  <2>1. /\ Becomes(r, new) /\ found \cap LockedFor(r) = {}
        /\ \E s \in WithToken(req[r].tok) : s.fresh
    BY <1>4 DEF BeginRefresh, LockSession
  <2>2. req[r].held = {}
    BY <1>1 DEF Sound
  <2>3. PICK s \in sessions : s.tok = req[r].tok /\ found = {s.sid} /\ s.sid \in Nat
    <3>1. PICK s \in sessions : s.tok = req[r].tok
      BY <2>1 DEF WithToken
    <3>2. WithToken(req[r].tok) = {s}
      BY <3>1 DEF WithToken, TokenInv, TablesOK, RowsDiffer
    <3> QED
      BY <3>1, <3>2 DEF Sids, TokenInv, TypeOK, Session
  <2>4. new \in Request /\ new.held = found /\ new.at = "rotate"
    BY <1>1, <2>2, <2>3 DEF Request, Steps
  <2>5. /\ new.tok = req[r].tok /\ new.secret = req[r].secret
        /\ new.cookie = req[r].cookie /\ new.want = req[r].want /\ new.op = req[r].op
    BY <1>1 DEF Request
  <2> HIDE DEF new, found
  <2>6. Sound(new, sessions, secrets, issued)
    BY <1>1, <2>3, <2>4, <2>5 DEF Sound
  <2> QED
    BY <1>1, <1>2, <2>1, <2>4, <2>6, StillStep DEF TokenInv, TypeOK
<1> QED
  BY <1>3, <1>4

LEMMA FindLinkKeeps ==
  ASSUME TokenInv, NEW r \in Requests, FindLink(r)
  PROVE  TokenInv'
<1>1. /\ r \in Active /\ req[r] \in Request /\ Sound(req[r], sessions, secrets, issued)
      /\ req[r].at = "reset"
  BY InFlight DEF FindLink, At
<1>2. Still /\ UNCHANGED <<sent, faults, steady>>
  BY DEF FindLink, Still, rows, history
<1>3. CASE Refuse(r)
  BY <1>1, <1>2, <1>3, StillAnswer DEF Refuse
<1>4. CASE Becomes(r, [req[r] EXCEPT !.at = "wipe", !.uid = user])
  <2> DEFINE new == [req[r] EXCEPT !.at = "wipe", !.uid = user]
  <2>1. new \in Request /\ new.held = req[r].held
    BY <1>1 DEF Request, Steps, TokenInv, TypeOK
  <2>2. Sound(new, sessions, secrets, issued)
    BY <1>1 DEF Sound, Request
  <2> QED
    BY <1>1, <1>2, <1>4, <2>1, <2>2, Lookup
<1> QED
  BY <1>3, <1>4 DEF FindLink

\* The statement sees the rows there are; all of them were issued.
LEMMA FindSessionsKeeps ==
  ASSUME TokenInv, NEW r \in Requests, FindSessions(r)
  PROVE  TokenInv'
<1>1. /\ r \in Active /\ req[r] \in Request /\ Sound(req[r], sessions, secrets, issued)
      /\ req[r].at = "wipe"
  BY InFlight DEF FindSessions, At
<1>2. Still /\ UNCHANGED <<sent, faults, steady>>
  BY DEF FindSessions, Still, rows, history
<1> DEFINE new == [req[r] EXCEPT !.at = "all", !.want = sessions]
<1>3. new \in Request /\ new.held = req[r].held /\ new.want = sessions
  BY <1>1 DEF Request, Steps, TokenInv, TypeOK
<1>4. Sound(new, sessions, secrets, issued)
  BY <1>1, <1>3 DEF Sound, Request, TokenInv, TablesOK, Known
<1> QED
  BY <1>1, <1>2, <1>3, <1>4, Lookup DEF FindSessions

LEMMA FindOthersKeeps ==
  ASSUME TokenInv, NEW r \in Requests, FindOthers(r)
  PROVE  TokenInv'
<1>1. /\ r \in Active /\ req[r] \in Request /\ Sound(req[r], sessions, secrets, issued)
      /\ req[r].at = "others"
  BY InFlight DEF FindOthers, At
<1>2. Still /\ UNCHANGED <<sent, faults, steady>>
  BY DEF FindOthers, Still, rows, history
<1>3. CASE Refuse(r)
  BY <1>1, <1>2, <1>3, StillAnswer DEF Refuse
<1>4. CASE ~ Refuse(r)
  <2> DEFINE step == IF req[r].tok = None THEN "all" ELSE "lockothers"
             new == [req[r] EXCEPT !.want = sessions \ WithToken(req[r].tok), !.at = step]
  <2>1. Becomes(r, new)
    BY <1>4 DEF FindOthers
  <2>2. /\ new \in Request /\ new.held = req[r].held /\ new.want \subseteq sessions
        /\ new.at = step
    BY <1>1 DEF Request, Steps, TokenInv, TypeOK
  <2>3. Sound(new, sessions, secrets, issued)
    BY <1>1, <2>2 DEF Sound, Request, TokenInv, TablesOK, Known
  <2> QED
    BY <1>1, <1>2, <2>1, <2>2, <2>3, Lookup
<1> QED
  BY <1>3, <1>4

\* The DELETE waits until nobody else has the rows it has found, and has them.
LEMMA LockOthersKeeps ==
  ASSUME TokenInv, NEW r \in Requests, LockOthers(r)
  PROVE  TokenInv'
<1>1. /\ r \in Active /\ req[r] \in Request /\ Sound(req[r], sessions, secrets, issued)
      /\ req[r].at = "lockothers" /\ req[r].want \in SUBSET Session
  BY InFlight DEF LockOthers, At
<1>2. Still /\ UNCHANGED <<sent, faults, steady>>
  BY DEF LockOthers, Still, rows, history
<1> DEFINE new == [req[r] EXCEPT !.at = "own", !.held = Sids(req[r].want)]
<1>3. Sids(req[r].want) \subseteq Nat
  BY <1>1 DEF Sids, Session
<1>4. /\ new \in Request /\ new.held = Sids(req[r].want) /\ new.want = req[r].want
      /\ new.at = "own"
  BY <1>1, <1>3 DEF Request, Steps
<1>5. Sound(new, sessions, secrets, issued)
  BY <1>1, <1>4 DEF Sound, Request
<1>6. new.held \cap LockedFor(r) = {}
  BY <1>4 DEF LockOthers
<1> QED
  BY <1>1, <1>2, <1>4, <1>5, <1>6, StillStep DEF LockOthers, TokenInv, TypeOK

LEMMA AbortDeadlockKeeps ==
  ASSUME TokenInv, NEW r \in Requests, AbortDeadlock(r)
  PROVE  TokenInv'
<1>1. r \in Active
  BY DEF AbortDeadlock, WaitsFor, At, Active
<1>2. Still /\ UNCHANGED <<sent, faults, steady>>
  BY DEF AbortDeadlock, Still, rows, history
<1> QED
  BY <1>1, <1>2, StillAnswer DEF AbortDeadlock, Refuse

-----------------------------------------------------------------------------
(* The browsers and what fails *)

LEMMA SendKeeps ==
  ASSUME TokenInv, NEW r \in Requests, NEW b \in Browsers, NEW op \in Ops,
         NEW secret \in Ids(secrets) \cup {None}, Send(r, b, op, secret)
  PROVE  TokenInv'
<1> DEFINE new == [at |-> First(op), op |-> op, b |-> b, tok |-> jar[b], secret |-> secret,
                   uid |-> user, old |-> {}, want |-> {}, held |-> {}, cookie |-> Keep]
<1>1. Becomes(r, new) /\ Still
  BY DEF Send, Still, rows
<1>2. /\ op \in AllOps /\ issued \in Nat /\ user \in Nat /\ jar[b] \in Nat /\ jar[b] <= issued
      /\ secret \in Nat /\ secret <= issued
  BY OpsAssumption DEF TokenInv, TypeOK, TablesOK, Known, Ids, None
<1>3. /\ First(op) \in Steps \ {"issue", "own", "rotate", "create", "consume"}
      /\ First(op) = "find" => op \in SignIns
  BY <1>2 DEF First, AllOps, SignIns, Steps
<1>4. new \in Request
  BY <1>2, <1>3 DEF Request, Keep
<1>5. Sound(new, sessions, secrets, issued)
  BY <1>2, <1>3 DEF Sound, Keep, Send
<1>6. sent' \in 0..MaxSent /\ faults' \in 0..MaxFaults /\ steady' \subseteq Browsers
  BY BoundsAssumption DEF Send, TokenInv, TypeOK
<1>7. new.held \cap LockedFor(r) = {}
  OBVIOUS
<1> QED
  BY <1>1, <1>4, <1>5, <1>6, <1>7, StillStep

LEMMA FailKeeps ==
  ASSUME TokenInv, NEW r \in Requests, Fail(r)
  PROVE  TokenInv'
<1>1. Still /\ Becomes(r, NoRequest) /\ TypeOK
  BY DEF Fail, Still, rows, TokenInv
<1>2. TablesOK' /\ RequestsSound' /\ LocksExclude'
  BY <1>1, StillRespects, RequestIsOver
<1>3. req' \in [Requests -> Request \cup {NoRequest}]
  BY <1>1, Vanishing
<1>4. \A q \in Active' : req'[q].held # {} => req'[q].at \in {"rotate", "own", "all"}
  BY <1>2 DEF RequestsSound, Sound
<1>5. sent' = sent /\ faults' \in 0..MaxFaults /\ steady' \subseteq Browsers
  BY <1>1, BoundsAssumption DEF Fail, TypeOK
<1>6. TypeOK'
  BY <1>1, <1>3, <1>4, <1>5 DEF TypeOK, Still
<1> QED
  BY <1>2, <1>6 DEF TokenInv

\* The cookie of an answer is a token that was issued, or none.
LEMMA ReceiveKeeps ==
  ASSUME TokenInv, NEW r \in Requests, Receive(r)
  PROVE  TokenInv'
<1>0. TypeOK /\ issued \in Nat
  BY DEF TokenInv, TypeOK
<1>1. r \in Active /\ req[r] \in Request /\ Sound(req[r], sessions, secrets, issued)
  BY InFlight DEF Receive, At
<1>2. /\ UNCHANGED <<user, sessions, secrets, issued, sent, faults, heirs, revoked, spent>>
      /\ Becomes(r, NoRequest)
  BY DEF Receive, rows
<1>3. req[r].cookie \in Nat \cup {Keep} /\ req[r].cookie <= issued /\ req[r].b \in Browsers
  BY <1>1 DEF Request, Sound
<1>4. jar' = [jar EXCEPT ![req[r].b] = IF req[r].cookie = Keep THEN @ ELSE req[r].cookie]
  BY DEF Receive
<1>5. /\ jar' \in [Browsers -> Nat]
      /\ \A b \in Browsers : jar'[b] <= issued
  BY <1>0, <1>3, <1>4 DEF TypeOK, TokenInv, TablesOK, Known
<1>6. Respects(r)
  BY <1>0, <1>2 DEF Respects
<1>7. RequestsSound' /\ LocksExclude'
  BY <1>2, <1>6, RequestIsOver
<1>8. TablesOK'
  BY <1>2, <1>5 DEF TokenInv, TablesOK, RowsDiffer, HeirsAreGone, Known, OneHeir, RevokedIsGone
<1>9. req' \in [Requests -> Request \cup {NoRequest}]
  BY <1>0, <1>2, Vanishing
<1>10. \A q \in Active' : req'[q].held # {} => req'[q].at \in {"rotate", "own", "all"}
  BY <1>7 DEF RequestsSound, Sound
<1>11. steady' \subseteq Browsers
  BY <1>0, <1>3 DEF Receive, TypeOK
<1>12. TypeOK'
  BY <1>0, <1>2, <1>5, <1>9, <1>10, <1>11 DEF TypeOK
<1> QED
  BY <1>7, <1>8, <1>12 DEF TokenInv

-----------------------------------------------------------------------------
(* Steps that commit *)

TablesTyped ==
  /\ user \in Nat /\ issued \in Nat
  /\ sessions \subseteq Session
  /\ secrets \subseteq [kind : {"code", "link"}, id : Nat \ {None}]
  /\ heirs \subseteq Nat \X Nat
  /\ revoked \subseteq Nat /\ spent \subseteq Nat

\* The answer follows the commit; the locks are released with it.
LEMMA CommitStep ==
  ASSUME TokenInv, NEW r \in Active, NEW cookie \in Int, cookie >= Keep, cookie <= issued',
         Answer(r, cookie), Respects(r), TablesTyped', TablesOK',
         UNCHANGED <<jar, sent, faults>>, steady' \subseteq Browsers
  PROVE  TokenInv'
<1>1. issued' \in Nat /\ issued' >= issued /\ r \in Requests /\ TypeOK
  BY DEF TablesTyped, Respects, Active, TokenInv
<1>2. /\ Answered(r, cookie) \in Request /\ Answered(r, cookie).held = {}
      /\ Sound(Answered(r, cookie), sessions', secrets', issued')
  BY <1>1, AnswerSound
<1>3. RequestsSound' /\ LocksExclude'
  BY <1>1, <1>2, RequestGoesOn DEF Answer
<1>4. req' \in [Requests -> Request \cup {NoRequest}]
  BY <1>1, <1>2, Becoming DEF Answer
<1>5. \A q \in Active' : req'[q].held # {} => req'[q].at \in {"rotate", "own", "all"}
  BY <1>3 DEF RequestsSound, Sound
<1>6. TypeOK'
  BY <1>1, <1>4, <1>5 DEF TypeOK, TablesTyped
<1> QED
  BY <1>3, <1>6 DEF TokenInv

LEMMA Types ==
  ASSUME TokenInv
  PROVE  /\ TypeOK /\ TablesTyped /\ TablesOK
         /\ issued \in Nat /\ Fresh \in Nat /\ Fresh > issued /\ Fresh \in Int /\ Fresh # None
         /\ \A s \in sessions : s \in Session /\ s.sid \in Nat \ {None} /\ s.tok \in Nat \ {None}
         /\ \A s \in sessions : s.sid <= issued /\ s.tok <= issued
BY DEF TokenInv, TypeOK, TablesTyped, Fresh, None, Session, TablesOK, Known

\* The row of a token of its own is nobody else's while it is being changed.
LEMMA NotLocked ==
  ASSUME NEW r, NEW found, Sids(found) \cap LockedFor(r) = {}, NEW s, s.sid \in LockedFor(r)
  PROVE  s \notin found /\ s.sid \notin Sids(found)
BY DEF Sids

LEMMA StoreSecretKeeps ==
  ASSUME TokenInv, NEW r \in Requests, StoreSecret(r)
  PROVE  TokenInv'
<1>0. TypeOK /\ TablesTyped /\ TablesOK /\ issued \in Nat /\ Fresh \in Nat /\ Fresh > issued
  BY Types
<1>1. r \in Active
  BY InFlight DEF StoreSecret, At
<1> DEFINE k == [kind |-> Kind(req[r].op), id |-> Fresh]
<1>2. /\ issued' = Fresh /\ Answer(r, Keep) /\ secrets' = Without(req[r].old) \cup {k}
      /\ UNCHANGED <<user, sessions, jar, sent, faults, heirs, revoked, spent, steady>>
  BY DEF StoreSecret, history
<1>3. k \in [kind : {"code", "link"}, id : Nat \ {None}] /\ k.id = Fresh
  BY <1>0 DEF Kind, None
<1>4. Without(req[r].old) \subseteq secrets
  BY DEF Without
<1> HIDE DEF k
<1>5. TablesTyped'
  BY <1>0, <1>2, <1>3, <1>4 DEF TablesTyped
<1>6. Respects(r)
  BY <1>0, <1>2, <1>3, <1>4 DEF Respects
<1>7. Known'
  BY <1>0, <1>2, <1>3, <1>4 DEF TablesOK, Known, TypeOK, TablesTyped, Session
<1>8. RevokedIsGone'
  <2>1. Fresh \notin spent
    BY <1>0 DEF TablesOK, Known, TablesTyped
  <2> QED
    BY <1>0, <1>2, <1>3, <1>4, <2>1 DEF TablesOK, RevokedIsGone
<1>9. TablesOK'
  BY <1>0, <1>2, <1>7, <1>8 DEF TablesOK, RowsDiffer, HeirsAreGone, OneHeir
<1>10. Keep \in Int /\ Keep >= Keep /\ Keep <= issued'
  BY <1>0, <1>2 DEF Keep
<1> QED
  BY <1>0, <1>1, <1>2, <1>5, <1>6, <1>9, <1>10, CommitStep DEF TypeOK

\* The record of a request that goes on after its commit.
LEMMA GoOnStep ==
  ASSUME TokenInv, NEW r \in Requests, NEW new \in Request, Becomes(r, new), Respects(r),
         Sound(new, sessions', secrets', issued'), new.held \cap LockedFor(r) = {},
         TablesTyped', TablesOK', UNCHANGED <<jar, sent, faults, steady>>
  PROVE  TokenInv'
<1>1. RequestsSound' /\ LocksExclude'
  BY RequestGoesOn
<1>2. req' \in [Requests -> Request \cup {NoRequest}]
  BY Becoming DEF TokenInv
<1>3. \A q \in Active' : req'[q].held # {} => req'[q].at \in {"rotate", "own", "all"}
  BY <1>1 DEF RequestsSound, Sound
<1>4. TypeOK'
  BY <1>2, <1>3 DEF TypeOK, TablesTyped, TokenInv
<1> QED
  BY <1>1, <1>4 DEF TokenInv

LEMMA CreateAccountKeeps ==
  ASSUME TokenInv, NEW r \in Requests, CreateAccount(r)
  PROVE  TokenInv'
<1>0. TypeOK /\ TablesTyped /\ TablesOK /\ issued \in Nat /\ Fresh \in Nat /\ Fresh > issued
  BY Types
<1>1. /\ r \in Active /\ req[r] \in Request /\ Sound(req[r], sessions, secrets, issued)
      /\ req[r].at = "create" /\ req[r].tok \in Nat /\ req[r].secret \in Nat
  BY InFlight DEF CreateAccount, At
<1>2. UNCHANGED <<sessions, secrets, jar, sent, faults, heirs, revoked, spent, steady>>
  BY DEF CreateAccount, history
<1>3. CASE user # None
  <2>1. Still /\ Refuse(r)
    BY <1>2, <1>3 DEF CreateAccount, Still
  <2> QED
    BY <1>1, <1>2, <2>1, StillAnswer DEF Refuse
<1>4. CASE user = None
  <2> DEFINE step == IF req[r].op = "verify" THEN "consume" ELSE "issue"
             new == [req[r] EXCEPT !.uid = Fresh, !.at = step]
  <2>1. user' = Fresh /\ issued' = Fresh /\ Becomes(r, new)
    BY <1>4 DEF CreateAccount
  <2>2. TablesTyped' /\ Respects(r)
    BY <1>0, <1>2, <2>1 DEF TablesTyped, Respects
  <2>3. TablesOK'
    BY <1>0, <1>2, <2>1 DEF TablesOK, RowsDiffer, HeirsAreGone, OneHeir, RevokedIsGone, Known,
         TypeOK, TablesTyped, Session
  <2>4. /\ new \in Request /\ new.held = req[r].held /\ new.at = step /\ new.op = req[r].op
        /\ new.tok = req[r].tok /\ new.secret = req[r].secret
        /\ new.cookie = req[r].cookie /\ new.want = req[r].want
    BY <1>0, <1>1 DEF Request, Steps
  <2>5. /\ req[r].held = {} /\ req[r].op \in SignIns
        /\ (step = "issue" => req[r].secret = None)
    BY <1>1 DEF Sound, SignIns
  <2>6. \A k \in secrets : k.id # None
    BY <1>0 DEF TablesTyped
  <2> HIDE DEF new
  <2>7. /\ new.tok <= issued' /\ new.secret <= issued' /\ new.cookie <= issued'
        /\ \A s \in new.want : s.sid <= issued'
    <3>1. new.cookie \in Int /\ new.want \subseteq Session
      BY <2>4 DEF Request, Keep
    <3> QED
      BY <1>0, <1>1, <2>1, <2>4, <3>1 DEF Sound, Session
  <2>8. Sound(new, sessions', secrets', issued')
    BY <1>1, <1>2, <2>4, <2>5, <2>6, <2>7 DEF Sound, Ids
  <2>9. new.held \cap LockedFor(r) = {}
    BY <2>4, <2>5
  <2> QED
    BY <1>1, <1>2, <2>1, <2>2, <2>3, <2>4, <2>8, <2>9, GoOnStep DEF new
<1> QED
  BY <1>3, <1>4

\* The code is gone when the token is issued.
LEMMA ConsumeCodeKeeps ==
  ASSUME TokenInv, NEW r \in Requests, ConsumeCode(r)
  PROVE  TokenInv'
<1>0. TypeOK /\ TablesTyped /\ TablesOK /\ issued \in Nat
  BY Types
<1>1. /\ r \in Active /\ req[r] \in Request /\ Sound(req[r], sessions, secrets, issued)
      /\ req[r].at = "consume"
  BY InFlight DEF ConsumeCode, At
<1>2. UNCHANGED <<user, sessions, jar, issued, sent, faults, heirs, revoked, spent, steady>>
  BY DEF ConsumeCode, history
<1>3. secrets' \subseteq secrets /\ req[r].secret \notin Ids(secrets')
  BY DEF ConsumeCode, Without, Ids
<1>4. TablesTyped' /\ Respects(r)
  BY <1>0, <1>2, <1>3 DEF TablesTyped, Respects
<1>5. TablesOK'
  BY <1>0, <1>2, <1>3 DEF TablesOK, RowsDiffer, HeirsAreGone, OneHeir, RevokedIsGone, Known
<1> DEFINE new == [req[r] EXCEPT !.at = "issue"]
<1>a. Becomes(r, new)
  BY DEF ConsumeCode, GoTo
<1>6. /\ new \in Request /\ new.held = req[r].held /\ new.at = "issue" /\ new.op = req[r].op
      /\ new.tok = req[r].tok /\ new.secret = req[r].secret
      /\ new.cookie = req[r].cookie /\ new.want = req[r].want
  BY <1>1 DEF Request, Steps
<1> HIDE DEF new
<1>7. new.held = {} /\ Sound(new, sessions', secrets', issued')
  BY <1>1, <1>2, <1>3, <1>6 DEF Sound
<1> QED
  BY <1>1, <1>a, <1>2, <1>4, <1>5, <1>6, <1>7, GoOnStep

\* A new row; that of the cookie is deleted, if nobody has locked it.
LEMMA IssueTokenKeeps ==
  ASSUME TokenInv, NEW r \in Requests, IssueToken(r)
  PROVE  TokenInv'
<1>0. /\ TypeOK /\ TablesTyped /\ TablesOK
      /\ issued \in Nat /\ Fresh \in Nat /\ Fresh > issued /\ Fresh \in Int /\ Fresh # None
      /\ \A s \in sessions : s \in Session /\ s.sid <= issued /\ s.tok <= issued
  BY Types
<1>1. /\ r \in Active /\ req[r] \in Request /\ Sound(req[r], sessions, secrets, issued)
      /\ req[r].at = "issue" /\ req[r].tok \in Nat /\ req[r].secret \in Nat
  BY InFlight DEF IssueToken, At
<1>2. UNCHANGED <<user, secrets, jar, sent, faults, heirs, revoked, steady>>
  BY DEF IssueToken
<1>3. CASE req[r].uid # user
  <2>1. Still /\ Refuse(r)
    BY <1>2, <1>3 DEF IssueToken, Still
  <2> QED
    BY <1>1, <1>2, <2>1, StillAnswer DEF Refuse
<1>4. CASE req[r].uid = user
  <2> DEFINE row == [sid |-> Fresh, tok |-> Fresh, fresh |-> TRUE]
             mine == WithToken(req[r].tok)
  <2>1. /\ Sids(mine) \cap LockedFor(r) = {}
        /\ sessions' = (sessions \ mine) \cup {row} /\ issued' = Fresh
        /\ spent' = spent \cup ({req[r].secret} \ {None}) /\ Answer(r, Fresh)
    BY <1>4 DEF IssueToken
  <2>2. row \in Session /\ row.sid = Fresh /\ row.tok = Fresh
    BY <1>0 DEF Session
  <2> HIDE DEF row, mine
  <2>3. TablesTyped'
    BY <1>0, <1>1, <1>2, <2>1, <2>2 DEF TablesTyped
  <2>4. Respects(r)
    BY <1>0, <1>2, <2>1, NotLocked DEF Respects
  <2>5. RowsDiffer' /\ HeirsAreGone' /\ OneHeir'
    <3>1. RowsDiffer'
      BY <1>0, <2>1, <2>2 DEF TablesOK, RowsDiffer, Session
    <3>2. \A x \in heirs : x[1] # Fresh
      BY <1>0 DEF TablesOK, Known, TablesTyped
    <3> QED
      BY <1>0, <1>2, <2>1, <2>2, <3>1, <3>2 DEF TablesOK, HeirsAreGone, OneHeir
  <2>6. Known'
    <3>1. \A s \in sessions' : s.sid <= issued' /\ s.tok <= issued'
      BY <1>0, <2>1, <2>2 DEF Session
    <3>2. \A k \in secrets' : k.id <= issued'
      BY <1>0, <1>2, <2>1 DEF TablesOK, Known, TablesTyped
    <3>3. \A x \in heirs' : x[1] <= issued'
      BY <1>0, <1>2, <2>1 DEF TablesOK, Known, TablesTyped
    <3>4. \A n \in revoked' \cup spent' : n <= issued'
      BY <1>0, <1>1, <1>2, <2>1 DEF TablesOK, Known, TablesTyped, Sound
    <3>5. \A b \in Browsers : jar'[b] <= issued'
      BY <1>0, <1>2, <2>1 DEF TablesOK, Known, TypeOK
    <3> QED
      BY <3>1, <3>2, <3>3, <3>4, <3>5 DEF Known
  <2>7. RevokedIsGone'
    <3>1. Fresh \notin revoked
      BY <1>0 DEF TablesOK, Known, TablesTyped
    <3>2. Sids(sessions') \subseteq Sids(sessions) \cup {Fresh}
      BY <2>1, <2>2 DEF Sids
    <3>3. req[r].secret \notin Ids(secrets)
      BY <1>1 DEF Sound
    <3> QED
      BY <1>0, <1>2, <2>1, <3>1, <3>2, <3>3 DEF TablesOK, RevokedIsGone, Ids
  <2> QED
    BY <1>0, <1>1, <1>2, <2>1, <2>3, <2>4, <2>5, <2>6, <2>7, CommitStep
       DEF TablesOK, TypeOK, Keep
<1> QED
  BY <1>3, <1>4

-----------------------------------------------------------------------------
(* Rotations and revocations *)

\* A rotation of the row s, among rows of the table.
LEMMA RotatedRows ==
  ASSUME TokenInv, NEW set, set \subseteq sessions, NEW s \in sessions
  PROVE  /\ \A t \in Rotated(set, s.sid) :
              /\ t \in Session /\ t.sid \in Sids(set)
              /\ (t \in set /\ t.sid # s.sid) \/ (t.sid = s.sid /\ t.tok = Fresh /\ t.fresh)
         /\ \A t \in set : t.sid # s.sid => t \in Rotated(set, s.sid)
<1>0. /\ Fresh \in Nat /\ Fresh # None
      /\ \A t \in sessions : t \in Session /\ t.sid \in Nat \ {None} /\ t.tok \in Nat \ {None}
  BY Types
<1>1. ASSUME NEW t \in Rotated(set, s.sid)
      PROVE  /\ t \in Session /\ t.sid \in Sids(set)
             /\ (t \in set /\ t.sid # s.sid) \/ (t.sid = s.sid /\ t.tok = Fresh /\ t.fresh)
  <2>1. PICK u \in set :
          t = IF u.sid = s.sid THEN [u EXCEPT !.tok = Fresh, !.fresh = TRUE] ELSE u
    BY <1>1 DEF Rotated
  <2>2. u \in Session /\ u.sid \in Sids(set)
    BY <1>0, <2>1 DEF Sids
  <2>3. CASE u.sid = s.sid
    BY <1>0, <2>1, <2>2, <2>3 DEF Session
  <2>4. CASE u.sid # s.sid
    <3>1. t = u
      BY <2>1, <2>4
    <3> QED
      BY <2>2, <2>4, <3>1
  <2> QED
    BY <2>3, <2>4
<1>2. ASSUME NEW t \in set, t.sid # s.sid
      PROVE  t \in Rotated(set, s.sid)
  BY <1>2 DEF Rotated
<1> QED
  BY <1>1, <1>2

\* The token of the row that is rotated gets its first and only heir.
LEMMA RotationKeeps ==
  ASSUME TokenInv, NEW set, set \subseteq sessions, NEW s \in sessions,
         sessions' = Rotated(set, s.sid), issued' = Fresh,
         heirs' = heirs \cup {<<s.tok, Fresh>>}
  PROVE  /\ RowsDiffer' /\ HeirsAreGone' /\ OneHeir'
         /\ sessions' \subseteq Session /\ heirs' \subseteq Nat \X Nat
         /\ \A t \in sessions' : t.sid <= issued' /\ t.tok <= issued'
         /\ \A x \in heirs' : x[1] <= issued'
         /\ Sids(sessions') \subseteq Sids(set)
<1>0. /\ TypeOK /\ TablesTyped /\ TablesOK
      /\ issued \in Nat /\ Fresh \in Nat /\ Fresh > issued
      /\ \A t \in sessions : t \in Session /\ t.sid \in Nat \ {None} /\ t.tok \in Nat \ {None}
      /\ \A t \in sessions : t.sid <= issued /\ t.tok <= issued
  BY Types
<1>1. \A t \in sessions' :
        /\ t \in Session /\ t.sid \in Sids(set)
        /\ (t \in set /\ t.sid # s.sid) \/ (t.sid = s.sid /\ t.tok = Fresh /\ t.fresh)
  BY RotatedRows
<1>2. \A t \in sessions' : t.sid \in Nat /\ t.tok \in Nat /\ t.sid <= issued
  BY <1>0, <1>1 DEF Session
<1>3. RowsDiffer'
  <2> SUFFICES ASSUME NEW t \in sessions', NEW u \in sessions', t.sid = u.sid \/ t.tok = u.tok
               PROVE  t = u
    BY DEF RowsDiffer
  <2>1. CASE t.sid = s.sid /\ u.sid = s.sid
    <3>1. t.tok = Fresh /\ u.tok = Fresh /\ t.fresh = TRUE /\ u.fresh = TRUE
      BY <1>1, <2>1 DEF Session
    <3>2. t \in Session /\ u \in Session
      BY <1>1
    <3> QED
      BY <2>1, <3>1, <3>2 DEF Session
  <2>2. CASE t.sid # s.sid /\ u.sid # s.sid
    BY <1>0, <1>1, <2>2 DEF TablesOK, RowsDiffer
  <2>3. CASE t.sid = s.sid /\ u.sid # s.sid
    <3>1. t.tok = Fresh /\ u \in sessions
      BY <1>1, <2>3
    <3>2. u.tok # Fresh
      BY <1>0, <3>1
    <3> QED
      BY <2>3, <3>1, <3>2
  <2>4. CASE t.sid # s.sid /\ u.sid = s.sid
    <3>1. u.tok = Fresh /\ t \in sessions
      BY <1>1, <2>4
    <3>2. t.tok # Fresh
      BY <1>0, <3>1
    <3> QED
      BY <2>4, <3>1, <3>2
  <2> QED
    BY <2>1, <2>2, <2>3, <2>4
<1>4. \A x \in heirs : x \in Nat \X Nat /\ x[1] \in Nat /\ x[1] <= issued /\ x[1] # s.tok
  BY <1>0 DEF TablesOK, Known, HeirsAreGone, TablesTyped
<1>5. OneHeir'
  BY <1>0, <1>4 DEF OneHeir, TablesOK
<1>6. \A x \in heirs' : x \in heirs \/ x[1] = s.tok
  OBVIOUS
<1>7. HeirsAreGone'
  <2> SUFFICES ASSUME NEW x \in heirs', NEW t \in sessions'
               PROVE  t.tok # x[1]
    BY DEF HeirsAreGone
  <2>1. CASE t.sid = s.sid
    <3>1. t.tok = Fresh
      BY <1>1, <2>1
    <3>2. x[1] \in Nat /\ x[1] <= issued
      BY <1>0, <1>4, <1>6
    <3> QED
      BY <1>0, <3>1, <3>2
  <2>2. CASE t.sid # s.sid
    <3>1. t \in sessions /\ t # s
      BY <1>1, <2>2
    <3>2. t.tok # s.tok
      BY <1>0, <3>1 DEF TablesOK, RowsDiffer
    <3> QED
      BY <1>0, <1>6, <3>1, <3>2 DEF TablesOK, HeirsAreGone
  <2> QED
    BY <2>1, <2>2
<1>8. \A t \in sessions' : t.sid <= issued' /\ t.tok <= issued'
  BY <1>0, <1>1, <1>2
<1>9. heirs' \subseteq Nat \X Nat /\ \A x \in heirs' : x[1] <= issued'
  BY <1>0, <1>4, <1>6
<1>10. Sids(sessions') \subseteq Sids(set)
  BY <1>1 DEF Sids
<1> QED
  BY <1>1, <1>3, <1>5, <1>7, <1>8, <1>9, <1>10

\* The row is locked, so it still has the token of the request.
LEMMA CommitRefreshKeeps ==
  ASSUME TokenInv, NEW r \in Requests, CommitRefresh(r)
  PROVE  TokenInv'
<1>0. /\ TypeOK /\ TablesTyped /\ TablesOK
      /\ issued \in Nat /\ Fresh \in Nat /\ Fresh > issued /\ Fresh \in Int
  BY Types
<1>1. /\ r \in Active /\ req[r] \in Request /\ Sound(req[r], sessions, secrets, issued)
      /\ req[r].at = "rotate"
  BY InFlight DEF CommitRefresh, At
<1>2. /\ UNCHANGED <<user, secrets, jar, sent, faults, revoked, spent, steady>>
      /\ issued' = Fresh /\ heirs' = heirs \cup {<<req[r].tok, Fresh>>} /\ Answer(r, Fresh)
  BY DEF CommitRefresh
<1>3. PICK s \in sessions : s.tok = req[r].tok /\ req[r].held = {s.sid}
  BY <1>1 DEF Sound
<1>4. sessions' = Rotated(sessions, s.sid)
  BY <1>3 DEF CommitRefresh
<1>5. heirs' = heirs \cup {<<s.tok, Fresh>>}
  BY <1>2, <1>3
<1>6. /\ RowsDiffer' /\ HeirsAreGone' /\ OneHeir'
      /\ sessions' \subseteq Session /\ heirs' \subseteq Nat \X Nat
      /\ \A t \in sessions' : t.sid <= issued' /\ t.tok <= issued'
      /\ \A x \in heirs' : x[1] <= issued'
      /\ Sids(sessions') \subseteq Sids(sessions)
  BY <1>2, <1>4, <1>5, RotationKeeps
<1>7. TablesTyped'
  BY <1>0, <1>2, <1>6 DEF TablesTyped
<1>8. Respects(r)
  <2>1. s.sid \notin LockedFor(r)
    BY <1>1, <1>3 DEF TokenInv, LocksExclude, LockedFor
  <2>2. \A t \in sessions : t.sid # s.sid => t \in sessions'
    BY <1>4, RotatedRows
  <2> QED
    BY <1>0, <1>2, <2>1, <2>2 DEF Respects
<1>9. Known'
  BY <1>0, <1>2, <1>6 DEF TablesOK, Known, TypeOK, TablesTyped
<1>10. RevokedIsGone'
  BY <1>0, <1>2, <1>6 DEF TablesOK, RevokedIsGone
<1> QED
  BY <1>0, <1>1, <1>2, <1>6, <1>7, <1>8, <1>9, <1>10, CommitStep DEF TablesOK, TypeOK, Keep

\* Rows and secrets that go away take nothing with them but themselves.
LEMMA RemovalKeeps ==
  ASSUME TokenInv, sessions' \subseteq sessions, secrets' \subseteq secrets,
         user' \in Nat, UNCHANGED <<issued, heirs, jar>>,
         revoked \subseteq revoked', spent \subseteq spent',
         \A n \in revoked' \ revoked : n \in Nat /\ n <= issued /\ n \notin Sids(sessions'),
         \A n \in spent' \ spent : n \in Nat /\ n <= issued /\ n \notin Ids(secrets')
  PROVE  TablesTyped' /\ TablesOK'
<1>0. TypeOK /\ TablesTyped /\ TablesOK
  BY Types
<1>1. TablesTyped'
  BY <1>0 DEF TablesTyped
<1>2. RowsDiffer' /\ HeirsAreGone' /\ OneHeir' /\ Known'
  BY <1>0 DEF TablesOK, RowsDiffer, HeirsAreGone, OneHeir, Known
<1>3. Sids(sessions') \subseteq Sids(sessions) /\ Ids(secrets') \subseteq Ids(secrets)
  BY DEF Sids, Ids
<1>4. RevokedIsGone'
  BY <1>0, <1>3 DEF TablesOK, RevokedIsGone, Ids
<1> QED
  BY <1>1, <1>2, <1>4 DEF TablesOK

LEMMA LogoutKeeps ==
  ASSUME TokenInv, NEW r \in Requests, Logout(r)
  PROVE  TokenInv'
<1>0. TypeOK /\ TablesTyped /\ TablesOK /\ issued \in Nat
  BY Types
<1>1. r \in Active
  BY InFlight DEF Logout, At
<1>2. /\ UNCHANGED <<user, secrets, jar, issued, sent, faults, heirs, revoked, spent, steady>>
      /\ Answer(r, Clear) /\ sessions' = sessions \ WithToken(req[r].tok)
      /\ Sids(WithToken(req[r].tok)) \cap LockedFor(r) = {}
  BY DEF Logout, history
<1>3. TablesTyped' /\ TablesOK'
  BY <1>0, <1>2, RemovalKeeps DEF TypeOK
<1>4. Respects(r)
  BY <1>0, <1>2, NotLocked DEF Respects
<1> QED
  BY <1>0, <1>1, <1>2, <1>3, <1>4, CommitStep DEF TypeOK, Keep, Clear, None

\* The rows found are erased with what they contain by now; nobody had them locked.
LEMMA EraseFound ==
  ASSUME NEW found
  PROVE  /\ Erase(found) \subseteq sessions
         /\ Sids(Erase(found)) \cap Sids(found) = {}
         /\ \A s \in sessions : s.sid \notin Sids(found) => s \in Erase(found)
BY DEF Erase, Sids

LEMMA RevokeAllKeeps ==
  ASSUME TokenInv, NEW r \in Requests, RevokeAll(r)
  PROVE  TokenInv'
<1>0. TypeOK /\ TablesTyped /\ TablesOK /\ issued \in Nat
  BY Types
<1>1. /\ r \in Active /\ req[r] \in Request /\ Sound(req[r], sessions, secrets, issued)
      /\ req[r].want \in SUBSET Session /\ req[r].secret \in Nat
  BY InFlight DEF RevokeAll, At
<1>2. UNCHANGED <<user, jar, issued, sent, faults, heirs>>
  BY DEF RevokeAll
<1>3. CASE user # req[r].uid
  <2>1. Still /\ Refuse(r) /\ UNCHANGED steady
    BY <1>2, <1>3 DEF RevokeAll, Still
  <2> QED
    BY <1>1, <1>2, <2>1, StillAnswer DEF Refuse
<1>4. CASE user = req[r].uid
  <2> DEFINE cookie == IF req[r].op = "change" THEN Clear ELSE Keep
  <2>1. /\ sessions' = Erase(req[r].want) /\ secrets' = Without({req[r].secret})
        /\ revoked' = revoked \cup Sids(req[r].want)
        /\ spent' = spent \cup ({req[r].secret} \ {None})
        /\ steady' = {} /\ Answer(r, cookie)
        /\ Sids(req[r].want) \cap LockedFor(r) = {}
    BY <1>4 DEF RevokeAll
  <2>2. /\ sessions' \subseteq sessions /\ Sids(sessions') \cap Sids(req[r].want) = {}
        /\ \A s \in sessions : s.sid \notin Sids(req[r].want) => s \in sessions'
    BY <2>1, EraseFound
  <2>3. secrets' \subseteq secrets /\ req[r].secret \notin Ids(secrets')
    BY <2>1 DEF Without, Ids
  <2>4. \A n \in Sids(req[r].want) : n \in Nat /\ n <= issued
    BY <1>1 DEF Sids, Session, Sound
  <2>5. req[r].secret <= issued
    BY <1>1 DEF Sound
  <2>6. TablesTyped' /\ TablesOK'
    <3>1. \A n \in revoked' \ revoked : n \in Nat /\ n <= issued /\ n \notin Sids(sessions')
      BY <2>1, <2>2, <2>4
    <3>2. \A n \in spent' \ spent : n \in Nat /\ n <= issued /\ n \notin Ids(secrets')
      BY <1>1, <2>1, <2>3, <2>5
    <3>3. revoked \subseteq revoked' /\ spent \subseteq spent' /\ user' \in Nat
      BY <1>0, <1>2, <2>1 DEF TypeOK
    <3>4. UNCHANGED <<issued, heirs, jar>>
      BY <1>2
    <3> QED
      BY <2>2, <2>3, <3>1, <3>2, <3>3, <3>4, RemovalKeeps
  <2>7. Respects(r)
    <3>1. \A s \in sessions : s.sid \in LockedFor(r) => s \in sessions'
      BY <2>1, <2>2
    <3>2. \A k \in secrets' : k \in secrets
      BY <2>3
    <3>3. issued' = issued
      BY <1>2
    <3> QED
      BY <1>0, <3>1, <3>2, <3>3 DEF Respects
  <2>8. cookie \in Int /\ cookie >= Keep /\ cookie <= issued'
    BY <1>0, <1>2 DEF Keep, Clear, None
  <2>9. steady' \subseteq Browsers
    BY <2>1
  <2> HIDE DEF cookie
  <2>10. Answer(r, cookie)
    BY <2>1
  <2> QED
    BY <1>1, <1>2, <2>6, <2>7, <2>8, <2>9, <2>10, CommitStep
<1> QED
  BY <1>3, <1>4

LEMMA DeleteAccountKeeps ==
  ASSUME TokenInv, NEW r \in Requests, DeleteAccount(r)
  PROVE  TokenInv'
<1>0. TypeOK /\ TablesTyped /\ TablesOK /\ issued \in Nat
  BY Types
<1>1. r \in Active
  BY InFlight DEF DeleteAccount, At
<1>2. UNCHANGED <<jar, issued, sent, faults, heirs, spent>>
  BY DEF DeleteAccount
<1>3. CASE user # req[r].uid
  <2>1. Still /\ Refuse(r) /\ UNCHANGED steady
    BY <1>2, <1>3 DEF DeleteAccount, Still, rows
  <2> QED
    BY <1>1, <1>2, <2>1, StillAnswer DEF Refuse
<1>4. CASE user = req[r].uid
  <2>1. /\ user' = None /\ sessions' = {} /\ secrets' = {}
        /\ revoked' = revoked \cup Sids(sessions) /\ steady' = {} /\ Answer(r, Clear)
        /\ Sids(sessions) \cap LockedFor(r) = {}
    BY <1>4 DEF DeleteAccount
  <2>2. \A n \in Sids(sessions) : n \in Nat /\ n <= issued
    BY <1>0 DEF Sids, Session, TablesTyped, TablesOK, Known
  <2>3. Sids(sessions') = {}
    BY <2>1 DEF Sids
  <2>4. TablesTyped' /\ TablesOK'
    BY <1>0, <1>2, <2>1, <2>2, <2>3, RemovalKeeps DEF None
  <2>5. Respects(r)
    BY <1>0, <1>2, <2>1 DEF Respects, Sids
  <2> QED
    BY <1>0, <1>1, <1>2, <2>1, <2>4, <2>5, CommitStep DEF Keep, Clear, None
<1> QED
  BY <1>3, <1>4

\* A change of the password goes on to revoke every session, keeps its own with a new
\* token, or finds that the user is gone.
LEMMA ChangePasswordKeeps ==
  ASSUME TokenInv, NEW r \in Requests, ChangePassword(r)
  PROVE  TokenInv'
<1>0. /\ TypeOK /\ TablesTyped /\ TablesOK
      /\ issued \in Nat /\ Fresh \in Nat /\ Fresh > issued /\ Fresh \in Int
  BY Types
<1>1. /\ r \in Active /\ req[r] \in Request /\ Sound(req[r], sessions, secrets, issued)
      /\ req[r].at = "own" /\ req[r].want \in SUBSET Session
  BY InFlight DEF ChangePassword, At
<1>2. UNCHANGED <<user, secrets, jar, sent, faults, spent>>
  BY DEF ChangePassword
<1> DEFINE kept == {s \in WithToken(req[r].tok) : s.fresh}
<1>3. CASE user # req[r].uid
  <2>1. Still /\ Refuse(r) /\ UNCHANGED steady
    BY <1>2, <1>3 DEF ChangePassword, Still
  <2> QED
    BY <1>1, <1>2, <2>1, StillAnswer DEF Refuse
<1>4. CASE user = req[r].uid /\ kept = {}
  <2> DEFINE new == [req[r] EXCEPT !.at = "all", !.want = @ \cup sessions]
  <2>1. /\ Becomes(r, new)
        /\ UNCHANGED <<sessions, issued, heirs, revoked, steady>>
    BY <1>4 DEF ChangePassword
  <2>2. Still
    BY <1>2, <2>1 DEF Still
  <2>3. /\ new \in Request /\ new.held = req[r].held /\ new.at = "all"
        /\ new.want = req[r].want \cup sessions /\ new.op = req[r].op
        /\ new.tok = req[r].tok /\ new.secret = req[r].secret /\ new.cookie = req[r].cookie
    BY <1>0, <1>1 DEF Request, Steps, TablesTyped
  <2> HIDE DEF new
  <2>4. Sound(new, sessions, secrets, issued)
    BY <1>0, <1>1, <2>3 DEF Sound, TablesOK, Known
  <2> QED
    BY <1>1, <1>2, <2>1, <2>2, <2>3, <2>4, Lookup
<1>5. CASE user = req[r].uid /\ kept # {}
  <2>1. /\ \E s \in kept : sessions' = Rotated(Erase(req[r].want), s.sid)
        /\ issued' = Fresh /\ heirs' = heirs \cup {<<req[r].tok, Fresh>>}
        /\ revoked' = revoked \cup Sids(req[r].want)
        /\ steady' = {} /\ Answer(r, Fresh)
        /\ Sids(WithToken(req[r].tok)) \cap LockedFor(r) = {}
    BY <1>5 DEF ChangePassword
  <2>2. PICK s \in sessions : /\ s.tok = req[r].tok
                              /\ sessions' = Rotated(Erase(req[r].want), s.sid)
                              /\ s.sid \notin LockedFor(r)
    BY <2>1 DEF WithToken, Sids
  <2>3. /\ Erase(req[r].want) \subseteq sessions
        /\ Sids(Erase(req[r].want)) \cap Sids(req[r].want) = {}
        /\ \A t \in sessions : t.sid \notin Sids(req[r].want) => t \in Erase(req[r].want)
    BY EraseFound
  <2>4. heirs' = heirs \cup {<<s.tok, Fresh>>}
    BY <2>1, <2>2
  <2>5. /\ RowsDiffer' /\ HeirsAreGone' /\ OneHeir'
        /\ sessions' \subseteq Session /\ heirs' \subseteq Nat \X Nat
        /\ \A t \in sessions' : t.sid <= issued' /\ t.tok <= issued'
        /\ \A x \in heirs' : x[1] <= issued'
        /\ Sids(sessions') \subseteq Sids(Erase(req[r].want))
    BY <2>1, <2>2, <2>3, <2>4, RotationKeeps
  <2>6. \A n \in Sids(req[r].want) : n \in Nat /\ n <= issued
    BY <1>1 DEF Sids, Session, Sound
  <2>7. TablesTyped'
    BY <1>0, <1>2, <2>1, <2>5, <2>6 DEF TablesTyped
  <2>8. Respects(r)
    <3>1. Sids(req[r].want) \cap LockedFor(r) = {}
      BY <1>1 DEF Sound, TokenInv, LocksExclude, LockedFor
    <3>2. \A t \in sessions : t.sid \in LockedFor(r) => t \in sessions'
      BY <2>2, <2>3, <3>1, RotatedRows
    <3> QED
      BY <1>0, <1>2, <2>1, <3>2 DEF Respects
  <2>9. Known'
    BY <1>0, <1>2, <2>1, <2>5, <2>6 DEF TablesOK, Known, TypeOK, TablesTyped
  <2>10. RevokedIsGone'
    <3>1. revoked' = revoked \cup Sids(req[r].want)
      BY <2>1
    <3>2. /\ Sids(sessions') \cap Sids(req[r].want) = {}
          /\ Sids(sessions') \subseteq Sids(sessions)
      BY <2>3, <2>5 DEF Sids, Erase
    <3>3. revoked' \cap Sids(sessions') = {}
      BY <1>0, <3>1, <3>2 DEF TablesOK, RevokedIsGone
    <3>4. spent' \cap {k.id : k \in secrets'} = {}
      BY <1>0, <1>2 DEF TablesOK, RevokedIsGone
    <3> QED
      BY <3>3, <3>4 DEF RevokedIsGone
  <2> QED
    BY <1>0, <1>1, <1>2, <2>1, <2>5, <2>7, <2>8, <2>9, <2>10, CommitStep
       DEF TablesOK, TypeOK, Keep
<1> QED
  BY <1>3, <1>4, <1>5

-----------------------------------------------------------------------------
(* Time *)

\* Requests and tables, when no request takes a step.
LEMMA NoRequestSteps ==
  ASSUME TokenInv, UNCHANGED req, issued' = issued, secrets' \subseteq secrets,
         \A s \in sessions : (\E q \in Active : s.sid \in req[q].held) => s \in sessions'
  PROVE  RequestsSound' /\ LocksExclude' /\ Active' = Active
<1>1. Active' = Active
  BY DEF Active
<1>2. LocksExclude'
  BY <1>1 DEF TokenInv, LocksExclude
<1>3. ASSUME NEW r \in Active
      PROVE  Sound(req[r], sessions', secrets', issued')
  BY <1>3 DEF TokenInv, RequestsSound, Sound, Ids
<1> QED
  BY <1>1, <1>2, <1>3 DEF RequestsSound

LEMMA ExpireSessionKeeps ==
  ASSUME TokenInv, NEW s \in sessions, ExpireSession(s)
  PROVE  TokenInv'
<1>0. /\ TypeOK /\ TablesTyped /\ TablesOK
      /\ \A t \in sessions : t \in Session
      /\ \A t \in sessions : t.sid <= issued /\ t.tok <= issued
  BY Types
<1> DEFINE old == [s EXCEPT !.fresh = FALSE]
<1>1. /\ sessions' = (sessions \ {s}) \cup {old}
      /\ UNCHANGED <<user, secrets, jar, req, issued, sent, heirs, revoked, spent>>
      /\ faults' = faults + 1 /\ faults < MaxFaults /\ steady' = {}
  BY DEF ExpireSession
<1>2. s.sid \notin UNION {req[q].held : q \in Active}
  BY DEF ExpireSession
<1>3. old \in Session /\ old.sid = s.sid /\ old.tok = s.tok
  BY <1>0 DEF Session
<1> HIDE DEF old
<1>4. \A t \in sessions : (\E q \in Active : t.sid \in req[q].held) => t \in sessions'
  BY <1>1, <1>2
<1>5. RequestsSound' /\ LocksExclude' /\ Active' = Active
  BY <1>1, <1>4, NoRequestSteps
<1>6. \A t \in sessions' : t \in Session /\ \E u \in sessions : t.sid = u.sid /\ t.tok = u.tok
  BY <1>0, <1>1, <1>3
<1>7. RowsDiffer'
  BY <1>0, <1>1, <1>3 DEF TablesOK, RowsDiffer
<1>8. HeirsAreGone' /\ OneHeir'
  BY <1>0, <1>1, <1>6 DEF TablesOK, HeirsAreGone, OneHeir
<1>9. Known' /\ RevokedIsGone'
  BY <1>0, <1>1, <1>6 DEF TablesOK, Known, RevokedIsGone, Sids
<1>10. TypeOK'
  BY <1>0, <1>1, <1>5, <1>6, BoundsAssumption DEF TypeOK
<1> QED
  BY <1>5, <1>7, <1>8, <1>9, <1>10 DEF TokenInv, TablesOK

LEMMA ExpireSecretKeeps ==
  ASSUME TokenInv, NEW k \in secrets, ExpireSecret(k)
  PROVE  TokenInv'
<1>0. TypeOK /\ TablesTyped /\ TablesOK
  BY Types
<1>1. /\ secrets' \subseteq secrets
      /\ UNCHANGED <<user, sessions, jar, req, issued, sent, heirs, revoked, spent, steady>>
      /\ faults' = faults + 1 /\ faults < MaxFaults
  BY DEF ExpireSecret, history
<1>2. RequestsSound' /\ LocksExclude' /\ Active' = Active
  BY <1>1, NoRequestSteps
<1>3. TablesTyped' /\ TablesOK'
  BY <1>0, <1>1, RemovalKeeps DEF TypeOK
<1>4. TypeOK'
  BY <1>0, <1>1, <1>2, <1>3, BoundsAssumption DEF TypeOK, TablesTyped
<1> QED
  BY <1>2, <1>3, <1>4 DEF TokenInv

-----------------------------------------------------------------------------
(* Tokens: the theorem *)

\* Nobody has a request in flight; every signed in browser has a row of its own.
LEMMA TokenInvInit == Init => TokenInv
<1> SUFFICES ASSUME Init PROVE TokenInv
  OBVIOUS
<1>1. Cardinality(Browsers) \in Nat
  BY BrowsersAssumption, FS_CardinalityType
<1>2. /\ req = [r \in Requests |-> NoRequest] /\ secrets = {} /\ heirs = {}
      /\ revoked = {} /\ spent = {} /\ sent = 0 /\ faults = 0 /\ steady \subseteq Browsers
  BY DEF Init
<1>3. Active = {}
  BY <1>2 DEF Active, NoRequest
<1>4. CASE user = None /\ issued = 0 /\ sessions = {} /\ jar = [b \in Browsers |-> None]
  BY <1>2, <1>3, <1>4, BoundsAssumption
     DEF TokenInv, TypeOK, TablesOK, RowsDiffer, HeirsAreGone, OneHeir, Known, RevokedIsGone,
         RequestsSound, LocksExclude, None, Sids
<1>5. CASE /\ user = 1
           /\ issued = 1 + Cardinality(Browsers)
           /\ jar \in [Browsers -> 2..issued]
           /\ \A b, c \in Browsers : jar[b] = jar[c] => b = c
           /\ sessions = {[sid |-> jar[b], tok |-> jar[b], fresh |-> TRUE] : b \in Browsers}
  <2>1. \A s \in sessions : \E b \in Browsers :
          s = [sid |-> jar[b], tok |-> jar[b], fresh |-> TRUE]
    BY <1>5
  <2>2. \A b \in Browsers : jar[b] \in Nat \ {None} /\ jar[b] <= issued
    BY <1>1, <1>5 DEF None
  <2>3. \A s \in sessions : /\ s \in Session /\ s.sid = s.tok /\ s.tok <= issued
                            /\ \E b \in Browsers : s.tok = jar[b]
    <3> TAKE s \in sessions
    <3>1. PICK b \in Browsers : s = [sid |-> jar[b], tok |-> jar[b], fresh |-> TRUE]
      BY <2>1
    <3>2. s \in Session
      BY <2>2, <3>1 DEF Session
    <3>3. s.sid = jar[b] /\ s.tok = jar[b]
      BY <3>1
    <3> QED
      BY <2>2, <3>2, <3>3
  <2>4. TypeOK
    BY <1>1, <1>2, <1>3, <1>5, <2>2, <2>3, BoundsAssumption DEF TypeOK
  <2>5. RowsDiffer
    <3>1. SUFFICES ASSUME NEW s \in sessions, NEW t \in sessions, s.sid = t.sid \/ s.tok = t.tok
                   PROVE  s = t
      BY DEF RowsDiffer
    <3>2. PICK b \in Browsers : s = [sid |-> jar[b], tok |-> jar[b], fresh |-> TRUE]
      BY <2>1
    <3>3. PICK c \in Browsers : t = [sid |-> jar[c], tok |-> jar[c], fresh |-> TRUE]
      BY <2>1
    <3>4. s.sid = jar[b] /\ s.tok = jar[b]
      BY <3>2
    <3>5. t.sid = jar[c] /\ t.tok = jar[c]
      BY <3>3
    <3>6. jar[b] = jar[c]
      BY <3>1, <3>4, <3>5
    <3> QED
      BY <3>2, <3>3, <3>6
  <2>6. HeirsAreGone /\ OneHeir /\ RevokedIsGone
    BY <1>2 DEF HeirsAreGone, OneHeir, RevokedIsGone
  <2>7. Known
    BY <1>2, <2>2, <2>3 DEF Known
  <2>8. RequestsSound /\ LocksExclude
    BY <1>3 DEF RequestsSound, LocksExclude
  <2> QED
    BY <2>4, <2>5, <2>6, <2>7, <2>8 DEF TokenInv, TablesOK
<1> QED
  BY <1>4, <1>5 DEF Init

LEMMA TokenInvNext == TokenInv /\ [Next]_vars => TokenInv'
<1> SUFFICES ASSUME TokenInv, [Next]_vars PROVE TokenInv'
  OBVIOUS
<1>1. ASSUME NEW r \in Requests, Step(r)
      PROVE  TokenInv'
  BY <1>1, FindEarlierKeeps, StoreSecretKeeps, FindAccountKeeps, CreateAccountKeeps,
     ConsumeCodeKeeps, IssueTokenKeeps, BeginRefreshKeeps, CommitRefreshKeeps, LogoutKeeps,
     FindLinkKeeps, FindSessionsKeeps, RevokeAllKeeps, FindOthersKeeps, LockOthersKeeps,
     ChangePasswordKeeps, AbortDeadlockKeeps, DeleteAccountKeeps
     DEF Step
<1>2. ASSUME NEW r \in Requests, NEW b \in Browsers, NEW op \in Ops,
             NEW secret \in {k.id : k \in secrets} \cup {None}, Send(r, b, op, secret)
      PROVE  TokenInv'
  BY <1>2, SendKeeps DEF Ids
<1>3. ASSUME NEW r \in Requests, Receive(r) \/ Fail(r)
      PROVE  TokenInv'
  BY <1>3, ReceiveKeeps, FailKeeps
<1>4. ASSUME NEW s \in sessions, ExpireSession(s)
      PROVE  TokenInv'
  BY <1>4, ExpireSessionKeeps
<1>5. ASSUME NEW k \in secrets, ExpireSecret(k)
      PROVE  TokenInv'
  BY <1>5, ExpireSecretKeeps
<1>6. CASE UNCHANGED vars
  <2>1. /\ UNCHANGED <<user, sessions, secrets, jar, req, issued, sent, faults,
                       heirs, revoked, spent, steady>>
        /\ TypeOK
    BY <1>6 DEF vars, rows, history, TokenInv
  <2>2. RequestsSound' /\ LocksExclude' /\ Active' = Active
    BY <2>1, NoRequestSteps
  <2>3. TablesOK'
    BY <2>1 DEF TokenInv, TablesOK, RowsDiffer, HeirsAreGone, OneHeir, Known, RevokedIsGone
  <2>4. TypeOK'
    BY <2>1, <2>2 DEF TypeOK
  <2> QED
    BY <2>2, <2>3, <2>4 DEF TokenInv
<1> QED
  BY <1>1, <1>2, <1>3, <1>4, <1>5, <1>6 DEF Next

\* For any number of browsers and of requests that overlap: a token is exchanged at most
\* once (get_refresh_token_session, FOR UPDATE), and sessions, codes and links that were
\* taken away do not come back.
THEOREM TokensAreUsedOnce == Spec => []Inv
<1>1. TokenInv => Inv
  BY DEF TokenInv, TablesOK, Inv
<1> QED
  BY <1>1, TokenInvInit, TokenInvNext, PTL DEF Spec
-----------------------------------------------------------------------------
(* Who holds a token *)

SignOuts == {"logout", "change", "delete"}
Token(n) == n # Keep /\ n # None

\* No two browsers hold the same token, in their jars or in requests they have sent.
OwnersDiffer ==
  /\ \A b, c \in Browsers : jar[b] = jar[c] /\ jar[b] # None => b = c
  /\ \A r \in Active, c \in Browsers : req[r].tok = jar[c] /\ jar[c] # None => req[r].b = c
  /\ \A r, q \in Active : req[r].tok = req[q].tok /\ req[r].tok # None => req[r].b = req[q].b

\* The token in an answer is in no jar, in no request and in no other answer.
CookiesAreNew ==
  \A r \in Active : Token(req[r].cookie) =>
    /\ \A b \in Browsers : jar[b] # req[r].cookie
    /\ \A q \in Active : req[q].tok # req[r].cookie
    /\ \A q \in Active : req[q].cookie = req[r].cookie => q = r

\* Only an answer sets a cookie, and only signing out clears it.
CookiesFit ==
  \A r \in Active :
    /\ req[r].cookie # Keep => req[r].at = "answer"
    /\ req[r].cookie = Clear => req[r].op \in SignOuts
    /\ req[r].at = "revoke" => req[r].op = "logout"
    /\ req[r].at = "delete" => req[r].op = "delete"

\* A steady browser has not asked to be signed out, the tokens on their way to it are
\* valid, and so is the one in its jar unless another is on its way.
SteadyOK(b) ==
  /\ \A r \in Active : req[r].b = b =>
       req[r].op \notin SignOuts /\ (req[r].cookie = Keep \/ req[r].cookie \in Live)
  /\ jar[b] \in Live \/ \E r \in Active : req[r].b = b /\ req[r].cookie \in Live

JarInv == OwnersDiffer /\ CookiesAreNew /\ CookiesFit /\ \A b \in steady : SteadyOK(b)

LEMMA LiveTokens ==
  ASSUME TokenInv
  PROVE  /\ \A n \in Live : n \in Nat /\ Token(n) /\ n <= issued
         /\ \A n : n \in Live <=> \E s \in sessions : s.fresh /\ s.tok = n
<1>1. \A n : n \in Live <=> \E s \in sessions : s.fresh /\ s.tok = n
  BY DEF Live
<1>2. \A s \in sessions : s.tok \in Nat \ {None} /\ s.tok <= issued
  BY DEF TokenInv, TypeOK, TablesOK, Known, Session
<1> QED
  BY <1>1, <1>2 DEF Token, Keep, None

\* What the requests and the jars have, in numbers.
LEMMA Held ==
  ASSUME TokenInv
  PROVE  /\ issued \in Nat /\ Fresh \in Nat /\ Fresh > issued
         /\ \A b \in Browsers : jar[b] \in Nat /\ jar[b] <= issued
         /\ \A r \in Active :
              /\ r \in Requests /\ req[r].b \in Browsers /\ req[r].at # "idle"
              /\ req[r].tok \in Nat /\ req[r].tok <= issued
              /\ req[r].cookie \in Int /\ req[r].cookie <= issued
<1>1. /\ issued \in Nat /\ jar \in [Browsers -> Nat]
      /\ \A b \in Browsers : jar[b] <= issued
  BY DEF TokenInv, TypeOK, TablesOK, Known
<1>2. ASSUME NEW r \in Active
      PROVE  /\ r \in Requests /\ req[r].b \in Browsers /\ req[r].at # "idle"
             /\ req[r].tok \in Nat /\ req[r].tok <= issued
             /\ req[r].cookie \in Int /\ req[r].cookie <= issued
  <2>1. r \in Requests /\ req[r] \in Request /\ req[r].at # "idle"
    BY <1>2, ActiveType DEF TokenInv, Active
  <2>2. Sound(req[r], sessions, secrets, issued)
    BY <1>2 DEF TokenInv, RequestsSound
  <2> QED
    BY <2>1, <2>2 DEF Request, Keep, Sound
<1> QED
  BY <1>1, <1>2 DEF Fresh

\* A step of a request that is not answered yet: it remains the request it was, and it
\* may be answered now.
Moves(r) ==
  /\ r \in Active /\ req[r].at # "answer"
  /\ \A q \in Requests \ {r} : req'[q] = req[q]
  /\ req'[r].at \notin {"idle", "revoke", "delete"}
  /\ req'[r].b = req[r].b /\ req'[r].tok = req[r].tok /\ req'[r].op = req[r].op
  /\ req'[r].cookie # Keep => req'[r].at = "answer"
  /\ \/ req'[r].cookie = Keep
     \/ req'[r].cookie = Fresh
     \/ req'[r].cookie = Clear /\ req[r].op \in SignOuts
  /\ jar' = jar

LEMMA MovesKeep ==
  ASSUME TokenInv, JarInv, NEW r, Moves(r)
  PROVE  /\ OwnersDiffer' /\ CookiesAreNew' /\ CookiesFit'
         /\ Active' = Active /\ req[r].cookie = Keep
<1>1. /\ r \in Active /\ r \in Requests /\ req[r].at # "answer" /\ jar' = jar
      /\ \A q \in Requests \ {r} : req'[q] = req[q]
      /\ req'[r].b = req[r].b /\ req'[r].tok = req[r].tok /\ req'[r].op = req[r].op
      /\ req'[r].at \notin {"idle", "revoke", "delete"}
      /\ req'[r].cookie # Keep => req'[r].at = "answer"
      /\ \/ req'[r].cookie = Keep
         \/ req'[r].cookie = Fresh
         \/ req'[r].cookie = Clear /\ req[r].op \in SignOuts
  BY Held DEF Moves
<1>2. Active' = Active /\ Active \subseteq Requests
  BY <1>1 DEF Active
<1>3. \A q \in Active : req'[q].b = req[q].b /\ req'[q].tok = req[q].tok /\ req'[q].op = req[q].op
  BY <1>1, <1>2
<1>4. OwnersDiffer'
  BY <1>1, <1>2, <1>3 DEF OwnersDiffer, JarInv
<1>5. CookiesAreNew'
  <2> SUFFICES ASSUME NEW p \in Active, Token(req'[p].cookie)
               PROVE  /\ \A b \in Browsers : jar[b] # req'[p].cookie
                      /\ \A q \in Active : req[q].tok # req'[p].cookie
                      /\ \A q \in Active : req'[q].cookie = req'[p].cookie => q = p
    BY <1>1, <1>2, <1>3 DEF CookiesAreNew
  <2>1. CASE p = r
    <3>1. req'[p].cookie = Fresh
      BY <1>1, <2>1 DEF Token, Clear
    <3> QED
      BY <1>1, <1>2, <2>1, <3>1, Held
  <2>2. CASE p # r
    <3>1. req'[p] = req[p]
      BY <1>1, <1>2, <2>2
    <3>2. req'[r].cookie # req[p].cookie
      BY <1>1, <2>2, <3>1, Held DEF Token, Clear
    <3> QED
      BY <1>1, <1>2, <2>2, <3>1, <3>2 DEF JarInv, CookiesAreNew
  <2> QED
    BY <2>1, <2>2
<1>6. CookiesFit'
  BY <1>1, <1>2, Held DEF CookiesFit, JarInv, Clear, None
<1>7. req[r].cookie = Keep
  BY <1>1 DEF JarInv, CookiesFit
<1> QED
  BY <1>2, <1>4, <1>5, <1>6, <1>7

\* A step that sets no cookie and ends no session.
LEMMA QuietMove ==
  ASSUME TokenInv, JarInv, NEW r, Moves(r), req'[r].cookie = Keep,
         Live \subseteq Live', steady' = steady
  PROVE  JarInv'
<1>1. /\ OwnersDiffer' /\ CookiesAreNew' /\ CookiesFit'
      /\ Active' = Active /\ req[r].cookie = Keep
  BY MovesKeep
<1>2. /\ jar' = jar /\ req'[r].b = req[r].b /\ req'[r].op = req[r].op
      /\ \A q \in Active \ {r} : req'[q] = req[q]
  BY Held DEF Moves
<1>3. ASSUME NEW b \in steady PROVE SteadyOK(b)'
  <2>1. SteadyOK(b)
    BY DEF JarInv
  <2>2. Keep \notin Live
    BY LiveTokens DEF Keep
  <2> QED
    BY <1>1, <1>2, <2>1, <2>2 DEF SteadyOK
<1> QED
  BY <1>1, <1>3 DEF JarInv

\* A step that ends the session of its token, if any, and that sets a new cookie or signs
\* the browser out.
LEMMA Replacement ==
  ASSUME TokenInv, JarInv, NEW r, Moves(r), steady' = steady,
         \A n \in Live : n = req[r].tok \/ n \in Live',
         \/ req'[r].cookie = Fresh /\ Fresh \in Live'
         \/ req[r].op \in SignOuts
  PROVE  JarInv'
<1>1. /\ OwnersDiffer' /\ CookiesAreNew' /\ CookiesFit'
      /\ Active' = Active /\ req[r].cookie = Keep
  BY MovesKeep
<1>2. /\ jar' = jar /\ r \in Active /\ req'[r].b = req[r].b /\ req'[r].op = req[r].op
      /\ \A q \in Active \ {r} : req'[q] = req[q]
  BY Held DEF Moves
<1>3. \A n \in Live : Token(n) /\ n # Keep
  BY LiveTokens DEF Token
<1>4. ASSUME NEW q \in Active, req[q].cookie \in Live
      PROVE  q # r /\ req[q].cookie \in Live'
  <2>1. q # r /\ req[q].cookie # req[r].tok
    BY <1>1, <1>2, <1>3, <1>4 DEF JarInv, CookiesAreNew
  <2> QED
    BY <1>4, <2>1
<1>5. ASSUME NEW b \in steady PROVE SteadyOK(b)'
  <2>1. SteadyOK(b) /\ b \in Browsers
    BY DEF JarInv, TokenInv, TypeOK
  <2>2. CASE req[r].b = b
    <3>1. req[r].op \notin SignOuts
      BY <1>2, <2>1, <2>2 DEF SteadyOK
    <3>2. req'[r].cookie = Fresh /\ Fresh \in Live'
      BY <3>1
    <3>3. req'[r].cookie \in Live'
      BY <3>2
    <3>4. \A q \in Active \ {r} : req[q].b = b =>
             req[q].op \notin SignOuts /\ (req[q].cookie = Keep \/ req[q].cookie \in Live')
      BY <1>4, <2>1 DEF SteadyOK
    <3> QED
      BY <1>1, <1>2, <2>2, <3>1, <3>3, <3>4 DEF SteadyOK
  <2>3. CASE req[r].b # b
    <3>1. \A q \in Active : req[q].b = b =>
             /\ q # r /\ req[q].op \notin SignOuts
             /\ req[q].cookie = Keep \/ req[q].cookie \in Live'
      BY <1>4, <2>1, <2>3 DEF SteadyOK
    <3>2. jar[b] \in Live => jar[b] \in Live'
      BY <1>2, <1>3, <2>1, <2>3 DEF JarInv, OwnersDiffer, Token
    <3>3. \/ jar[b] \in Live'
          \/ \E q \in Active \ {r} : req[q].b = b /\ req[q].cookie \in Live'
      BY <1>4, <2>1, <3>2 DEF SteadyOK
    <3> QED
      BY <1>1, <1>2, <2>3, <3>1, <3>3 DEF SteadyOK
  <2> QED
    BY <2>2, <2>3
<1> QED
  BY <1>1, <1>5 DEF JarInv

\* A step that signs everyone out, as far as the browsers can tell.
LEMMA SignsOut ==
  ASSUME TokenInv, JarInv, NEW r, Moves(r), steady' = {}
  PROVE  JarInv'
  BY MovesKeep DEF JarInv

-----------------------------------------------------------------------------
(* The steps of a request and the cookies *)

LEMMA MovesTo ==
  ASSUME TokenInv, NEW r \in Active, req[r].at # "answer", NEW new, Becomes(r, new),
         new.at \notin {"idle", "revoke", "delete"},
         new.b = req[r].b, new.tok = req[r].tok, new.op = req[r].op,
         new.cookie # Keep => new.at = "answer",
         \/ new.cookie = Keep
         \/ new.cookie = Fresh
         \/ new.cookie = Clear /\ req[r].op \in SignOuts,
         jar' = jar
  PROVE  Moves(r) /\ req'[r] = new
<1>1. req'[r] = new /\ \A q \in Requests \ {r} : req'[q] = req[q]
  BY DEF TokenInv, TypeOK, Becomes, Active
<1> QED
  BY <1>1 DEF Moves

LEMMA Answers ==
  ASSUME TokenInv, JarInv, NEW r \in Active, req[r].at # "answer", NEW cookie, Answer(r, cookie),
         cookie = Keep \/ cookie = Fresh \/ (cookie = Clear /\ req[r].op \in SignOuts),
         jar' = jar
  PROVE  Moves(r) /\ req'[r].cookie = cookie
<1> DEFINE new == Answered(r, cookie)
<1>1. /\ new.at = "answer" /\ new.b = req[r].b /\ new.tok = req[r].tok /\ new.op = req[r].op
      /\ new.cookie = cookie
  BY ActiveType DEF TokenInv, Answered, Request
<1>2. Becomes(r, new)
  BY DEF Answer
<1> HIDE DEF new
<1> QED
  BY <1>1, <1>2, MovesTo

\* The request goes on, and the sessions stay as they are.
LEMMA Looks ==
  ASSUME TokenInv, JarInv, NEW r \in Active, req[r].at # "answer", NEW new, Becomes(r, new),
         new.at \notin {"idle", "revoke", "delete"},
         new.b = req[r].b, new.tok = req[r].tok, new.op = req[r].op, new.cookie = req[r].cookie,
         UNCHANGED <<jar, sessions, steady>>
  PROVE  JarInv'
<1>1. new.cookie = Keep
  BY DEF JarInv, CookiesFit
<1>2. Moves(r) /\ req'[r].cookie = Keep
  BY <1>1, MovesTo
<1>3. Live' = Live
  BY DEF Live
<1> QED
  BY <1>2, <1>3, QuietMove

LEMMA Refuses ==
  ASSUME TokenInv, JarInv, NEW r \in Active, req[r].at # "answer", Answer(r, Keep),
         UNCHANGED <<jar, sessions, steady>>
  PROVE  JarInv'
<1>1. Moves(r) /\ req'[r].cookie = Keep
  BY Answers
<1>2. Live' = Live
  BY DEF Live
<1> QED
  BY <1>1, <1>2, QuietMove

LEMMA Lookups ==
  ASSUME TokenInv, JarInv, NEW r \in Requests,
         FindEarlier(r) \/ StoreSecret(r) \/ FindAccount(r) \/ CreateAccount(r) \/ ConsumeCode(r)
  PROVE  JarInv'
<1>1. /\ r \in Active /\ req[r] \in Request /\ req[r].at # "answer"
      /\ UNCHANGED <<jar, sessions, steady>>
  BY InFlight DEF FindEarlier, StoreSecret, FindAccount, CreateAccount, ConsumeCode, At, rows,
                  history
<1>2. CASE Answer(r, Keep)
  BY <1>1, <1>2, Refuses
<1>3. ASSUME NEW old, Becomes(r, [req[r] EXCEPT !.at = "store", !.old = old])
      PROVE  JarInv'
  <2> DEFINE new == [req[r] EXCEPT !.at = "store", !.old = old]
  <2>1. /\ new.at = "store" /\ new.b = req[r].b /\ new.tok = req[r].tok /\ new.op = req[r].op
        /\ new.cookie = req[r].cookie
    BY <1>1 DEF Request
  <2> HIDE DEF new
  <2> QED
    BY <1>1, <1>3, <2>1, Looks DEF new
<1>4. ASSUME NEW uid, NEW step \in {"create", "consume", "issue"},
             Becomes(r, [req[r] EXCEPT !.uid = uid, !.at = step])
      PROVE  JarInv'
  <2> DEFINE new == [req[r] EXCEPT !.uid = uid, !.at = step]
  <2>1. /\ new.at = step /\ new.b = req[r].b /\ new.tok = req[r].tok /\ new.op = req[r].op
        /\ new.cookie = req[r].cookie
    BY <1>1 DEF Request
  <2>2. Becomes(r, new)
    BY <1>4
  <2> HIDE DEF new
  <2> QED
    BY <1>1, <2>1, <2>2, Looks
<1>5. ASSUME GoTo(r, "issue")
      PROVE  JarInv'
  <2> DEFINE new == [req[r] EXCEPT !.at = "issue"]
  <2>1. /\ new.at = "issue" /\ new.b = req[r].b /\ new.tok = req[r].tok /\ new.op = req[r].op
        /\ new.cookie = req[r].cookie
    BY <1>1 DEF Request
  <2>2. Becomes(r, new)
    BY <1>5 DEF GoTo
  <2> HIDE DEF new
  <2> QED
    BY <1>1, <2>1, <2>2, Looks
<1>6. CASE FindEarlier(r)
  BY <1>2, <1>3, <1>6 DEF FindEarlier
<1>7. CASE FindAccount(r)
  <2> DEFINE step == CASE ~(user # None) -> "create" [] req[r].op = "verify" -> "consume"
                       [] OTHER -> "issue"
  <2>1. step \in {"create", "consume", "issue"}
    OBVIOUS
  <2>2. Refuse(r) \/ Becomes(r, [req[r] EXCEPT !.uid = user, !.at = step])
    BY <1>7 DEF FindAccount
  <2> HIDE DEF step
  <2> QED
    BY <1>2, <1>4, <2>1, <2>2 DEF Refuse
<1>8. CASE CreateAccount(r)
  <2> DEFINE step == IF req[r].op = "verify" THEN "consume" ELSE "issue"
  <2>1. step \in {"create", "consume", "issue"}
    OBVIOUS
  <2>2. Refuse(r) \/ Becomes(r, [req[r] EXCEPT !.uid = Fresh, !.at = step])
    BY <1>8 DEF CreateAccount
  <2> HIDE DEF step
  <2> QED
    BY <1>2, <1>4, <2>1, <2>2 DEF Refuse
<1> QED
  BY <1>2, <1>5, <1>6, <1>7, <1>8 DEF StoreSecret, ConsumeCode

LEMMA LockingLookups ==
  ASSUME TokenInv, JarInv, NEW r \in Requests,
         BeginRefresh(r) \/ FindLink(r) \/ FindSessions(r) \/ FindOthers(r) \/ LockOthers(r)
  PROVE  JarInv'
<1>1. /\ r \in Active /\ req[r] \in Request /\ req[r].at # "answer"
      /\ UNCHANGED <<jar, sessions, steady>>
  BY InFlight DEF BeginRefresh, FindLink, FindSessions, FindOthers, LockOthers, At, rows, history
<1>2. CASE Refuse(r)
  BY <1>1, <1>2, Refuses DEF Refuse
<1>3. ASSUME NEW step \in {"rotate", "own"}, NEW held,
             Becomes(r, [req[r] EXCEPT !.at = step, !.held = held])
      PROVE  JarInv'
  <2> DEFINE new == [req[r] EXCEPT !.at = step, !.held = held]
  <2>1. /\ new.at = step /\ new.b = req[r].b /\ new.tok = req[r].tok /\ new.op = req[r].op
        /\ new.cookie = req[r].cookie
    BY <1>1 DEF Request
  <2>2. Becomes(r, new)
    BY <1>3
  <2> HIDE DEF new
  <2> QED
    BY <1>1, <2>1, <2>2, Looks
<1>4. ASSUME NEW uid, Becomes(r, [req[r] EXCEPT !.at = "wipe", !.uid = uid])
      PROVE  JarInv'
  <2> DEFINE new == [req[r] EXCEPT !.at = "wipe", !.uid = uid]
  <2>1. /\ new.at = "wipe" /\ new.b = req[r].b /\ new.tok = req[r].tok /\ new.op = req[r].op
        /\ new.cookie = req[r].cookie
    BY <1>1 DEF Request
  <2>2. Becomes(r, new)
    BY <1>4
  <2> HIDE DEF new
  <2> QED
    BY <1>1, <2>1, <2>2, Looks
<1>5. ASSUME NEW step \in {"all", "lockothers"}, NEW want,
             Becomes(r, [req[r] EXCEPT !.want = want, !.at = step])
      PROVE  JarInv'
  <2> DEFINE new == [req[r] EXCEPT !.want = want, !.at = step]
  <2>1. /\ new.at = step /\ new.b = req[r].b /\ new.tok = req[r].tok /\ new.op = req[r].op
        /\ new.cookie = req[r].cookie
    BY <1>1 DEF Request
  <2>2. Becomes(r, new)
    BY <1>5
  <2> HIDE DEF new
  <2> QED
    BY <1>1, <2>1, <2>2, Looks
<1>6. ASSUME NEW want, Becomes(r, [req[r] EXCEPT !.at = "all", !.want = want])
      PROVE  JarInv'
  <2>1. [req[r] EXCEPT !.at = "all", !.want = want] = [req[r] EXCEPT !.want = want, !.at = "all"]
    BY <1>1 DEF Request
  <2> QED
    BY <1>5, <1>6, <2>1
<1>7. CASE BeginRefresh(r)
  BY <1>2, <1>3, <1>7 DEF BeginRefresh, LockSession
<1>8. CASE FindLink(r)
  BY <1>2, <1>4, <1>8 DEF FindLink
<1>9. CASE FindSessions(r)
  BY <1>6, <1>9 DEF FindSessions
<1>10. CASE FindOthers(r)
  <2> DEFINE step == IF req[r].tok = None THEN "all" ELSE "lockothers"
  <2>1. step \in {"all", "lockothers"}
    OBVIOUS
  <2>2. \/ Refuse(r)
        \/ Becomes(r, [req[r] EXCEPT !.want = sessions \ WithToken(req[r].tok), !.at = step])
    BY <1>10 DEF FindOthers
  <2> HIDE DEF step
  <2> QED
    BY <1>2, <1>5, <2>1, <2>2
<1>11. CASE LockOthers(r)
  BY <1>3, <1>11 DEF LockOthers
<1> QED
  BY <1>7, <1>8, <1>9, <1>10, <1>11

\* IssueToken, CommitRefresh, Logout: the session of the cookie ends.
LEMMA TokenSteps ==
  ASSUME TokenInv, JarInv, NEW r \in Requests, IssueToken(r) \/ CommitRefresh(r) \/ Logout(r)
  PROVE  JarInv'
<1>1. /\ r \in Active /\ req[r] \in Request /\ req[r].at # "answer"
      /\ Sound(req[r], sessions, secrets, issued)
      /\ UNCHANGED <<jar, steady>>
  BY InFlight DEF IssueToken, CommitRefresh, Logout, At, history
<1>2. /\ \A n : n \in Live <=> \E s \in sessions : s.fresh /\ s.tok = n
      /\ \A n : n \in Live' <=> \E s \in sessions' : s.fresh /\ s.tok = n
  BY DEF Live
<1>3. CASE IssueToken(r)
  <2>1. CASE req[r].uid # user
    BY <1>1, <1>3, <2>1, Refuses DEF IssueToken, Refuse
  <2>2. CASE req[r].uid = user
    <3>1. /\ sessions' = (sessions \ WithToken(req[r].tok)) \cup
                           {[sid |-> Fresh, tok |-> Fresh, fresh |-> TRUE]}
          /\ Answer(r, Fresh)
      BY <1>3, <2>2 DEF IssueToken
    <3>2. Fresh \in Live'
      <4>1. [sid |-> Fresh, tok |-> Fresh, fresh |-> TRUE] \in sessions'
        BY <3>1
      <4> QED
        BY <1>2, <4>1
    <3>3. \A n \in Live : n = req[r].tok \/ n \in Live'
      BY <1>2, <3>1 DEF WithToken
    <3> QED
      BY <1>1, <3>1, <3>2, <3>3, Answers, Replacement
  <2> QED
    BY <2>1, <2>2
<1>4. CASE CommitRefresh(r)
  <2>1. PICK sid \in req[r].held : sessions' = Rotated(sessions, sid)
    BY <1>4 DEF CommitRefresh
  <2>2. PICK s \in sessions : s.tok = req[r].tok /\ req[r].held = {s.sid}
    BY <1>1, <1>4 DEF Sound, CommitRefresh, At
  <2>3. sid = s.sid /\ Answer(r, Fresh)
    BY <1>4, <2>1, <2>2 DEF CommitRefresh
  <2>4. /\ [s EXCEPT !.tok = Fresh, !.fresh = TRUE] \in sessions'
        /\ \A t \in sessions : t.sid # s.sid => t \in sessions'
    BY <2>1, <2>2, <2>3 DEF Rotated
  <2>5. s \in Session
    BY DEF TokenInv, TypeOK
  <2>6. Fresh \in Live'
    <3> DEFINE t == [s EXCEPT !.tok = Fresh, !.fresh = TRUE]
    <3>1. t.tok = Fresh /\ t.fresh
      BY <2>5 DEF Session
    <3> QED
      BY <1>2, <2>4, <3>1
  <2>7. \A t \in sessions : t.sid = s.sid => t = s
    BY DEF TokenInv, TablesOK, RowsDiffer
  <2>8. \A n \in Live : n = req[r].tok \/ n \in Live'
    BY <1>2, <2>2, <2>4, <2>7
  <2> QED
    BY <1>1, <2>3, <2>6, <2>8, Answers, Replacement
<1>5. CASE Logout(r)
  <2>1. sessions' = sessions \ WithToken(req[r].tok) /\ Answer(r, Clear)
    BY <1>5 DEF Logout
  <2>2. req[r].op \in SignOuts
    BY <1>1, <1>5 DEF Logout, At, JarInv, CookiesFit, SignOuts
  <2>3. \A n \in Live : n = req[r].tok \/ n \in Live'
    BY <1>2, <2>1 DEF WithToken
  <2> QED
    BY <1>1, <2>1, <2>2, <2>3, Answers, Replacement
<1> QED
  BY <1>3, <1>4, <1>5

\* RevokeAll, ChangePassword, DeleteAccount, AbortDeadlock: they fail or sign everyone out.
LEMMA PasswordSteps ==
  ASSUME TokenInv, JarInv, NEW r \in Requests,
         RevokeAll(r) \/ ChangePassword(r) \/ DeleteAccount(r) \/ AbortDeadlock(r)
  PROVE  JarInv'
<1>0. AbortDeadlock(r) => req[r].at \in {"own", "all", "lockothers"}
  BY DEF AbortDeadlock, WaitsFor, At
<1>1. /\ r \in Active /\ req[r] \in Request /\ req[r].at # "answer"
      /\ UNCHANGED jar
  BY <1>0, InFlight DEF RevokeAll, ChangePassword, DeleteAccount, AbortDeadlock, At, rows
<1>2. CASE Refuse(r) /\ UNCHANGED <<sessions, steady>>
  BY <1>1, <1>2, Refuses DEF Refuse
<1>3. ASSUME NEW cookie, Answer(r, cookie), steady' = {},
             cookie = Keep \/ cookie = Fresh \/ (cookie = Clear /\ req[r].op \in SignOuts)
      PROVE  JarInv'
  BY <1>1, <1>3, Answers, SignsOut
<1>4. CASE RevokeAll(r)
  <2>1. CASE user # req[r].uid
    BY <1>2, <1>4, <2>1 DEF RevokeAll
  <2>2. CASE user = req[r].uid
    <3>1. Answer(r, IF req[r].op = "change" THEN Clear ELSE Keep) /\ steady' = {}
      BY <1>4, <2>2 DEF RevokeAll
    <3>2. CASE req[r].op = "change"
      BY <1>3, <3>1, <3>2 DEF SignOuts
    <3>3. CASE req[r].op # "change"
      BY <1>3, <3>1, <3>3
    <3> QED
      BY <3>2, <3>3
  <2> QED
    BY <2>1, <2>2
<1>5. CASE ChangePassword(r)
  <2> DEFINE kept == {s \in WithToken(req[r].tok) : s.fresh}
             new == [req[r] EXCEPT !.at = "all", !.want = @ \cup sessions]
  <2>1. CASE user # req[r].uid
    BY <1>2, <1>5, <2>1 DEF ChangePassword
  <2>2. CASE user = req[r].uid /\ kept = {}
    <3>1. Becomes(r, new) /\ UNCHANGED <<sessions, steady>>
      BY <1>5, <2>2 DEF ChangePassword
    <3>2. /\ new.at = "all" /\ new.b = req[r].b /\ new.tok = req[r].tok /\ new.op = req[r].op
          /\ new.cookie = req[r].cookie
      BY <1>1 DEF Request
    <3> HIDE DEF new
    <3> QED
      BY <1>1, <3>1, <3>2, Looks
  <2>3. CASE user = req[r].uid /\ kept # {}
    <3>1. Answer(r, Fresh) /\ steady' = {}
      BY <1>5, <2>3 DEF ChangePassword
    <3> QED
      BY <1>3, <3>1
  <2> QED
    BY <2>1, <2>2, <2>3
<1>6. CASE DeleteAccount(r)
  <2>1. CASE user # req[r].uid
    BY <1>2, <1>6, <2>1 DEF DeleteAccount, rows
  <2>2. CASE user = req[r].uid
    <3>1. Answer(r, Clear) /\ steady' = {}
      BY <1>6, <2>2 DEF DeleteAccount
    <3>2. req[r].op \in SignOuts
      BY <1>1, <1>6 DEF DeleteAccount, At, JarInv, CookiesFit, SignOuts
    <3> QED
      BY <1>3, <3>1, <3>2
  <2> QED
    BY <2>1, <2>2
<1>7. CASE AbortDeadlock(r)
  BY <1>2, <1>7 DEF AbortDeadlock, rows, history
<1> QED
  BY <1>4, <1>5, <1>6, <1>7

\* A request takes the token of its browser along.
LEMMA SendJar ==
  ASSUME TokenInv, JarInv, NEW r \in Requests, NEW b \in Browsers, NEW op, NEW secret,
         Send(r, b, op, secret)
  PROVE  JarInv'
<1> DEFINE new == [at |-> First(op), op |-> op, b |-> b, tok |-> jar[b], secret |-> secret,
                   uid |-> user, old |-> {}, want |-> {}, held |-> {}, cookie |-> Keep]
<1>1. /\ req[r].at = "idle" /\ Becomes(r, new) /\ op \in AllOps
      /\ UNCHANGED <<sessions, jar>>
      /\ steady' = IF op \in SignOuts THEN steady \ {b} ELSE steady
  BY OpsAssumption DEF Send, At, rows, SignOuts
<1>2. /\ new.at = First(op) /\ new.op = op /\ new.b = b /\ new.tok = jar[b] /\ new.cookie = Keep
  OBVIOUS
<1> HIDE DEF new
<1>3. /\ First(op) # "idle"
      /\ First(op) = "revoke" => op = "logout"
      /\ First(op) = "delete" => op = "delete"
  BY <1>1 DEF First, AllOps, SignIns
<1>4. /\ req'[r] = new /\ \A q \in Requests \ {r} : req'[q] = req[q]
  BY <1>1 DEF TokenInv, TypeOK, Becomes
<1>5. Active' = Active \cup {r} /\ r \notin Active /\ Active \subseteq Requests
  BY <1>1, <1>2, <1>3, <1>4 DEF Active
<1>6. \A q \in Active : req'[q] = req[q]
  BY <1>4, <1>5
<1>7. OwnersDiffer'
  BY <1>1, <1>2, <1>4, <1>5, <1>6 DEF JarInv, OwnersDiffer
<1>8. CookiesAreNew'
  <2>1. ~ Token(req'[r].cookie)
    BY <1>2, <1>4 DEF Token
  <2>2. \A q \in Active : Token(req[q].cookie) => req'[r].tok # req[q].cookie
    BY <1>2, <1>4 DEF JarInv, CookiesAreNew
  <2> QED
    BY <1>1, <1>5, <1>6, <2>1, <2>2 DEF JarInv, CookiesAreNew
<1>9. CookiesFit'
  BY <1>2, <1>3, <1>4, <1>5, <1>6 DEF JarInv, CookiesFit, Keep, Clear, None
<1>10. ASSUME NEW c \in steady'
       PROVE  SteadyOK(c)'
  <2>1. c \in steady /\ SteadyOK(c) /\ (c = b => op \notin SignOuts)
    BY <1>1, <1>10 DEF JarInv
  <2>2. Live' = Live
    BY <1>1 DEF Live
  <2> QED
    BY <1>1, <1>2, <1>4, <1>5, <1>6, <2>1, <2>2 DEF SteadyOK
<1> QED
  BY <1>7, <1>8, <1>9, <1>10 DEF JarInv

\* A token that arrives was nowhere else, and the one it replaces was not steady any more.
LEMMA ReceiveJar ==
  ASSUME TokenInv, JarInv, NEW r \in Requests, Receive(r)
  PROVE  JarInv'
<1> DEFINE b == req[r].b
           cookie == req[r].cookie
<1>1. /\ req[r].at = "answer" /\ r \in Active /\ b \in Browsers
      /\ UNCHANGED sessions
      /\ Becomes(r, NoRequest)
  BY InFlight, Held DEF Receive, At, rows
<1>2. /\ jar'[b] = IF cookie = Keep THEN jar[b] ELSE cookie
      /\ \A c \in Browsers \ {b} : jar'[c] = jar[c]
  BY <1>1 DEF Receive, TokenInv, TypeOK
<1>3. \A c \in steady' : c \in steady \/ (c = b /\ cookie \in Live /\ ActiveOf(b) = {r})
  BY DEF Receive
<1>4. /\ \A q \in Requests \ {r} : req'[q] = req[q]
      /\ Active' = Active \ {r} /\ Active \subseteq Requests
  BY <1>1, Vanishing DEF TokenInv, Active
<1>5. /\ \A q \in Active' : q \in Active /\ q # r /\ req'[q] = req[q]
      /\ \A q \in Active : q # r => q \in Active'
  BY <1>4
<1>6. Live' = Live /\ Keep \notin Live
  BY <1>1, LiveTokens DEF Live, Keep
<1>7. cookie # Keep /\ cookie # None =>
        /\ \A c \in Browsers : jar[c] # cookie
        /\ \A q \in Active : req[q].tok # cookie
        /\ \A q \in Active : req[q].cookie = cookie => q = r
  BY <1>1 DEF JarInv, CookiesAreNew, Token
<1> HIDE DEF b, cookie
<1>8. OwnersDiffer'
  <2>1. ASSUME NEW c \in Browsers, NEW d \in Browsers, jar'[c] = jar'[d], jar'[c] # None
        PROVE  c = d
    BY <1>1, <1>2, <1>7, <2>1 DEF JarInv, OwnersDiffer
  <2>2. ASSUME NEW q \in Active', NEW c \in Browsers, req[q].tok = jar'[c], jar'[c] # None
        PROVE  req[q].b = c
    BY <1>1, <1>2, <1>5, <1>7, <2>2 DEF JarInv, OwnersDiffer
  <2> QED
    BY <1>5, <2>1, <2>2 DEF JarInv, OwnersDiffer
<1>9. CookiesAreNew'
  <2> SUFFICES ASSUME NEW p \in Active', Token(req[p].cookie)
               PROVE  \A c \in Browsers : jar'[c] # req[p].cookie
    BY <1>5 DEF JarInv, CookiesAreNew
  <2>1. \A c \in Browsers : jar[c] # req[p].cookie
    BY <1>5 DEF JarInv, CookiesAreNew
  <2>2. cookie # Keep /\ cookie # None => req[p].cookie # cookie
    BY <1>5, <1>7
  <2>3. req[p].cookie # None
    BY DEF Token
  <2> QED
    BY <1>2, <2>1, <2>2, <2>3
<1>10. CookiesFit'
  BY <1>5 DEF JarInv, CookiesFit
<1>11. ASSUME NEW c \in steady'
       PROVE  SteadyOK(c)'
  <2>1. CASE c \in steady /\ c # b
    <3>1. SteadyOK(c) /\ c \in Browsers
      BY <2>1 DEF JarInv, TokenInv, TypeOK
    <3>2. jar'[c] = jar[c]
      BY <1>2, <2>1, <3>1
    <3>3. req[r].b # c
      BY <2>1 DEF b
    <3> QED
      BY <1>5, <1>6, <3>1, <3>2, <3>3 DEF SteadyOK
  <2>2. CASE c \in steady /\ c = b
    <3>1. SteadyOK(c)
      BY <2>2 DEF JarInv
    <3>2. cookie = Keep \/ cookie \in Live
      BY <1>1, <2>2, <3>1 DEF SteadyOK, b, cookie
    <3>3. CASE cookie = Keep
      <4>1. jar'[c] = jar[c] /\ req[r].cookie \notin Live
        BY <1>2, <1>6, <2>2, <3>3 DEF cookie
      <4> QED
        BY <1>5, <1>6, <3>1, <4>1 DEF SteadyOK
    <3>4. CASE cookie \in Live
      <4>1. jar'[c] \in Live
        BY <1>2, <1>6, <2>2, <3>4
      <4> QED
        BY <1>5, <1>6, <3>1, <4>1 DEF SteadyOK
    <3> QED
      BY <3>2, <3>3, <3>4
  <2>3. CASE c = b /\ cookie \in Live /\ ActiveOf(b) = {r}
    <3>1. jar'[c] \in Live'
      BY <1>2, <1>6, <2>3
    <3>2. \A q \in Active' : req'[q].b # c
      BY <1>5, <2>3 DEF ActiveOf
    <3> QED
      BY <3>1, <3>2 DEF SteadyOK
  <2> QED
    BY <1>3, <2>1, <2>2, <2>3
<1> QED
  BY <1>8, <1>9, <1>10, <1>11 DEF JarInv

\* A request that is lost may have had the only valid token of its browser.
LEMMA FailJar ==
  ASSUME TokenInv, JarInv, NEW r \in Requests, Fail(r)
  PROVE  JarInv'
<1>1. /\ r \in Active /\ Becomes(r, NoRequest) /\ UNCHANGED <<sessions, jar>>
      /\ steady' = steady \ {req[r].b}
  BY DEF Fail, rows
<1>2. /\ \A q \in Requests \ {r} : req'[q] = req[q]
      /\ Active' = Active \ {r} /\ Active \subseteq Requests
  BY <1>1, Vanishing DEF TokenInv, Active
<1>3. /\ \A q \in Active' : q \in Active /\ req'[q] = req[q]
      /\ \A q \in Active : q # r => q \in Active'
  BY <1>2
<1>4. OwnersDiffer' /\ CookiesAreNew' /\ CookiesFit'
  BY <1>1, <1>3 DEF JarInv, OwnersDiffer, CookiesAreNew, CookiesFit
<1>5. Live' = Live
  BY <1>1 DEF Live
<1>6. \A c \in steady' : SteadyOK(c)'
  BY <1>1, <1>3, <1>5 DEF JarInv, SteadyOK
<1> QED
  BY <1>4, <1>6 DEF JarInv

-----------------------------------------------------------------------------
(* Browsers: the theorem *)

LEMMA JarInvInit == Init => JarInv
<1> SUFFICES ASSUME Init PROVE JarInv
  OBVIOUS
<1>1. req = [r \in Requests |-> NoRequest] /\ steady = {b \in Browsers : jar[b] # None}
  BY DEF Init
<1>2. Active = {}
  BY <1>1 DEF Active, NoRequest
<1>3. CASE sessions = {} /\ jar = [b \in Browsers |-> None]
  BY <1>1, <1>2, <1>3 DEF JarInv, OwnersDiffer, CookiesAreNew, CookiesFit
<1>4. CASE /\ \A b, c \in Browsers : jar[b] = jar[c] => b = c
           /\ sessions = {[sid |-> jar[b], tok |-> jar[b], fresh |-> TRUE] : b \in Browsers}
  <2>1. ASSUME NEW b \in Browsers PROVE jar[b] \in Live
    <3> DEFINE s == [sid |-> jar[b], tok |-> jar[b], fresh |-> TRUE]
    <3>1. s \in sessions /\ s.fresh /\ s.tok = jar[b]
      BY <1>4
    <3> QED
      BY <3>1 DEF Live
  <2> QED
    BY <1>1, <1>2, <1>4, <2>1 DEF JarInv, OwnersDiffer, CookiesAreNew, CookiesFit, SteadyOK
<1> QED
  BY <1>3, <1>4 DEF Init

LEMMA JarInvNext == TokenInv /\ JarInv /\ [Next]_vars => JarInv'
<1> SUFFICES ASSUME TokenInv, JarInv, [Next]_vars PROVE JarInv'
  OBVIOUS
<1>1. ASSUME NEW r \in Requests, Step(r)
      PROVE  JarInv'
  BY <1>1, Lookups, LockingLookups, TokenSteps, PasswordSteps DEF Step
<1>2. ASSUME NEW r \in Requests, NEW b \in Browsers, NEW op \in Ops,
             NEW secret \in {k.id : k \in secrets} \cup {None}, Send(r, b, op, secret)
      PROVE  JarInv'
  BY <1>2, SendJar
<1>3. ASSUME NEW r \in Requests, Receive(r) \/ Fail(r)
      PROVE  JarInv'
  BY <1>3, ReceiveJar, FailJar
<1>4. ASSUME NEW s \in sessions, ExpireSession(s)
      PROVE  JarInv'
  BY <1>4 DEF ExpireSession, JarInv, OwnersDiffer, CookiesAreNew, CookiesFit, Active
<1>5. CASE UNCHANGED <<sessions, jar, req, steady>>
  BY <1>5 DEF JarInv, OwnersDiffer, CookiesAreNew, CookiesFit, SteadyOK, Active, Live
<1>6. ASSUME NEW k \in secrets, ExpireSecret(k)
      PROVE  JarInv'
  BY <1>5, <1>6 DEF ExpireSecret, history
<1>7. CASE UNCHANGED vars
  BY <1>5, <1>7 DEF vars, rows, history
<1> QED
  BY <1>1, <1>2, <1>3, <1>4, <1>6, <1>7 DEF Next

\* For any number of browsers and of requests that overlap: a browser that nothing should
\* have signed out holds a valid token whenever none of its requests is in flight
\* (_issue_token_response, rotate_refresh_token_session, the cookies of the answers).
THEOREM BrowsersStaySignedIn == Spec => []StaysSignedIn
<1>1. TokenInv /\ JarInv => StaysSignedIn
  BY DEF JarInv, SteadyOK, StaysSignedIn, ActiveOf
<1>2. TokenInv /\ JarInv /\ [Next]_vars => (TokenInv /\ JarInv)'
  BY TokenInvNext, JarInvNext
<1>3. Init => TokenInv /\ JarInv
  BY TokenInvInit, JarInvInit
<1> QED
  BY <1>1, <1>2, <1>3, PTL DEF Spec
=============================================================================
