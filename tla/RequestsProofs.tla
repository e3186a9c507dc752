---------------------------- MODULE RequestsProofs ----------------------------
(***************************************************************************)
(* The requests of the API, with any number of them in flight, any number  *)
(* of keys, sites and versions, and any table of letters.                  *)
(*                                                                         *)
(* What a handler has read was true when it read it.  The invariant says   *)
(* for each part what is left of that at the later steps: of a key or a    *)
(* page that is dead, everything, since neither revives; of a letter, a    *)
(* form or the ids of the campaign, that whoever has changed it overlaps.  *)
(* A part keeps its share of the invariant whatever the others do, as they *)
(* do not write each other's rows; the shell relies on the answers of the  *)
(* parts, and the mailer of the alerts, at the end, stands by itself.      *)
(***************************************************************************)
EXTENDS Requests, FailureAlerts, FiniteSetTheorems, WellFoundedInduction, TLAPS

\* What a request has read of a key, or changed, is still so when it answers, since keys
\* do not revive; and a count never exceeds the uses that were answered.
KeyCallOK(x) ==
  /\ x.at = "gate" => x.op \in K!Managing
  /\ x.at \in {"insert", "refresh"} => x.op = "create"
  /\ x.at = "revoke" => x.op = "revoke" /\ (x.row.is_active \/ K!Dead(x.k))
  /\ x.at = "delete" => x.op = "delete"
  /\ x.at = "stamp" => x.op = "use" /\ x.row.usage_count <= Cardinality(K!UsesOf(x.k))
  /\ x.at = "end" /\ x.result = "fine" =>
       /\ x.op = "revoke" => K!Dead(x.k)
       /\ x.op = "delete" => key[x.k].stored = "deleted"

KeysInv == K!TypeOK /\ K!CountsAreUses /\ \A r \in Reqs : KeyCallOK(keycall[r])

\* A site that was not made yet is not live; a site that was down when it was read still is.
SiteCallOK(x) ==
  /\ x.at = "again" => x.op \in {"create", "update", "unpublish"}
  /\ x.at = "write" /\ x.op = "unpublish" => x.row.live \/ ~S!Live(x.s)
  /\ x.at = "end" /\ x.op \notin S!Legacy => x.result # "stream"
  /\ x.at = "again" \/ (x.at = "end" /\ x.result = "fine") =>
       (x.op = "unpublish" => ~S!Live(x.s))
  /\ x.at = "end" /\ x.result = "fine" /\ x.op = "delete" => site[x.s].stored = "deleted"

SitesInv ==
  /\ S!TypeOK /\ S!OneSite /\ S!VisitorsSeeThePublished
  /\ \A s \in S!SiteIds : site[s].stored = "never" => ~site[s].live
  /\ \A r \in Reqs : SiteCallOK(sitecall[r])

\* Who stores a version with the letter that a request has chosen came after its choice.
PosterCallOK(x) ==
  /\ \A d \in x.ended : postercall[d].at = "end"
  /\ x.at \in {"list", "insert"} => x.op = "regenerate"
  /\ x.at = "delete" => x.op = "delete"
  /\ x.at = "prime" => x.op = "generate"
  /\ x.at = "end" /\ x.op # "generate" => x.result # "stream"
  /\ x.at = "insert" => \A a \in P!AssetIds :
       /\ P!Stored(a) /\ asset[a].type = x.row.type
       /\ asset[a].version = x.version /\ x.version \in P!Range(Letters)
       => asset[a].by # P!None /\ asset[a].by \notin x.ended
  /\ x.at = "end" /\ x.result = "fine" /\ x.op = "delete" => asset[x.a].stored = "deleted"

PostersInv ==
  /\ P!TypeOK /\ P!LettersTellVersions /\ P!PromptsAreExact
  /\ \A a \in P!AssetIds : asset[a].by # P!None => postercall[asset[a].by].at = "end"
  /\ \A r \in Reqs : PosterCallOK(postercall[r])

\* The forms that a request cannot have seen, and the requests for the campaign that it
\* cannot have seen or that it overlaps.
GivenLater(x, f) == \E d \in Reqs \ x.ended :
  projectcall[d].at # "idle" /\ projectcall[d].given[f] = project[f]
Excused(r) ==
  \/ \E d \in Reqs : J!Is(d, {"campaign", "preview", "edit"}) /\ J!Overlap(r, d)
  \/ \E d \in Reqs : J!Fine(d, {"edit"}) /\ r \in projectcall[d].ended

\* What a call knows by itself, and what it has done.
ProjectOwn(r, x) ==
  /\ \A d \in x.ended : projectcall[d].at = "end"
  /\ x.at \in {"backfill", "check"} => x.op \in {"campaign", "preview", "edit"}
  /\ x.at = "check" \/ (x.at = "end" /\ x.result = "fine") =>
       (x.op = "campaign" => x.ids # J!None)
  /\ x.at = "end" /\ x.result = "fine" =>
       (x.op = "remove" => ~document) /\ (x.op = "close" => ~account)
  /\ x.at = "write" => x.op \notin {"workspace", "look", "upload", "campaign", "preview"}
  /\ x.at = "backfill" => x.ids = r

\* What it has read, and what it was told, is still so or accounted for.
ProjectSeen(r, x) == account =>
  /\ x.at = "write" /\ x.op \in {"update", "onboard"} =>
       \A f \in J!Fields : x.seen[f] = project[f] \/ GivenLater(x, f)
  /\ J!Fine(r, {"update", "onboard"}) =>
       \A f \in J!Fields : x.given[f] \in {J!None, project[f]} \/ GivenLater(x, f)
  /\ x.at = "backfill" => \A d \in x.ended : J!Fine(d, {"campaign"}) => Excused(d)
  /\ x.op = "campaign" /\ (x.at = "check" \/ J!Fine(r, {"campaign"})) =>
       ids = x.ids \/ Excused(r)

ProjectsInv ==
  /\ J!TypeOK /\ J!NoOrphans
  /\ \A r \in Reqs : ProjectOwn(r, projectcall[r]) /\ ProjectSeen(r, projectcall[r])

\* An alert is attached to the answers of 500 and above; until there is an answer nothing
\* is counted and nothing told.
ShellOK(r) ==
  /\ req[r].at = "handler" => req[r].area # "other"
  /\ req[r].at \in {"idle", "handler"} => req[r].status = 0 /\ ~req[r].counted /\ ~req[r].lost
  /\ req[r].alert <=> req[r].status >= 500
  /\ req[r].at = "streaming" => req[r].status < 500
  /\ req[r].at = "alerting" => req[r].status >= 500
  /\ req[r].at = "end" /\ ~req[r].lost /\ req[r].status >= 500 => <<r, req[r].status>> \in told
  /\ req[r].status >= 400 => /\ req[r].origin = "page" => req[r].allowed
                             /\ req[r].origin = "elsewhere" => ~req[r].allowed
  /\ req[r].status = 200 /\ req[r].area # "other" =>
       Call(r).at = "end" /\ Call(r).result \notin Exceptions

ShellInv ==
  /\ req \in [Reqs -> Request] /\ told \subseteq Reqs \X Statuses
  /\ metrics \in [total : Nat, errors : Nat] /\ stops \in 0..MaxStops
  /\ NumbersAreRight /\ \A t \in told : t[2] >= 500 /\ t[2] = req[t[1]].status
  /\ \A r \in Reqs : ShellOK(r)

RequestsInv == KeysInv /\ SitesInv /\ PostersInv /\ ProjectsInv /\ ShellInv
-----------------------------------------------------------------------------
(* Keys *)

LEMMA SameCardinality ==
  ASSUME NEW set
  PROVE  K!Cardinality(set) = Cardinality(set)
BY DEF K!Cardinality, Cardinality

KeySteps == {"gate", "read", "insert", "refresh", "revoke", "delete", "stamp"}

\* The call r moves to a step, with another row and right.
KeyMoves(r, at, row, may) ==
  /\ keycall' \in [Reqs -> K!Call]
  /\ \A q \in Reqs \ {r} : keycall'[q] = keycall[q]
  /\ keycall'[r].at = at /\ keycall'[r].row = row /\ keycall'[r].may = may
  /\ keycall'[r].op = keycall[r].op /\ keycall'[r].k = keycall[r].k

LEMMA KeyReplaced ==
  ASSUME K!TypeOK, NEW r \in Reqs, NEW new \in K!Call, keycall' = [keycall EXCEPT ![r] = new]
  PROVE  /\ keycall' \in [Reqs -> K!Call] /\ keycall'[r] = new
         /\ \A q \in Reqs \ {r} : keycall'[q] = keycall[q]
BY DEF K!TypeOK

LEMMA KeyBegins ==
  ASSUME K!TypeOK, NEW r \in Reqs, K!Begin(r)
  PROVE  \E op \in K!Managing \cup {"use"}, k \in K!Keys :
           /\ keycall[r].at = "idle"
           /\ keycall' \in [Reqs -> K!Call]
           /\ \A q \in Reqs \ {r} : keycall'[q] = keycall[q]
           /\ keycall'[r].at = IF op = "use" THEN "read" ELSE "gate"
           /\ keycall'[r].op = op /\ keycall'[r].k = k
           /\ UNCHANGED <<key, tier>>
<1>1. PICK op \in K!Managing \cup {"use"}, k \in K!Keys :
        keycall' = [keycall EXCEPT ![r] =
           [K!Idle EXCEPT !.at = IF op = "use" THEN "read" ELSE "gate", !.op = op, !.k = k]]
  BY DEF K!Begin
<1> DEFINE new == [K!Idle EXCEPT !.at = IF op = "use" THEN "read" ELSE "gate", !.op = op, !.k = k]
<1>2. /\ new \in K!Call /\ new.op = op /\ new.k = k
      /\ new.at = IF op = "use" THEN "read" ELSE "gate"
  BY DEF K!Idle, K!Call, K!Unused, K!Row, K!Managing, K!Results
<1>3. keycall' = [keycall EXCEPT ![r] = new]
  BY <1>1
<1> HIDE DEF new
<1> QED
  BY <1>2, <1>3, KeyReplaced DEF K!Begin, K!At

LEMMA KeyEnds ==
  ASSUME K!TypeOK, NEW r \in Reqs, NEW result \in K!Results, K!Ends(r, result)
  PROVE  KeyMoves(r, "end", K!Unused, FALSE) /\ keycall'[r].result = result
<1> DEFINE new == [keycall[r] EXCEPT !.at = "end", !.result = result, !.row = K!Unused,
                                     !.may = FALSE]
<1>1. keycall' = [keycall EXCEPT ![r] = new]
  BY DEF K!Ends
<1>2. keycall[r] \in K!Call /\ K!Unused \in K!Row
  BY DEF K!TypeOK, K!Unused, K!Row
<1>3. /\ new \in K!Call /\ new.at = "end" /\ new.result = result /\ new.row = K!Unused
      /\ new.may = FALSE /\ new.op = keycall[r].op /\ new.k = keycall[r].k
  BY <1>2 DEF K!Call
<1> HIDE DEF new
<1> QED
  BY <1>1, <1>3, KeyReplaced DEF KeyMoves

LEMMA KeyGoesOn ==
  ASSUME K!TypeOK, NEW r \in Reqs, NEW at \in KeySteps, NEW row \in K!Row, NEW may \in BOOLEAN,
         keycall' = [keycall EXCEPT ![r] = [@ EXCEPT !.at = at, !.row = row, !.may = may]]
  PROVE  KeyMoves(r, at, row, may)
<1> DEFINE new == [keycall[r] EXCEPT !.at = at, !.row = row, !.may = may]
<1>1. keycall' = [keycall EXCEPT ![r] = new]
  OBVIOUS
<1>2. keycall[r] \in K!Call
  BY DEF K!TypeOK
<1>3. /\ new \in K!Call /\ new.at = at /\ new.row = row
      /\ new.may = may /\ new.op = keycall[r].op /\ new.k = keycall[r].k
  BY <1>2 DEF K!Call, KeySteps
<1> HIDE DEF new
<1> QED
  BY <1>1, <1>3, KeyReplaced DEF KeyMoves

\* The row k becomes new.
LEMMA KeyWritten ==
  ASSUME K!TypeOK, NEW k \in K!Keys, NEW new \in K!Row, key' = [key EXCEPT ![k] = new]
  PROVE  /\ key' \in [K!Keys -> K!Row] /\ key'[k] = new
         /\ \A i \in K!Keys \ {k} : key'[i] = key[i]
BY DEF K!TypeOK

\* What a step can do to the row k.
KeyFate(k) ==
  \/ key'[k] = key[k]
  \/ key[k].stored = "never" /\ key'[k] = [key[k] EXCEPT !.stored = "yes", !.is_active = TRUE]
  \/ K!Stored(k) /\ key'[k] = [key[k] EXCEPT !.is_active = FALSE]
  \/ key'[k] = [key[k] EXCEPT !.stored = "deleted"]
  \/ K!Stored(k) /\ key'[k] = [key[k] EXCEPT !.expired = TRUE]
  \/ \E n \in Nat : K!Stored(k) /\ key'[k] = [key[k] EXCEPT !.usage_count = n]

\* One row moves on and the others stay.
LEMMA OneFate ==
  ASSUME NEW k \in K!Keys, KeyFate(k), \A i \in K!Keys \ {k} : key'[i] = key[i]
  PROVE  \A i \in K!Keys : KeyFate(i)
<1>1. ASSUME NEW i, key'[i] = key[i]
      PROVE  KeyFate(i)
  BY <1>1 DEF KeyFate
<1> QED
  BY <1>1

LEMMA KeyFates ==
  ASSUME K!TypeOK, NEW k \in K!Keys, KeyFate(k)
  PROVE  /\ key'[k] \in K!Row /\ (K!Dead(k) => K!Dead(k)')
         /\ key[k].expired => key'[k].expired
         /\ key[k].stored = "deleted" => key'[k].stored = "deleted"
<1> DEFINE old == key[k]
<1>1. old \in K!Row
  BY DEF K!TypeOK
<1>2. KeyFate(k)
  OBVIOUS
<1> QED
  BY <1>1, <1>2 DEF KeyFate, K!Row, K!Dead, K!Stored

LEMMA KeyTyped ==
  ASSUME KeysInv, NEW r \in Reqs
  PROVE  keycall[r] \in K!Call /\ keycall[r].k \in K!Keys /\ key[keycall[r].k] \in K!Row
BY DEF KeysInv, K!TypeOK, K!Call

\* Steps of r that count no use, and of which nothing is left to be shown but what the
\* other requests know.
KeyQuiet(r) ==
  /\ K!TypeOK' /\ keycall[r].at # "end"
  /\ \A k \in K!Keys : KeyFate(k) /\ key'[k].usage_count = key[k].usage_count
  /\ \A q \in Reqs \ {r} : keycall'[q] = keycall[q]
  /\ keycall'[r].at = "end" /\ keycall'[r].op = "use" => keycall'[r].result \notin {"fine", "forbidden"}
  /\ KeyCallOK(keycall[r])'

LEMMA KeyStays ==
  ASSUME K!TypeOK, NEW k \in K!Keys, UNCHANGED key
  PROVE  KeyFate(k) /\ key'[k].usage_count = key[k].usage_count
BY DEF KeyFate

\* A step that ends a call and writes nothing.
LEMMA KeyEndsQuietly ==
  ASSUME KeysInv, NEW r \in Reqs, NEW result \in K!Results, K!Ends(r, result),
         UNCHANGED <<key, tier>>, keycall[r].at # "end",
         keycall[r].op = "use" => result \notin {"fine", "forbidden"},
         result = "fine" /\ keycall[r].op = "revoke" => K!Dead(keycall[r].k),
         result = "fine" => keycall[r].op # "delete"
  PROVE  KeyQuiet(r)
<1>1. KeyMoves(r, "end", K!Unused, FALSE) /\ keycall'[r].result = result
  BY KeyEnds DEF KeysInv
<1>2. K!TypeOK'
  BY <1>1 DEF KeysInv, K!TypeOK, KeyMoves
<1>3. KeyCallOK(keycall[r])'
  BY <1>1 DEF KeyCallOK, KeyMoves, K!Dead, K!Stored
<1> QED
  BY <1>1, <1>2, <1>3, KeyStays DEF KeyQuiet, KeyMoves, KeysInv

LEMMA KeyBeginQuiet ==
  ASSUME KeysInv, NEW r \in Reqs, K!Begin(r)
  PROVE  KeyQuiet(r)
<1>1. PICK op \in K!Managing \cup {"use"}, k \in K!Keys :
         /\ keycall[r].at = "idle" /\ keycall' \in [Reqs -> K!Call]
         /\ \A q \in Reqs \ {r} : keycall'[q] = keycall[q]
         /\ keycall'[r].at = IF op = "use" THEN "read" ELSE "gate"
         /\ keycall'[r].op = op /\ keycall'[r].k = k
         /\ UNCHANGED <<key, tier>>
  BY KeyBegins DEF KeysInv
<1>2. K!TypeOK'
  BY <1>1 DEF KeysInv, K!TypeOK
<1>3. KeyCallOK(keycall[r])'
  BY <1>1 DEF KeyCallOK
<1> QED
  BY <1>1, <1>2, <1>3, KeyStays DEF KeyQuiet, KeysInv

\* A step that goes on and writes nothing.
LEMMA KeyGoesQuietly ==
  ASSUME KeysInv, NEW r \in Reqs, NEW at \in KeySteps, NEW row \in K!Row, NEW may \in BOOLEAN,
         KeyMoves(r, at, row, may), UNCHANGED <<key, tier>>, keycall[r].at # "end",
         KeyCallOK(keycall[r])'
  PROVE  KeyQuiet(r)
<1>1. K!TypeOK'
  BY DEF KeysInv, K!TypeOK, KeyMoves
<1> QED
  BY <1>1, KeyStays DEF KeyQuiet, KeyMoves, KeysInv, KeySteps

LEMMA KeyGateQuiet ==
  ASSUME KeysInv, NEW r \in Reqs, K!Gate(r)
  PROVE  KeyQuiet(r)
<1>0. keycall[r] \in K!Call /\ keycall[r].at = "gate" /\ keycall[r].op \in K!Managing
  BY DEF KeysInv, K!TypeOK, KeyCallOK, K!Gate, K!At
<1>1. CASE K!Ends(r, "forbidden")
  BY <1>0, <1>1, KeyEndsQuietly DEF K!Gate, K!Managing, K!Results
<1>2. CASE K!Goes(r, IF keycall[r].op = "create" THEN "insert" ELSE "read")
  <2> DEFINE at == IF keycall[r].op = "create" THEN "insert" ELSE "read"
  <2>1. keycall[r].row \in K!Row /\ keycall[r].may \in BOOLEAN /\ at \in KeySteps
    BY <1>0 DEF K!Call, KeySteps
  <2>2. keycall' = [keycall EXCEPT ![r] = [@ EXCEPT !.at = at, !.row = keycall[r].row,
                                                    !.may = keycall[r].may]]
    BY <1>0, <1>2 DEF K!Goes, K!Call
  <2>3. KeyMoves(r, at, keycall[r].row, keycall[r].may)
    <3> HIDE DEF at
    <3> QED
      BY <2>1, <2>2, KeyGoesOn DEF KeysInv
  <2>4. KeyCallOK(keycall[r])'
    BY <2>3 DEF KeyCallOK, KeyMoves
  <2> QED
    <3> HIDE DEF at
    <3> QED
      BY <1>0, <2>1, <2>3, <2>4, KeyGoesQuietly DEF K!Gate
<1> QED
  BY <1>1, <1>2 DEF K!Gate

LEMMA KeyInsertQuiet ==
  ASSUME KeysInv, NEW r \in Reqs, K!Insert(r)
  PROVE  KeyQuiet(r)
<1>0. keycall[r] \in K!Call /\ keycall[r].at = "insert" /\ keycall[r].op = "create"
  BY DEF KeysInv, K!TypeOK, KeyCallOK, K!Insert, K!At
<1>1. PICK k \in K!Fresh :
        /\ key' = [key EXCEPT ![k].stored = "yes", ![k].is_active = TRUE]
        /\ keycall' = [keycall EXCEPT ![r].at = "refresh", ![r].k = k]
  BY DEF K!Insert
<1>2. k \in K!Keys /\ key[k] \in K!Row /\ key[k].stored = "never"
  BY DEF K!Fresh, KeysInv, K!TypeOK
<1> DEFINE row == [key[k] EXCEPT !.stored = "yes", !.is_active = TRUE]
           new == [keycall[r] EXCEPT !.at = "refresh", !.k = k]
<1>3. row \in K!Row /\ row.usage_count = key[k].usage_count
  BY <1>2 DEF K!Row
<1>4. /\ new \in K!Call /\ new.at = "refresh" /\ new.op = "create"
  BY <1>0, <1>2 DEF K!Call
<1>5. key' = [key EXCEPT ![k] = row] /\ keycall' = [keycall EXCEPT ![r] = new]
  BY <1>1, <1>2, <1>0 DEF KeysInv, K!TypeOK
<1>6. KeyFate(k) /\ \A i \in K!Keys \ {k} : KeyFate(i)
  <2>1. key'[k] = row /\ \A i \in K!Keys \ {k} : key'[i] = key[i]
    <3> HIDE DEF row
    <3> QED
      BY <1>2, <1>3, <1>5, KeyWritten DEF KeysInv
  <2> QED
    BY <1>2, <2>1 DEF KeyFate
<1> HIDE DEF row, new
<1>7. /\ key' \in [K!Keys -> K!Row]
      /\ \A i \in K!Keys : key'[i].usage_count = key[i].usage_count
  BY <1>2, <1>3, <1>5, KeyWritten DEF KeysInv
<1>8. /\ keycall' \in [Reqs -> K!Call] /\ keycall'[r] = new
      /\ \A q \in Reqs \ {r} : keycall'[q] = keycall[q]
  BY <1>4, <1>5, KeyReplaced DEF KeysInv
<1>9. K!TypeOK'
  BY <1>7, <1>8 DEF K!Insert, KeysInv, K!TypeOK
<1>10. KeyCallOK(keycall[r])'
  BY <1>4, <1>8 DEF KeyCallOK
<1> QED
  BY <1>0, <1>4, <1>6, <1>7, <1>8, <1>9, <1>10 DEF KeyQuiet

LEMMA KeyReadsQuiet ==
  ASSUME KeysInv, NEW r \in Reqs, K!Refresh(r) \/ K!List(r) \/ K!Find(r)
  PROVE  KeyQuiet(r)
<1>0. keycall[r] \in K!Call /\ keycall[r].k \in K!Keys /\ key[keycall[r].k] \in K!Row
  BY KeyTyped
<1>1. CASE K!Refresh(r)
  <2>1. keycall[r].at = "refresh" /\ keycall[r].op = "create" /\ {"fine", "crash"} \subseteq K!Results
    BY <1>1 DEF K!Refresh, K!At, KeysInv, KeyCallOK, K!Results
  <2> QED
    BY <1>1, <2>1, KeyEndsQuietly DEF K!Refresh
<1>2. CASE K!List(r)
  BY <1>2, KeyEndsQuietly DEF K!List, K!At, K!Results
<1>3. CASE K!Find(r) /\ ~ K!Stored(keycall[r].k)
  BY <1>3, KeyEndsQuietly DEF K!Find, K!At, K!Results
<1>4. CASE K!Find(r) /\ K!Stored(keycall[r].k)
  <2> DEFINE at == keycall[r].op
             row == key[keycall[r].k]
  <2>1. /\ keycall[r].at = "read" /\ at \in {"revoke", "delete"} /\ row \in K!Row
        /\ keycall[r].may \in BOOLEAN /\ at \in KeySteps
    BY <1>0, <1>4 DEF K!Find, K!At, K!Call, KeySteps
  <2>2. keycall' = [keycall EXCEPT ![r] = [@ EXCEPT !.at = at, !.row = row,
                                                    !.may = keycall[r].may]]
    BY <1>0, <1>4 DEF K!Find, K!Call
  <2>3. KeyMoves(r, at, row, keycall[r].may)
    <3> HIDE DEF at, row
    <3> QED
      BY <2>1, <2>2, KeyGoesOn DEF KeysInv
  <2>4. UNCHANGED <<key, tier>>
    BY <1>4 DEF K!Find
  <2>5. KeyCallOK(keycall[r])'
    BY <1>4, <2>1, <2>3, <2>4 DEF KeyCallOK, KeyMoves, K!Dead, K!Stored
  <2> QED
    <3> HIDE DEF at, row
    <3> QED
      BY <2>1, <2>3, <2>4, <2>5, KeyGoesQuietly
<1> QED
  BY <1>1, <1>2, <1>3, <1>4

LEMMA KeyLookUpQuiet ==
  ASSUME KeysInv, NEW r \in Reqs, K!LookUp(r)
  PROVE  KeyQuiet(r)
<1>0. keycall[r] \in K!Call /\ keycall[r].k \in K!Keys /\ key[keycall[r].k] \in K!Row
  BY KeyTyped
<1>1. CASE ~ K!Valid(keycall[r].k)
  BY <1>1, KeyEndsQuietly DEF K!LookUp, K!At, K!Results
<1>2. CASE K!Valid(keycall[r].k)
  <2> DEFINE row == key[keycall[r].k]
             may == K!CheckFeature(tier, "api_access")
  <2>1. keycall[r].at = "read" /\ keycall[r].op = "use" /\ row \in K!Row /\ may \in BOOLEAN
    BY <1>0 DEF K!LookUp, K!At, K!CheckFeature
  <2>2. keycall' = [keycall EXCEPT ![r] = [@ EXCEPT !.at = "stamp", !.row = row, !.may = may]]
    BY <1>2 DEF K!LookUp
  <2>3. UNCHANGED <<key, tier>> /\ "stamp" \in KeySteps
    BY DEF K!LookUp, KeySteps
  <2> HIDE DEF row, may
  <2>4. KeyMoves(r, "stamp", row, may)
    BY <2>1, <2>2, <2>3, KeyGoesOn DEF KeysInv
  <2>5. K!UsesOf(keycall[r].k)' = K!UsesOf(keycall[r].k)
    BY <2>1, <2>4 DEF K!UsesOf, K!At, KeyMoves
  <2>6. row.usage_count <= Cardinality(K!UsesOf(keycall[r].k))
    <3>1. \A k \in K!Keys : key[k].usage_count <= Cardinality(K!UsesOf(k))
      BY SameCardinality DEF KeysInv, K!CountsAreUses
    <3> QED
      BY <1>0, <3>1 DEF row
  <2>7. KeyCallOK(keycall[r])'
    BY <2>1, <2>4, <2>5, <2>6 DEF KeyCallOK, KeyMoves
  <2> QED
    BY <2>1, <2>3, <2>4, <2>7, KeyGoesQuietly
<1> QED
  BY <1>1, <1>2

\* A step that ends a call and writes the row k.
LEMMA KeyWritesQuietly ==
  ASSUME KeysInv, NEW r \in Reqs, NEW result \in K!Results, NEW k \in K!Keys, NEW new,
         key' = [key EXCEPT ![k] = new], KeyFate(k), UNCHANGED tier,
         new.usage_count = key[k].usage_count,
         K!Ends(r, result), keycall[r].at # "end", keycall[r].op # "use",
         result = "fine" /\ keycall[r].op = "revoke" => K!Dead(keycall[r].k)',
         result = "fine" /\ keycall[r].op = "delete" => key'[keycall[r].k].stored = "deleted"
  PROVE  KeyQuiet(r)
<1>1. key'[k] = new /\ \A i \in K!Keys \ {k} : key'[i] = key[i]
  BY DEF KeysInv, K!TypeOK
<1>2. \A i \in K!Keys : KeyFate(i)
  BY <1>1, OneFate
<1>3. KeyMoves(r, "end", K!Unused, FALSE) /\ keycall'[r].result = result
  BY KeyEnds DEF KeysInv
<1>4. \A i \in K!Keys : key'[i] \in K!Row
  BY <1>2, KeyFates DEF KeysInv
<1>5. K!TypeOK'
  BY <1>3, <1>4 DEF KeysInv, K!TypeOK, KeyMoves
<1>6. KeyCallOK(keycall[r])'
  BY <1>3 DEF KeyCallOK, KeyMoves, K!Dead, K!Stored
<1>7. \A i \in K!Keys : key'[i].usage_count = key[i].usage_count
  BY <1>1
<1> QED
  BY <1>2, <1>3, <1>5, <1>6, <1>7 DEF KeyQuiet, KeyMoves

LEMMA KeyRevokeQuiet ==
  ASSUME KeysInv, NEW r \in Reqs, K!Revoke(r)
  PROVE  KeyQuiet(r)
<1>k. PICK k \in K!Keys : k = keycall[r].k
  BY KeyTyped
<1>0. /\ k \in K!Keys /\ key[k] \in K!Row /\ key \in [K!Keys -> K!Row]
      /\ keycall[r].at = "revoke" /\ keycall[r].op = "revoke"
      /\ {"fine", "crash"} \subseteq K!Results /\ (keycall[r].row.is_active \/ K!Dead(k))
  BY <1>k, KeyTyped DEF K!Revoke, K!At, KeysInv, KeyCallOK, K!Results, K!TypeOK
<1>1. CASE K!Ends(r, "fine") /\ UNCHANGED key /\ ~ keycall[r].row.is_active
  BY <1>k, <1>0, <1>1, KeyEndsQuietly DEF K!Revoke
<1>2. CASE K!Ends(r, "crash") /\ UNCHANGED key
  BY <1>0, <1>2, KeyEndsQuietly DEF K!Revoke
<1>3. CASE K!Stored(k) /\ key' = [key EXCEPT ![k].is_active = FALSE] /\ K!Ends(r, "fine")
  <2> DEFINE new == [key[k] EXCEPT !.is_active = FALSE]
  <2>1. key' = [key EXCEPT ![k] = new] /\ new.usage_count = key[k].usage_count
        /\ key'[k] = new /\ new.stored = "yes" /\ new.is_active = FALSE
    BY <1>0, <1>3 DEF K!Row, K!Stored
  <2>2. KeyFate(k)
    BY <1>3, <2>1 DEF KeyFate
  <2>3. K!Dead(keycall[r].k)'
    <3>1. keycall'[r].k = k
      BY <1>k, <1>0, <1>3, KeyEnds DEF KeysInv, KeyMoves
    <3> QED
      BY <2>1, <3>1 DEF K!Dead, K!Stored
  <2>4. UNCHANGED tier
    BY DEF K!Revoke
  <2> HIDE DEF new
  <2> QED
    BY <1>0, <1>3, <2>1, <2>2, <2>3, <2>4, KeyWritesQuietly
<1> QED
  BY <1>k, <1>1, <1>2, <1>3 DEF K!Revoke

LEMMA KeyDeleteQuiet ==
  ASSUME KeysInv, NEW r \in Reqs, K!Delete(r)
  PROVE  KeyQuiet(r)
<1> DEFINE k == keycall[r].k
           new == [key[k] EXCEPT !.stored = "deleted"]
<1>0. /\ k \in K!Keys /\ key[k] \in K!Row /\ key \in [K!Keys -> K!Row] /\ "fine" \in K!Results
      /\ keycall[r].at = "delete" /\ keycall[r].op = "delete"
  BY KeyTyped DEF K!Delete, K!At, KeysInv, KeyCallOK, K!Results, K!TypeOK
<1>1. key' = [key EXCEPT ![k] = new] /\ new.usage_count = key[k].usage_count
      /\ key'[k] = new /\ new.stored = "deleted"
  BY <1>0 DEF K!Row, K!Delete
<1>2. KeyFate(k)
  BY <1>1 DEF KeyFate
<1>3. K!Ends(r, "fine") /\ UNCHANGED tier
  BY DEF K!Delete
<1> HIDE DEF new
<1> QED
  BY <1>0, <1>1, <1>2, <1>3, KeyWritesQuietly

\* A quiet step keeps what is known of keys: rows only move on, and the uses stay the same.
LEMMA QuietKeeps ==
  ASSUME KeysInv, NEW r \in Reqs, KeyQuiet(r)
  PROVE  KeysInv'
<1>1. \A k \in K!Keys : /\ K!Dead(k) => K!Dead(k)'
                        /\ key[k].stored = "deleted" => key'[k].stored = "deleted"
  BY KeyFates DEF KeyQuiet, KeysInv
<1>2. \A k \in K!Keys : K!UsesOf(k)' = K!UsesOf(k)
  BY DEF KeyQuiet, K!UsesOf, K!At
<1>3. K!CountsAreUses'
  BY <1>2 DEF KeyQuiet, KeysInv, K!CountsAreUses
<1>4. ASSUME NEW q \in Reqs \ {r}
      PROVE  KeyCallOK(keycall[q])'
  <2>1. keycall'[q] = keycall[q] /\ KeyCallOK(keycall[q]) /\ keycall[q].k \in K!Keys
    BY KeyTyped DEF KeyQuiet, KeysInv
  <2> QED
    BY <1>1, <1>2, <2>1 DEF KeyCallOK
<1> QED
  BY <1>3, <1>4 DEF KeyQuiet, KeysInv

\* A use is counted once: the number that is written was read when at most the uses that
\* have ended since had ended.
LEMMA StampKeeps ==
  ASSUME KeysInv, NEW r \in Reqs, K!Stamp(r)
  PROVE  /\ KeysInv' /\ keycall[r].at # "end" /\ \A k \in K!Keys : KeyFate(k)
         /\ \A q \in Reqs \ {r} : keycall'[q] = keycall[q]
<1>k. PICK k \in K!Keys : k = keycall[r].k
  BY KeyTyped
<1> DEFINE new == [key[k] EXCEPT !.usage_count = keycall[r].row.usage_count + 1]
<1>0. /\ k \in K!Keys /\ key[k] \in K!Row /\ key \in [K!Keys -> K!Row] /\ keycall[r] \in K!Call
      /\ keycall[r].at = "stamp" /\ keycall[r].op = "use" /\ keycall[r].row.usage_count \in Nat
      /\ keycall[r].row.usage_count <= Cardinality(K!UsesOf(k))
  BY <1>k, KeyTyped, SameCardinality DEF K!Stamp, K!At, KeysInv, KeyCallOK, K!TypeOK, K!Call, K!Row
<1>1. CASE ~ K!Stored(k)
  <2>1. K!Ends(r, "crash") /\ UNCHANGED <<key, tier>> /\ "crash" \in K!Results
    BY <1>k, <1>1 DEF K!Stamp, K!Results
  <2>2. KeyQuiet(r)
    BY <1>0, <2>1, KeyEndsQuietly
  <2> QED
    BY <2>2, QuietKeeps DEF KeyQuiet
<1>2. CASE K!Stored(k)
  <2>0. PICK result \in {"fine", "forbidden"} : K!Ends(r, result)
    BY <1>k, <1>2 DEF K!Stamp
  <2>1. KeyMoves(r, "end", K!Unused, FALSE) /\ keycall'[r].result = result
    BY <2>0, KeyEnds DEF KeysInv, K!Results
  <2>2. key' = [key EXCEPT ![k] = new] /\ UNCHANGED tier
    BY <1>k, <1>2 DEF K!Stamp, K!Stamped
  <2>3. /\ new \in K!Row /\ new.usage_count = keycall[r].row.usage_count + 1
        /\ key'[k] = new /\ \A i \in K!Keys \ {k} : key'[i] = key[i]
    BY <1>0, <2>2 DEF K!Row
  <2>4. \A i \in K!Keys : KeyFate(i)
    <3>1. KeyFate(k)
      <4> DEFINE n == keycall[r].row.usage_count + 1
      <4>1. n \in Nat
        BY <1>0
      <4>2. K!Stored(k) /\ key'[k] = [key[k] EXCEPT !.usage_count = n]
        BY <1>2, <2>3
      <4> HIDE DEF n
      <4> QED
        BY <4>1, <4>2 DEF KeyFate
    <3> QED
      BY <2>3, <3>1, OneFate
  <2> HIDE DEF new
  <2>5. K!TypeOK'
    BY <1>0, <2>1, <2>2, <2>3 DEF KeysInv, K!TypeOK, KeyMoves
  <2>6. /\ keycall'[r].k = k /\ K!UsesOf(k)' = K!UsesOf(k) \cup {r} /\ r \notin K!UsesOf(k)
        /\ \A i \in K!Keys \ {k} : K!UsesOf(i)' = K!UsesOf(i)
    BY <1>k, <1>0, <2>1 DEF KeyMoves, K!UsesOf, K!At
  <2>7. /\ Cardinality(K!UsesOf(k)') = Cardinality(K!UsesOf(k)) + 1
        /\ Cardinality(K!UsesOf(k)) \in Nat
    <3>1. IsFiniteSet(K!UsesOf(k))
      BY MixesAssumption, FS_Subset DEF K!UsesOf
    <3> QED
      BY <2>6, <3>1, FS_AddElement, FS_CardinalityType
  <2>8. K!CountsAreUses'
    <3>1. \A i \in K!Keys : /\ key[i].usage_count <= Cardinality(K!UsesOf(i))
                            /\ K!UsesOf(i) # {} => key[i].usage_count > 0
      BY SameCardinality DEF KeysInv, K!CountsAreUses
    <3>2. \A i \in K!Keys : /\ key'[i].usage_count <= Cardinality(K!UsesOf(i)')
                            /\ K!UsesOf(i)' # {} => key'[i].usage_count > 0
      <4>1. /\ key'[k].usage_count <= Cardinality(K!UsesOf(k)')
            /\ key'[k].usage_count > 0
        BY <1>0, <2>3, <2>7
      <4> QED
        BY <2>3, <2>6, <3>1, <4>1
    <3> QED
      BY <3>2, SameCardinality DEF K!CountsAreUses
  <2>9. ASSUME NEW q \in Reqs
        PROVE  KeyCallOK(keycall[q])'
    <3>1. CASE q = r
      BY <1>0, <2>1, <3>1 DEF KeyCallOK, KeyMoves
    <3>2. CASE q # r
      <4>1. keycall'[q] = keycall[q] /\ KeyCallOK(keycall[q]) /\ keycall[q] \in K!Call
            /\ keycall[q].k \in K!Keys
        BY <2>1, <3>2, KeyTyped DEF KeyMoves, KeysInv
      <4>2. /\ K!Dead(keycall[q].k) => K!Dead(keycall[q].k)'
            /\ key[keycall[q].k].stored = "deleted" => key'[keycall[q].k].stored = "deleted"
        BY <2>1, <2>4, <3>2, <4>1, KeyFates DEF KeysInv, KeyMoves, K!Dead, K!Stored
      <4>3. ASSUME keycall[q].at = "stamp"
            PROVE  keycall[q].row.usage_count <= Cardinality(K!UsesOf(keycall[q].k)')
        <5>1. /\ keycall[q].row.usage_count <= Cardinality(K!UsesOf(keycall[q].k))
              /\ keycall[q].row.usage_count \in Nat
          BY <4>1, <4>3, SameCardinality DEF KeyCallOK, K!Call, K!Row
        <5> QED
          <6> DEFINE old == Cardinality(K!UsesOf(keycall[q].k))
          <6>1. Cardinality(K!UsesOf(keycall[q].k)') \in {old, old + 1} /\ old \in Nat
            BY <2>6, <2>7, <4>1, MixesAssumption, FS_Subset, FS_CardinalityType DEF K!UsesOf
          <6> QED
            BY <5>1, <6>1
      <4> QED
        BY <4>1, <4>2, <4>3, SameCardinality DEF KeyCallOK, K!Dead, K!Stored, K!UsesOf, K!At
    <3> QED
      BY <3>1, <3>2
  <2> QED
    BY <1>0, <2>1, <2>4, <2>5, <2>8, <2>9 DEF KeysInv, KeyMoves
<1> QED
  BY <1>1, <1>2

KeyDone(r) ==
  /\ KeysInv' /\ keycall[r].at # "end" /\ \A k \in K!Keys : KeyFate(k)
  /\ \A q \in Reqs \ {r} : keycall'[q] = keycall[q]

LEMMA KeysStep ==
  ASSUME KeysInv, NEW r \in Reqs, K!Begin(r) \/ K!Step(r)
  PROVE  /\ KeysInv' /\ K!DeadKeysStayDead
         /\ \A q \in Reqs : keycall[q].at = "end" => keycall'[q] = keycall[q]
<1>1. ASSUME KeyQuiet(r)
      PROVE  KeyDone(r)
  BY <1>1, QuietKeeps DEF KeyQuiet, KeyDone
<1>2. ASSUME K!Stamp(r)
      PROVE  KeyDone(r)
  BY <1>2, StampKeeps DEF KeyDone
<1>3. KeyQuiet(r) \/ K!Stamp(r)
  BY KeyBeginQuiet, KeyGateQuiet, KeyInsertQuiet, KeyReadsQuiet, KeyRevokeQuiet,
     KeyDeleteQuiet, KeyLookUpQuiet DEF K!Step
<1>4. KeyDone(r)
  BY <1>1, <1>2, <1>3
<1>5. K!DeadKeysStayDead
  BY <1>4, KeyFates DEF K!DeadKeysStayDead, KeysInv, KeyDone
<1> QED
  BY <1>4, <1>5 DEF KeyDone

\* A step that concerns no call.
LEMMA KeysOutside ==
  ASSUME KeysInv, K!Expire \/ K!ChangeTier \/ UNCHANGED keys
  PROVE  KeysInv' /\ K!DeadKeysStayDead /\ UNCHANGED keycall
<1>1. /\ \A k \in K!Keys : KeyFate(k) /\ key'[k].usage_count = key[k].usage_count
      /\ key' \in [K!Keys -> K!Row]
  <2>1. CASE K!Expire
    <3>1. PICK k \in K!Keys : K!Stored(k) /\ key' = [key EXCEPT ![k].expired = TRUE]
      BY <2>1 DEF K!Expire
    <3> DEFINE new == [key[k] EXCEPT !.expired = TRUE]
    <3>2. /\ new \in K!Row /\ new.usage_count = key[k].usage_count
          /\ key' = [key EXCEPT ![k] = new] /\ key'[k] = new
      BY <3>1 DEF KeysInv, K!TypeOK, K!Row
    <3>3. KeyFate(k)
      BY <3>1, <3>2 DEF KeyFate
    <3> HIDE DEF new
    <3>4. /\ key' \in [K!Keys -> K!Row] /\ key'[k] = new
          /\ \A i \in K!Keys \ {k} : key'[i] = key[i]
      BY <3>2, KeyWritten DEF KeysInv
    <3>5. \A i \in K!Keys \ {k} : KeyFate(i)
      BY <3>4 DEF KeyFate
    <3> QED
      BY <3>2, <3>3, <3>4, <3>5
  <2>2. CASE UNCHANGED key
    BY <2>2, KeyStays DEF KeysInv, K!TypeOK
  <2> QED
    BY <2>1, <2>2 DEF K!ChangeTier, keys
<1>2. UNCHANGED keycall /\ K!TypeOK'
  BY <1>1 DEF KeysInv, K!TypeOK, K!Expire, K!ChangeTier, keys
<1>3. \A k \in K!Keys : K!UsesOf(k)' = K!UsesOf(k)
  BY <1>2 DEF K!UsesOf, K!At
<1>4. K!CountsAreUses'
  BY <1>1, <1>3 DEF KeysInv, K!CountsAreUses
<1>5. \A k \in K!Keys : /\ K!Dead(k) => K!Dead(k)'
                        /\ key[k].expired => key'[k].expired
                        /\ key[k].stored = "deleted" => key'[k].stored = "deleted"
  BY <1>1, KeyFates DEF KeysInv
<1>6. ASSUME NEW q \in Reqs
      PROVE  KeyCallOK(keycall[q])'
  <2>1. keycall'[q] = keycall[q] /\ KeyCallOK(keycall[q]) /\ keycall[q].k \in K!Keys
    BY <1>2, KeyTyped DEF KeysInv
  <2> QED
    BY <1>3, <1>5, <2>1 DEF KeyCallOK
<1> QED
  BY <1>2, <1>4, <1>5, <1>6 DEF KeysInv, K!DeadKeysStayDead

LEMMA KeysInit == K!Init => KeysInv
<1> SUFFICES ASSUME K!Init
             PROVE  KeysInv
  OBVIOUS
<1>1. K!Unused \in K!Row /\ K!Unused.usage_count = 0 /\ K!Idle \in K!Call
  BY BoundsAssumption DEF K!Unused, K!Row, K!Idle, K!Call, K!Keys, K!Managing, K!Results
<1> DEFINE usable == [K!Unused EXCEPT !.stored = "yes", !.is_active = TRUE]
<1>2. usable \in K!Row /\ usable.usage_count = 0
  BY <1>1 DEF K!Row
<1>3. PICK n \in 0..MaxKeys : key = [k \in K!Keys |-> IF k <= n THEN usable ELSE K!Unused]
  BY DEF K!Init
<1> HIDE DEF usable
<1>4. keycall = [r \in Reqs |-> K!Idle] /\ K!Idle.at = "idle"
  BY DEF K!Init, K!Idle
<1>5. \A k \in K!Keys : key[k] \in K!Row /\ key[k].usage_count = 0
  BY <1>1, <1>2, <1>3
<1>6. K!TypeOK
  BY <1>1, <1>3, <1>4, <1>5 DEF K!TypeOK, K!Init
<1>7. \A k \in K!Keys : K!UsesOf(k) = {}
  BY <1>4 DEF K!UsesOf, K!At
<1>8. Cardinality({}) = 0
  BY FS_EmptySet
<1>9. K!CountsAreUses
  BY <1>5, <1>7, <1>8, SameCardinality DEF K!CountsAreUses
<1> QED
  BY <1>4, <1>6, <1>9 DEF KeysInv, KeyCallOK

-----------------------------------------------------------------------------
(* Sites *)

\* What a step can do to the row s.
SiteFate(s) ==
  \/ site'[s] = site[s]
  \/ site[s].stored = "never" /\ site'[s] = [site[s] EXCEPT !.stored = "yes"]
  \/ site'[s] = [site[s] EXCEPT !.stored = "deleted"]
  \/ \E draft \in [Columns -> Texts] : S!Stored(s) /\ site'[s] = [site[s] EXCEPT !.draft = draft]
  \/ S!Stored(s) /\ site'[s] = S!Unpublished(site[s])

LEMMA SiteFates ==
  ASSUME SitesInv, NEW s \in S!SiteIds, SiteFate(s)
  PROVE  /\ site'[s] \in S!Row /\ (~ S!Live(s) => ~ S!Live(s)')
         /\ site[s].stored = "deleted" => site'[s].stored = "deleted"
         /\ site'[s].stored = "never" => ~ site'[s].live
         /\ S!Live(s)' /\ site'[s].kept # S!None => S!Live(s) /\ site'[s].kept = site[s].kept
<1>1. site[s] \in S!Row /\ (site[s].stored = "never" => ~ site[s].live)
  BY DEF SitesInv, S!TypeOK
<1> QED
  BY <1>1 DEF SiteFate, S!Row, S!Live, S!Stored, S!Unpublished

\* A step of r that leaves one site and shows a visitor what is published.
SiteDone(r) ==
  /\ S!TypeOK' /\ S!OneSite' /\ sitecall[r].at # "end" /\ \A s \in S!SiteIds : SiteFate(s)
  /\ \A q \in Reqs \ {r} : sitecall'[q] = sitecall[q]
  /\ SiteCallOK(sitecall[r])'
  /\ sitecall'[r].at = "end" /\ sitecall'[r].op = "visit" /\ sitecall'[r].result = "fine" =>
       \A s \in S!SiteIds : sitecall'[r].s = s /\ S!Live(s)' /\ site'[s].kept # S!None =>
         sitecall'[r].shown = site'[s].kept

LEMMA SiteTyped ==
  ASSUME SitesInv, NEW r \in Reqs
  PROVE  /\ sitecall[r] \in S!Call /\ sitecall[r].s \in S!SiteIds /\ site[sitecall[r].s] \in S!Row
         /\ sitecall \in [Reqs -> S!Call] /\ site \in [S!SiteIds -> S!Row]
BY DEF SitesInv, S!TypeOK, S!Call

LEMMA SiteDoneKeeps ==
  ASSUME SitesInv, NEW r \in Reqs, SiteDone(r)
  PROVE  SitesInv' /\ S!DownStaysDown
<1>1. \A s \in S!SiteIds :
        /\ ~ S!Live(s) => ~ S!Live(s)'
        /\ site[s].stored = "deleted" => site'[s].stored = "deleted"
        /\ site'[s].stored = "never" => ~ site'[s].live
        /\ S!Live(s)' /\ site'[s].kept # S!None => S!Live(s) /\ site'[s].kept = site[s].kept
  BY SiteFates DEF SiteDone
<1>2. ASSUME NEW q \in Reqs \ {r}
      PROVE  SiteCallOK(sitecall[q])'
  <2>1. sitecall'[q] = sitecall[q] /\ SiteCallOK(sitecall[q]) /\ sitecall[q].s \in S!SiteIds
    BY SiteTyped DEF SiteDone, SitesInv
  <2> QED
    BY <1>1, <2>1 DEF SiteCallOK
<1>3. S!VisitorsSeeThePublished'
  <2> SUFFICES ASSUME NEW s \in S!SiteIds, S!Live(s)', site'[s].kept # S!None, NEW c \in Reqs,
                      sitecall'[c].at = "end", sitecall'[c].op = "visit", sitecall'[c].s = s,
                      sitecall'[c].result = "fine"
               PROVE  sitecall'[c].shown = site'[s].kept
    BY DEF S!VisitorsSeeThePublished, S!At
  <2>1. CASE c = r
    BY <2>1 DEF SiteDone
  <2>2. CASE c # r
    <3>1. sitecall'[c] = sitecall[c] /\ S!Live(s) /\ site'[s].kept = site[s].kept
      BY <1>1, <2>2 DEF SiteDone
    <3> QED
      BY <3>1 DEF SitesInv, S!VisitorsSeeThePublished, S!At
  <2> QED
    BY <2>1, <2>2
<1> QED
  BY <1>1, <1>2, <1>3 DEF SitesInv, SiteDone, S!DownStaysDown

LEMMA SiteReplaced ==
  ASSUME SitesInv, NEW r \in Reqs, NEW new \in S!Call, sitecall' = [sitecall EXCEPT ![r] = new]
  PROVE  /\ sitecall' \in [Reqs -> S!Call] /\ sitecall'[r] = new
         /\ \A q \in Reqs \ {r} : sitecall'[q] = sitecall[q]
BY SiteTyped

\* A step that leaves the rows alone.
LEMMA SiteLooks ==
  ASSUME SitesInv, NEW r \in Reqs, NEW new \in S!Call, sitecall' = [sitecall EXCEPT ![r] = new],
         UNCHANGED site, sitecall[r].at # "end", SiteCallOK(new),
         new.at = "end" /\ new.op = "visit" /\ new.result = "fine" /\ site[new.s].kept # S!None =>
           new.shown = site[new.s].kept
  PROVE  SiteDone(r)
<1>1. /\ sitecall' \in [Reqs -> S!Call] /\ sitecall'[r] = new
      /\ \A q \in Reqs \ {r} : sitecall'[q] = sitecall[q]
  BY SiteReplaced
<1>2. SiteCallOK(sitecall[r])'
  BY <1>1 DEF SiteCallOK, S!Live, S!Stored
<1>3. S!OneSite' /\ \A s \in S!SiteIds : SiteFate(s)
  BY DEF SitesInv, S!OneSite, S!Stored, SiteFate
<1>4. S!TypeOK'
  BY <1>1 DEF SitesInv, S!TypeOK
<1> QED
  BY <1>1, <1>2, <1>3, <1>4 DEF SiteDone

\* The call as it ends.
SiteEnded(r, result) ==
  [sitecall[r] EXCEPT !.at = "end", !.result = result, !.row = S!Unused, !.given = S!Idle.given]

LEMMA SiteEndedTyped ==
  ASSUME SitesInv, NEW r \in Reqs, NEW result \in S!Results
  PROVE  LET new == SiteEnded(r, result)
         IN  /\ new \in S!Call /\ new.at = "end" /\ new.result = result
             /\ new.op = sitecall[r].op /\ new.s = sitecall[r].s
             /\ S!Ends(r, result) <=> sitecall' = [sitecall EXCEPT ![r] = new]
<1>1. S!Unused \in S!Row /\ S!Idle.given \in [Columns -> Texts \cup {S!None}]
  BY RowsAssumption DEF S!Unused, S!Row, S!Empty, S!Idle, S!None
<1>2. sitecall[r] \in S!Call
  BY SiteTyped
<1> QED
  BY <1>1, <1>2 DEF SiteEnded, S!Call, S!Ends

\* A step that ends a call and leaves the rows alone.
LEMMA SiteEndsLooking ==
  ASSUME SitesInv, NEW r \in Reqs, NEW result \in S!Results, S!Ends(r, result), UNCHANGED site,
         sitecall[r].at # "end", sitecall[r].op # "visit",
         result = "stream" => sitecall[r].op \in S!Legacy,
         result = "fine" => sitecall[r].op # "delete",
         result = "fine" /\ sitecall[r].op = "unpublish" => ~ S!Live(sitecall[r].s)
  PROVE  SiteDone(r)
<1> DEFINE new == SiteEnded(r, result)
<1>1. /\ new \in S!Call /\ new.at = "end" /\ new.result = result
      /\ new.op = sitecall[r].op /\ new.s = sitecall[r].s
      /\ sitecall' = [sitecall EXCEPT ![r] = new]
  BY SiteEndedTyped
<1> HIDE DEF new
<1>2. SiteCallOK(new)
  BY <1>1 DEF SiteCallOK
<1> QED
  BY <1>1, <1>2, SiteLooks

LEMMA SiteBegins ==
  ASSUME SitesInv, NEW r \in Reqs, S!Begin(r)
  PROVE  SiteDone(r)
<1>1. PICK op \in S!Reading \cup S!Writing \cup S!Legacy, s \in S!SiteIds,
           given \in [Columns -> Texts \cup {S!None}] :
         sitecall' = [sitecall EXCEPT ![r] =
                        [S!Idle EXCEPT !.at = "read", !.op = op, !.s = s, !.given = given]]
  BY DEF S!Begin
<1> DEFINE new == [S!Idle EXCEPT !.at = "read", !.op = op, !.s = s, !.given = given]
<1>2. S!Unused \in S!Row
  BY RowsAssumption DEF S!Unused, S!Row, S!Empty, S!None
<1>3. new \in S!Call /\ new.at = "read"
  BY <1>2 DEF S!Idle, S!Call, S!Results
<1>4. sitecall' = [sitecall EXCEPT ![r] = new]
  BY <1>1
<1> HIDE DEF new
<1>5. SiteCallOK(new)
  BY <1>3 DEF SiteCallOK
<1> QED
  BY <1>3, <1>4, <1>5, SiteLooks DEF S!Begin, S!At

LEMMA SiteLegacyResults ==
  ASSUME NEW op \in S!Legacy
  PROVE  S!LegacyAnswers[op] \subseteq S!Results /\ op # "visit" /\ op # "delete" /\ op # "unpublish"
BY DEF S!Legacy, S!LegacyAnswers, S!Results

LEMMA SiteResults == {"fine", "bad_request", "crash", "not_found"} \subseteq S!Results
<1>1. {"create_legacy", "download_all"} \subseteq S!Legacy
  BY DEF S!Legacy, S!LegacyAnswers
<1>2. "crash" \in S!LegacyAnswers["create_legacy"] /\ "not_found" \in S!LegacyAnswers["download_all"]
  BY DEF S!LegacyAnswers
<1> QED
  BY <1>1, <1>2 DEF S!Results

\* A step that goes on and leaves the rows alone.
LEMMA SiteGoesOn ==
  ASSUME SitesInv, NEW r \in Reqs, NEW row \in S!Row, UNCHANGED site, sitecall[r].at = "read",
         sitecall[r].op = "unpublish" => row.live \/ ~ S!Live(sitecall[r].s),
         sitecall' = [sitecall EXCEPT ![r] = [@ EXCEPT !.at = "write", !.row = row]]
  PROVE  SiteDone(r)
<1> DEFINE new == [sitecall[r] EXCEPT !.at = "write", !.row = row]
<1>1. /\ new \in S!Call /\ new.at = "write" /\ new.row = row /\ new.op = sitecall[r].op
      /\ new.s = sitecall[r].s
  BY SiteTyped DEF S!Call
<1>2. sitecall' = [sitecall EXCEPT ![r] = new]
  OBVIOUS
<1> HIDE DEF new
<1>3. SiteCallOK(new)
  BY <1>1 DEF SiteCallOK
<1> QED
  BY <1>1, <1>2, <1>3, SiteLooks

LEMMA SiteFinds ==
  ASSUME SitesInv, NEW r \in Reqs, S!LookForPack(r) \/ S!Find(r)
  PROVE  SiteDone(r)
<1>0. sitecall[r] \in S!Call /\ site[sitecall[r].s] \in S!Row
  BY SiteTyped
<1>1. CASE S!LookForPack(r)
  <2>1. sitecall[r].at = "read" /\ sitecall[r].op = "create" /\ UNCHANGED site
    BY <1>1 DEF S!LookForPack, S!At
  <2>2. CASE S!Ends(r, "not_found") \/ S!Ends(r, "fine")
    BY <2>1, <2>2, SiteResults, SiteEndsLooking
  <2>3. CASE sitecall' = [sitecall EXCEPT ![r].at = "write"]
    <3>1. sitecall' = [sitecall EXCEPT ![r] = [@ EXCEPT !.at = "write", !.row = sitecall[r].row]]
      BY <1>0, <2>3 DEF S!Call
    <3>2. sitecall[r].row \in S!Row
      BY <1>0 DEF S!Call
    <3> QED
      BY <2>1, <3>1, <3>2, SiteGoesOn
  <2> QED
    BY <1>1, <2>2, <2>3 DEF S!LookForPack
<1>2. CASE S!Find(r)
  <2>1. /\ sitecall[r].at = "read" /\ UNCHANGED site
        /\ sitecall[r].op \in {"get", "publish", "generate", "update", "delete", "unpublish"}
    BY <1>2 DEF S!Find, S!At, S!HandOver
  <2>2. CASE S!Ends(r, "not_found") \/ S!Ends(r, "crash") \/ S!Ends(r, "bad_request")
    BY <2>1, <2>2, SiteResults, SiteEndsLooking
  <2>3. CASE sitecall[r].op = "get" /\ S!Ends(r, "fine")
    BY <2>1, <2>3, SiteResults, SiteEndsLooking
  <2>4. CASE /\ S!Stored(sitecall[r].s)
             /\ sitecall' = [sitecall EXCEPT ![r].at = "write", ![r].row = site[sitecall[r].s]]
    <3>1. sitecall' = [sitecall EXCEPT ![r] = [@ EXCEPT !.at = "write",
                                                        !.row = site[sitecall[r].s]]]
      BY <1>0, <2>4
    <3> QED
      BY <1>0, <2>1, <2>4, <3>1, SiteGoesOn DEF S!Live
  <2> QED
    BY <1>2, <2>2, <2>3, <2>4 DEF S!Find
<1> QED
  BY <1>1, <1>2

LEMMA SiteShows ==
  ASSUME SitesInv, NEW r \in Reqs,
         S!Refresh(r) \/ S!Serve(r) \/ S!CaptureLead(r) \/ S!ServePack(r)
  PROVE  SiteDone(r)
<1>0. sitecall[r] \in S!Call /\ site[sitecall[r].s] \in S!Row
  BY SiteTyped
<1>1. CASE S!Refresh(r)
  <2>1. /\ sitecall[r].at = "again" /\ UNCHANGED site
        /\ sitecall[r].op \in {"create", "update", "unpublish"}
        /\ sitecall[r].op = "unpublish" => ~ S!Live(sitecall[r].s)
    BY <1>1 DEF S!Refresh, S!At, SitesInv, SiteCallOK
  <2> QED
    BY <1>1, <2>1, SiteResults, SiteEndsLooking DEF S!Refresh
<1>2. CASE S!Serve(r)
  <2> DEFINE s == sitecall[r].s
             result == IF S!Live(s) THEN "fine" ELSE "not_found"
             shown == IF S!Live(s) THEN S!Page(s) ELSE S!None
             new == [sitecall[r] EXCEPT !.at = "end", !.result = result, !.shown = shown]
  <2>1. sitecall[r].at = "read" /\ sitecall[r].op = "visit" /\ UNCHANGED site
        /\ sitecall' = [sitecall EXCEPT ![r] = new]
    BY <1>0, <1>2 DEF S!Serve, S!At, S!HandOver
  <2>2. shown \in Texts \cup {S!None}
    BY <1>0, RowsAssumption DEF S!Page, S!Snapshot, S!StoredPage, S!Row
  <2>3. result \in S!Results
    BY SiteResults
  <2>4. /\ new \in S!Call /\ new.at = "end" /\ new.result = result /\ new.shown = shown
        /\ new.op = "visit" /\ new.s = s
    BY <1>0, <2>1, <2>2, <2>3 DEF S!Call
  <2>5. result = "fine" /\ site[s].kept # S!None => shown = site[s].kept
    BY DEF S!Page, S!Snapshot, S!StoredPage
  <2>6. result # "stream"
    OBVIOUS
  <2> HIDE DEF new, result, shown
  <2>7. SiteCallOK(new)
    BY <2>4, <2>6 DEF SiteCallOK
  <2> QED
    BY <2>1, <2>4, <2>5, <2>7, SiteLooks
<1>3. CASE S!CaptureLead(r)
  <2>1. sitecall[r].at = "read" /\ sitecall[r].op = "lead" /\ UNCHANGED site
    BY <1>3 DEF S!CaptureLead, S!At
  <2>2. PICK result \in {"fine", "bad_request", "not_found"} : S!Ends(r, result)
    BY <1>3 DEF S!CaptureLead
  <2> QED
    BY <2>1, <2>2, SiteResults, SiteEndsLooking
<1>4. CASE S!ServePack(r)
  <2>1. sitecall[r].at = "read" /\ sitecall[r].op \in S!Legacy /\ UNCHANGED site
    BY <1>4 DEF S!ServePack, S!At
  <2>2. PICK result \in S!LegacyAnswers[sitecall[r].op] : S!Ends(r, result)
    BY <1>4 DEF S!ServePack
  <2>3. result \in S!Results /\ sitecall[r].op \notin {"visit", "delete", "unpublish"}
    BY <2>1, <2>2, SiteLegacyResults
  <2> QED
    BY <2>1, <2>2, <2>3, SiteEndsLooking
<1> QED
  BY <1>1, <1>2, <1>3, <1>4

\* A step that writes the row s.
LEMMA SiteWrites ==
  ASSUME SitesInv, NEW r \in Reqs, NEW s \in S!SiteIds, NEW row, NEW new \in S!Call,
         site' = [site EXCEPT ![s] = row], sitecall' = [sitecall EXCEPT ![r] = new],
         SiteFate(s), S!OneSite', sitecall[r].at # "end",
         new.at = "end" => new.op = "delete" /\ new.result = "fine" /\ new.s = s
                           /\ row.stored = "deleted",
         new.at = "again" => new.op \in {"create", "update", "unpublish"},
         new.at = "again" /\ new.op = "unpublish" => ~ S!Live(new.s)',
         new.at \in {"end", "again"}
  PROVE  SiteDone(r)
<1>1. site'[s] = row /\ \A i \in S!SiteIds \ {s} : site'[i] = site[i]
  BY SiteTyped
<1>2. \A i \in S!SiteIds : SiteFate(i)
  BY <1>1 DEF SiteFate
<1>3. \A i \in S!SiteIds : site'[i] \in S!Row
  BY <1>2, SiteFates
<1>4. /\ sitecall' \in [Reqs -> S!Call] /\ sitecall'[r] = new
      /\ \A q \in Reqs \ {r} : sitecall'[q] = sitecall[q]
  BY SiteReplaced
<1>5. S!TypeOK'
  BY <1>3, <1>4, SiteTyped DEF S!TypeOK
<1>6. SiteCallOK(sitecall[r])'
  BY <1>1, <1>4 DEF SiteCallOK, S!Live, S!Stored
<1>7. sitecall'[r].at = "end" => sitecall'[r].op # "visit"
  BY <1>4
<1> QED
  BY <1>2, <1>4, <1>5, <1>6, <1>7 DEF SiteDone

LEMMA SiteInserts ==
  ASSUME SitesInv, NEW r \in Reqs, S!Insert(r)
  PROVE  SiteDone(r)
<1>0. sitecall[r].at = "write" /\ sitecall[r].op = "create" /\ sitecall[r] \in S!Call
  BY SiteTyped DEF S!Insert, S!At
<1>1. CASE S!Ends(r, "crash") /\ UNCHANGED site
  BY <1>0, <1>1, SiteResults, SiteEndsLooking
<1>2. CASE /\ \A s \in S!SiteIds : ~ S!Stored(s)
           /\ \E s \in S!Fresh :
                /\ site' = [site EXCEPT ![s].stored = "yes"]
                /\ sitecall' = [sitecall EXCEPT ![r].at = "again", ![r].s = s]
  <2>1. PICK s \in S!Fresh :
          /\ site' = [site EXCEPT ![s].stored = "yes"]
          /\ sitecall' = [sitecall EXCEPT ![r].at = "again", ![r].s = s]
    BY <1>2
  <2>2. s \in S!SiteIds /\ site[s].stored = "never" /\ site[s] \in S!Row
    BY SiteTyped DEF S!Fresh
  <2> DEFINE row == [site[s] EXCEPT !.stored = "yes"]
             new == [sitecall[r] EXCEPT !.at = "again", !.s = s]
  <2>3. site' = [site EXCEPT ![s] = row] /\ sitecall' = [sitecall EXCEPT ![r] = new]
    BY <2>1, <2>2, <1>0, SiteTyped
  <2>4. new \in S!Call /\ new.at = "again" /\ new.op = "create"
    BY <1>0, <2>2 DEF S!Call
  <2>5. SiteFate(s) /\ \A i \in S!SiteIds \ {s} : site'[i] = site[i]
    BY <2>2, <2>3, SiteTyped DEF SiteFate
  <2>6. S!OneSite'
    BY <1>2, <2>5 DEF S!OneSite, S!Stored
  <2> HIDE DEF row, new
  <2> QED
    BY <1>0, <2>2, <2>3, <2>4, <2>5, <2>6, SiteWrites
<1> QED
  BY <1>1, <1>2 DEF S!Insert

LEMMA SiteDeletes ==
  ASSUME SitesInv, NEW r \in Reqs, S!Delete(r)
  PROVE  SiteDone(r)
<1>k. PICK s \in S!SiteIds : s = sitecall[r].s
  BY SiteTyped
<1> DEFINE row == [site[s] EXCEPT !.stored = "deleted"]
           new == SiteEnded(r, "fine")
<1>1. /\ new \in S!Call /\ new.at = "end" /\ new.result = "fine"
      /\ new.op = sitecall[r].op /\ new.s = s
      /\ S!Ends(r, "fine") <=> sitecall' = [sitecall EXCEPT ![r] = new]
  BY <1>k, SiteResults, SiteEndedTyped
<1>2. /\ sitecall[r].at = "write" /\ sitecall[r].op = "delete" /\ S!Ends(r, "fine")
      /\ site' = [site EXCEPT ![s] = row]
  BY <1>k DEF S!Delete, S!At
<1>3. site[s] \in S!Row /\ row.stored = "deleted"
  BY SiteTyped, <1>k DEF S!Row
<1>4. SiteFate(s) /\ site'[s].stored = "deleted" /\ \A i \in S!SiteIds \ {s} : site'[i] = site[i]
  BY <1>2, <1>3, SiteTyped DEF SiteFate
<1>5. S!OneSite'
  BY <1>4 DEF S!OneSite, S!Stored, SitesInv
<1>6. sitecall' = [sitecall EXCEPT ![r] = new]
  BY <1>1, <1>2
<1>7. new.op = "delete" /\ sitecall[r].at # "end"
  BY <1>1, <1>2
<1> HIDE DEF row, new
<1> QED
  BY <1>1, <1>2, <1>3, <1>4, <1>5, <1>6, <1>7, SiteWrites

LEMMA SiteUpdates ==
  ASSUME SitesInv, NEW r \in Reqs, S!Write(r)
  PROVE  SiteDone(r)
<1>k. PICK s \in S!SiteIds : s = sitecall[r].s
  BY SiteTyped
<1> DEFINE op == sitecall[r].op
           After(row) == IF op = "update" THEN S!Updated(row, r) ELSE S!Unpublished(row)
           writes == After(sitecall[r].row) # sitecall[r].row
           new == [sitecall[r] EXCEPT !.at = "again"]
<1>0. /\ sitecall[r].at = "write" /\ op \in {"update", "unpublish"} /\ sitecall[r] \in S!Call
      /\ site[s] \in S!Row /\ sitecall[r].row \in S!Row /\ site \in [S!SiteIds -> S!Row]
  BY <1>k, SiteTyped DEF S!Write, S!At, S!Call
<1>1. \/ writes /\ ~ S!Stored(s) /\ S!Ends(r, "crash") /\ UNCHANGED site
      \/ /\ writes => S!Stored(s)
         /\ site' = IF writes THEN [site EXCEPT ![s] = After(@)] ELSE site
         /\ sitecall' = [sitecall EXCEPT ![r].at = "again"]
  BY <1>k DEF S!Write
<1>2. new \in S!Call /\ new.at = "again" /\ new.op = op /\ new.s = s
  BY <1>k, <1>0 DEF S!Call
<1>3. CASE S!Ends(r, "crash") /\ UNCHANGED site
  BY <1>0, <1>3, SiteResults, SiteEndsLooking
<1>4. CASE /\ ~ writes /\ UNCHANGED site
           /\ sitecall' = [sitecall EXCEPT ![r].at = "again"]
  <2>1. op = "unpublish" => ~ S!Live(s)
    <3>1. op = "unpublish" => sitecall[r].row.live \/ ~ S!Live(s)
      BY <1>k, <1>0 DEF SitesInv, SiteCallOK
    <3>2. op = "unpublish" => sitecall[r].row.live = FALSE
      BY <1>0, <1>4 DEF S!Unpublished, S!Row
    <3> QED
      BY <3>1, <3>2
  <2>2. sitecall' = [sitecall EXCEPT ![r] = new]
    BY <1>4
  <2> HIDE DEF new
  <2>3. SiteCallOK(new)
    BY <1>0, <1>2, <2>1 DEF SiteCallOK
  <2> QED
    BY <1>0, <1>2, <1>4, <2>2, <2>3, SiteLooks
<1>5. CASE /\ S!Stored(s) /\ site' = [site EXCEPT ![s] = After(@)]
           /\ sitecall' = [sitecall EXCEPT ![r].at = "again"]
  <2> DEFINE row == After(site[s])
  <2>1. site' = [site EXCEPT ![s] = row] /\ sitecall' = [sitecall EXCEPT ![r] = new]
    BY <1>5
  <2>2. site'[s] = row /\ \A i \in S!SiteIds \ {s} : site'[i] = site[i]
    BY <1>0, <2>1
  <2>3. CASE op = "update"
    <3> DEFINE draft == [f \in Columns |-> IF f \in S!Changed(r) THEN sitecall[r].given[f]
                                                                 ELSE site[s].draft[f]]
    <3>1. draft \in [Columns -> Texts]
      <4>1. site[s].draft \in [Columns -> Texts]
            /\ sitecall[r].given \in [Columns -> Texts \cup {S!None}]
        BY <1>0 DEF S!Row, S!Call
      <4> QED
        BY <4>1 DEF S!Changed
    <3>2. row = [site[s] EXCEPT !.draft = draft]
      BY <1>0, <2>3 DEF S!Updated, S!Row
    <3>3. SiteFate(s)
      BY <1>5, <2>2, <3>1, <3>2 DEF SiteFate
    <3>4. S!OneSite'
      BY <1>0, <2>2, <3>2 DEF S!OneSite, S!Stored, SitesInv, S!Row
    <3> HIDE DEF row, new, draft
    <3> QED
      BY <1>0, <1>2, <2>1, <2>3, <3>3, <3>4, SiteWrites
  <2>4. CASE op = "unpublish"
    <3>1. row = S!Unpublished(site[s])
      BY <2>4
    <3>2. SiteFate(s)
      BY <1>5, <2>2, <3>1 DEF SiteFate
    <3>3. site'[s].stored = site[s].stored /\ site'[s].live = FALSE
      BY <1>0, <2>2, <3>1 DEF S!Row, S!Unpublished
    <3>4. ~ S!Live(s)'
      BY <3>3 DEF S!Live
    <3>5. S!OneSite'
      BY <2>2, <3>3 DEF S!OneSite, S!Stored, SitesInv
    <3> HIDE DEF row, new
    <3> QED
      BY <1>0, <1>2, <2>1, <2>4, <3>2, <3>4, <3>5, SiteWrites
  <2> QED
    BY <1>0, <2>3, <2>4
<1> QED
  BY <1>1, <1>3, <1>4, <1>5

LEMMA SitesStep ==
  ASSUME SitesInv, NEW r \in Reqs, S!Begin(r) \/ S!Step(r)
  PROVE  /\ SitesInv' /\ S!DownStaysDown
         /\ \A q \in Reqs : sitecall[q].at = "end" => sitecall'[q] = sitecall[q]
<1>1. SiteDone(r)
  BY SiteBegins, SiteFinds, SiteShows, SiteInserts, SiteDeletes, SiteUpdates DEF S!Step
<1> QED
  BY <1>1, SiteDoneKeeps DEF SiteDone

LEMMA SitesOutside ==
  ASSUME SitesInv, UNCHANGED sites
  PROVE  SitesInv' /\ S!DownStaysDown /\ UNCHANGED sitecall
BY DEF SitesInv, sites, S!TypeOK, S!OneSite, S!VisitorsSeeThePublished, S!DownStaysDown,
   S!Live, S!Stored, S!At, SiteCallOK

LEMMA SitesInit == S!Init => SitesInv
<1> SUFFICES ASSUME S!Init
             PROVE  SitesInv
  OBVIOUS
<1>1. S!Unused \in S!Row /\ S!Unused.stored = "never" /\ S!Unused.live = FALSE
  BY RowsAssumption DEF S!Unused, S!Row, S!Empty, S!None
<1>2. sitecall = [r \in Reqs |-> S!Idle] /\ S!Idle.at = "idle"
  BY DEF S!Init, S!Idle
<1>3. S!Idle \in S!Call
  BY <1>1, BoundsAssumption, SiteResults DEF S!Idle, S!Call, S!SiteIds, S!Reading
<1>4. /\ site \in [S!SiteIds -> S!Row]
      /\ \A s \in S!SiteIds : site[s].stored = "never" => ~ site[s].live
      /\ \A s \in S!SiteIds : s # 1 => site[s].stored = "never"
  <2>1. CASE site = [s \in S!SiteIds |-> S!Unused]
    BY <1>1, <2>1
  <2>2. CASE \E live \in BOOLEAN, kept \in Texts \cup {S!None} :
               site = [s \in S!SiteIds |->
                         IF s = 1 THEN [S!Unused EXCEPT !.stored = "yes", !.live = live, !.kept = kept]
                         ELSE S!Unused]
    <3>0. PICK live \in BOOLEAN, kept \in Texts \cup {S!None} :
               site = [s \in S!SiteIds |->
                         IF s = 1 THEN [S!Unused EXCEPT !.stored = "yes", !.live = live, !.kept = kept]
                         ELSE S!Unused]
      BY <2>2
    <3> DEFINE one == [S!Unused EXCEPT !.stored = "yes", !.live = live, !.kept = kept]
    <3>1. one \in S!Row /\ one.stored = "yes"
      BY <1>1 DEF S!Row
    <3>2. site = [s \in S!SiteIds |-> IF s = 1 THEN one ELSE S!Unused]
      BY <3>0
    <3> HIDE DEF one
    <3>3. site \in [S!SiteIds -> S!Row]
      BY <1>1, <3>1, <3>2
    <3>4. \A s \in S!SiteIds : site[s] = IF s = 1 THEN one ELSE S!Unused
      BY <3>2
    <3> QED
      BY <1>1, <3>1, <3>3, <3>4
  <2> QED
    BY <2>1, <2>2 DEF S!Init
<1>5. S!OneSite
  BY <1>4 DEF S!OneSite, S!Stored
<1> QED
  BY <1>2, <1>3, <1>4, <1>5 DEF SitesInv, S!TypeOK, S!VisitorsSeeThePublished, S!At, SiteCallOK

-----------------------------------------------------------------------------
(* Posters: the operators *)

LEMMA FirstIndex ==
  ASSUME NEW set, set \subseteq Nat, set # {}
  PROVE  P!Min(set) \in set
<1> DEFINE below == {pair \in Nat \X Nat : pair[1] < pair[2]}
<1>1. IsWellFoundedOn(below, Nat)
  BY NatLessThanWellFounded DEF OpToRel
<1>2. PICK v \in set : \A u \in set : ~ (<<u, v>> \in below)
  <2> HIDE DEF below
  <2> QED
    BY <1>1, WFMin
<1>3. ASSUME NEW u \in set
      PROVE  v <= u
  <2>1. <<u, v>> \in Nat \X Nat /\ <<u, v>>[1] = u /\ <<u, v>>[2] = v /\ u \in Nat /\ v \in Nat
    OBVIOUS
  <2>2. ~ (u < v)
    BY <1>2, <2>1
  <2> QED
    BY <2>1, <2>2
<1> QED
  BY <1>3 DEF P!Min

\* _coalesce_text: a source that is known, or the default when none is.
LEMMA CoalesceTellsOneOf ==
  ASSUME NEW order, DOMAIN order \subseteq Nat, NEW known
  PROVE  \/ \E i \in DOMAIN order : order[i] \in known /\ P!Coalesce(order, known) = order[i]
         \/ (\A i \in DOMAIN order : order[i] \notin known) /\ P!Coalesce(order, known) = P!Default
<1> DEFINE filled == {i \in DOMAIN order : order[i] \in known}
<1>1. filled # {} => P!Min(filled) \in filled
  <2>1. filled \subseteq Nat
    OBVIOUS
  <2> HIDE DEF filled
  <2> QED
    BY <2>1, FirstIndex
<1>2. P!Coalesce(order, known) = IF filled = {} THEN P!Default ELSE order[P!Min(filled)]
  BY DEF P!Coalesce
<1>3. \A i \in DOMAIN order : i \in filled <=> order[i] \in known
  OBVIOUS
<1> QED
  BY <1>1, <1>2, <1>3

\* The default is told only when no source of the order is known.
LEMMA CoalesceIsHonest ==
  ASSUME NEW order, DOMAIN order \subseteq Nat, NEW known \in SUBSET P!Sources
  PROVE  /\ P!Coalesce(order, known) \in known \cup {P!Default}
         /\ P!Coalesce(order, known) = P!Default => \A i \in DOMAIN order : order[i] \notin known
<1>1. P!Default \notin known
  BY DEF P!Default, P!Sources
<1> QED
  BY <1>1, CoalesceTellsOneOf

\* A version that is chosen is not in use.
LEMMA NextVersionIsNew ==
  ASSUME NEW used
  PROVE  /\ P!NextVersion(used) \in P!Range(Letters) \cup {"1", "Z1"}
         /\ P!NextVersion(used) \in P!Range(Letters) => P!NextVersion(used) \notin used
<1> DEFINE free == {i \in DOMAIN Letters : Letters[i] \notin used}
<1>1. DOMAIN Letters \subseteq Nat
  BY LettersAssumption
<1>2. free # {} => P!Min(free) \in free
  BY <1>1, FirstIndex
<1>3. P!NextVersion(used) = IF free = {} THEN "Z1" ELSE Letters[P!Min(free)]
  BY DEF P!NextVersion
<1>4. "Z1" \notin P!Range(Letters)
  BY LettersAssumption DEF P!Range
<1> QED
  BY <1>2, <1>3, <1>4 DEF P!Range

\* What the context says of a field.
LEMMA ContextIsHonest ==
  ASSUME NEW known \in SUBSET P!Sources, NEW f \in DOMAIN P!ContextOrder,
         NEW order, P!ContextOrder[f] = order, DOMAIN order \subseteq Nat
  PROVE  LET says == P!Context(known, FALSE)[f]
         IN  /\ says \in known \cup {P!Default}
             /\ says = P!Default => \A i \in DOMAIN order : order[i] \notin known
<1>1. P!Context(known, FALSE)[f] = P!Coalesce(order, known)
  BY DEF P!Context, P!Consulted
<1> QED
  BY <1>1, CoalesceIsHonest

\* The same, of the fields that a brief is made of.
LEMMA FieldsAreHonest ==
  ASSUME NEW known \in SUBSET P!Sources
  PROVE  LET context == P!Context(known, FALSE)
             Tells(f, set) == /\ context[f] \in known \cup {P!Default}
                              /\ context[f] = P!Default => set \cap known = {}
         IN  /\ Tells("brand_name", {"profile", "artifact", "pack", "brand_os"})
             /\ Tells("core_offer", {"profile", "artifact", "pack", "brand_os"})
             /\ Tells("usp_statement", {"artifact", "pack", "profile"})
             /\ Tells("primary_cta", {"profile", "pack"})
             /\ Tells("industry", {"profile", "artifact", "brand_os"})
             /\ Tells("voice_archetype", {"artifact", "brand_os"})
             /\ Tells("proof_points", {"profile", "artifact", "brand_os"})
<1> DEFINE context == P!Context(known, FALSE)
           Tells(f, set) == /\ context[f] \in known \cup {P!Default}
                            /\ context[f] = P!Default => set \cap known = {}
<1>o. /\ P!ContextOrder["brand_name"] = <<"profile", "artifact", "pack", "brand_os">>
      /\ P!ContextOrder["core_offer"] = <<"profile", "artifact", "pack", "brand_os">>
      /\ P!ContextOrder["usp_statement"] = <<"artifact", "pack", "profile">>
      /\ P!ContextOrder["primary_cta"] = <<"profile", "pack">>
      /\ P!ContextOrder["industry"] = <<"profile", "artifact", "brand_os">>
      /\ P!ContextOrder["voice_archetype"] = <<"artifact", "brand_os">>
      /\ P!ContextOrder["proof_points"] = <<"profile", "artifact", "brand_os">>
  BY DEF P!ContextOrder
<1>d. {"brand_name", "core_offer", "usp_statement", "primary_cta", "industry",
       "voice_archetype", "proof_points"} \subseteq DOMAIN P!ContextOrder
  BY DEF P!ContextOrder
<1>1. ASSUME NEW f \in DOMAIN P!ContextOrder, NEW a, NEW b, P!ContextOrder[f] = <<a, b>>
      PROVE  Tells(f, {a, b})
  <2> DEFINE order == <<a, b>>
  <2>1. DOMAIN order = 1..2 /\ DOMAIN order \subseteq Nat /\ order[1] = a /\ order[2] = b
    OBVIOUS
  <2>2. P!ContextOrder[f] = order
    BY <1>1
  <2> HIDE DEF order
  <2>3. /\ context[f] \in known \cup {P!Default}
        /\ context[f] = P!Default => \A i \in DOMAIN order : order[i] \notin known
    BY <2>1, <2>2, ContextIsHonest
  <2> HIDE DEF context
  <2> QED
    BY <2>1, <2>3
<1>2. ASSUME NEW f \in DOMAIN P!ContextOrder, NEW a, NEW b, NEW c,
             P!ContextOrder[f] = <<a, b, c>>
      PROVE  Tells(f, {a, b, c})
  <2> DEFINE order == <<a, b, c>>
  <2>1. DOMAIN order = 1..3 /\ DOMAIN order \subseteq Nat /\ order[1] = a /\ order[2] = b /\ order[3] = c
    OBVIOUS
  <2>2. P!ContextOrder[f] = order
    BY <1>2
  <2> HIDE DEF order
  <2>3. /\ context[f] \in known \cup {P!Default}
        /\ context[f] = P!Default => \A i \in DOMAIN order : order[i] \notin known
    BY <2>1, <2>2, ContextIsHonest
  <2> HIDE DEF context
  <2> QED
    BY <2>1, <2>3
<1>3. ASSUME NEW f \in DOMAIN P!ContextOrder, NEW a, NEW b, NEW c, NEW d,
             P!ContextOrder[f] = <<a, b, c, d>>
      PROVE  Tells(f, {a, b, c, d})
  <2> DEFINE order == <<a, b, c, d>>
  <2>1. DOMAIN order = 1..4 /\ DOMAIN order \subseteq Nat /\ order[1] = a /\ order[2] = b /\ order[3] = c /\ order[4] = d
    OBVIOUS
  <2>2. P!ContextOrder[f] = order
    BY <1>3
  <2> HIDE DEF order
  <2>3. /\ context[f] \in known \cup {P!Default}
        /\ context[f] = P!Default => \A i \in DOMAIN order : order[i] \notin known
    BY <2>1, <2>2, ContextIsHonest
  <2> HIDE DEF context
  <2> QED
    BY <2>1, <2>3
<1> HIDE DEF context, Tells
<1>4. Tells("brand_name", {"profile", "artifact", "pack", "brand_os"})
  BY <1>o, <1>d, <1>3
<1>5. Tells("core_offer", {"profile", "artifact", "pack", "brand_os"})
  BY <1>o, <1>d, <1>3
<1>6. Tells("usp_statement", {"artifact", "pack", "profile"})
  BY <1>o, <1>d, <1>2
<1>7. Tells("primary_cta", {"profile", "pack"})
  BY <1>o, <1>d, <1>1
<1>8. Tells("industry", {"profile", "artifact", "brand_os"})
  BY <1>o, <1>d, <1>2
<1>9. Tells("voice_archetype", {"artifact", "brand_os"})
  BY <1>o, <1>d, <1>1
<1>10. Tells("proof_points", {"profile", "artifact", "brand_os"})
  BY <1>o, <1>d, <1>2
<1> QED
  BY <1>4, <1>5, <1>6, <1>7, <1>8, <1>9, <1>10 DEF Tells, context

\* What a brief says of a field.
LEMMA BriefIsHonest ==
  ASSUME NEW known \in SUBSET P!Sources, NEW f \in P!BriefFields
  PROVE  LET said == P!Brief(known)[f]
         IN  /\ said \in P!Sources \cup {P!Default}
             /\ said = P!Default => P!Tellers[f] \cap known = {}
<1> DEFINE context == P!Context(known, FALSE)
           Tells(g, set) == /\ context[g] \in known \cup {P!Default}
                            /\ context[g] = P!Default => set \cap known = {}
           Else(g) == P!Coalesce(<<context[g], "pack">>, known)
           brief == P!Brief(known)
<1>1. /\ brief["business_name"] = Else("brand_name") /\ brief["offer"] = Else("core_offer")
      /\ brief["usp"] = Else("usp_statement") /\ brief["cta"] = Else("primary_cta")
      /\ brief["business_type"] = Else("industry") /\ brief["tone"] = context["voice_archetype"]
      /\ brief["proof_line"] = P!Coalesce(<<"pack", context["proof_points"]>>, known)
  BY DEF P!Brief
<1>2. /\ Tells("brand_name", {"profile", "artifact", "pack", "brand_os"})
      /\ Tells("core_offer", {"profile", "artifact", "pack", "brand_os"})
      /\ Tells("usp_statement", {"artifact", "pack", "profile"})
      /\ Tells("primary_cta", {"profile", "pack"})
      /\ Tells("industry", {"profile", "artifact", "brand_os"})
      /\ Tells("voice_archetype", {"artifact", "brand_os"})
      /\ Tells("proof_points", {"profile", "artifact", "brand_os"})
  BY FieldsAreHonest
<1>3. P!Default \notin known /\ known \subseteq P!Sources
  BY DEF P!Default, P!Sources
<1>4. ASSUME NEW a, NEW b
      PROVE  LET said == P!Coalesce(<<a, b>>, known)
             IN  /\ said \in known \cup {P!Default}
                 /\ said = P!Default => a \notin known /\ b \notin known
  <2> DEFINE order == <<a, b>>
             said == P!Coalesce(order, known)
  <2>1. DOMAIN order = 1..2 /\ DOMAIN order \subseteq Nat /\ order[1] = a /\ order[2] = b
    OBVIOUS
  <2> HIDE DEF order
  <2>2. /\ said \in known \cup {P!Default}
        /\ said = P!Default => \A i \in DOMAIN order : order[i] \notin known
    BY <2>1, CoalesceIsHonest
  <2> QED
    BY <2>1, <2>2 DEF order
<1>5. ASSUME NEW g, NEW set, Tells(g, set)
      PROVE  /\ Else(g) \in known \cup {P!Default}
             /\ Else(g) = P!Default => set \cap known = {} /\ "pack" \notin known
             /\ P!Coalesce(<<"pack", context[g]>>, known) \in known \cup {P!Default}
             /\ P!Coalesce(<<"pack", context[g]>>, known) = P!Default =>
                  set \cap known = {} /\ "pack" \notin known
  <2> DEFINE says == context[g]
  <2>1. says \in known \cup {P!Default} /\ (says = P!Default => set \cap known = {})
    BY <1>5
  <2> HIDE DEF context
  <2> QED
    BY <1>3, <1>4, <2>1
<1> HIDE DEF context, Tells, Else, brief
<1>6. \A g, set : Tells(g, set) =>
        /\ Else(g) \in known \cup {P!Default}
        /\ Else(g) = P!Default => set \cap known = {} /\ "pack" \notin known
        /\ P!Coalesce(<<"pack", context[g]>>, known) \in known \cup {P!Default}
        /\ P!Coalesce(<<"pack", context[g]>>, known) = P!Default =>
             set \cap known = {} /\ "pack" \notin known
  BY <1>5
<1>7. f \in {"business_name", "offer", "usp", "cta", "proof_line", "business_type", "tone"}
  BY DEF P!BriefFields
<1>a. ASSUME NEW set, P!Tellers[f] \subseteq set \cup {"pack"}, brief[f] \in known \cup {P!Default},
             brief[f] = P!Default => set \cap known = {} /\ "pack" \notin known
      PROVE  brief[f] \in P!Sources \cup {P!Default} /\ (brief[f] = P!Default => P!Tellers[f] \cap known = {})
  BY <1>3, <1>a
<1>8. CASE f = "business_name"
  <2> DEFINE set == {"profile", "artifact", "pack", "brand_os"}
  <2>1. P!Tellers[f] \subseteq set \cup {"pack"}
    BY <1>8 DEF P!Tellers
  <2>2. brief[f] = Else("brand_name") /\ Tells("brand_name", set)
    BY <1>1, <1>2, <1>8
  <2> HIDE DEF set
  <2>3. /\ brief[f] \in known \cup {P!Default}
        /\ brief[f] = P!Default => set \cap known = {} /\ "pack" \notin known
    BY <1>6, <2>2
  <2> QED
    BY <1>a, <2>1, <2>3 DEF brief
<1>9. CASE f = "offer"
  <2> DEFINE set == {"profile", "artifact", "pack", "brand_os"}
  <2>1. P!Tellers[f] \subseteq set \cup {"pack"}
    BY <1>9 DEF P!Tellers
  <2>2. brief[f] = Else("core_offer") /\ Tells("core_offer", set)
    BY <1>1, <1>2, <1>9
  <2> HIDE DEF set
  <2>3. /\ brief[f] \in known \cup {P!Default}
        /\ brief[f] = P!Default => set \cap known = {} /\ "pack" \notin known
    BY <1>6, <2>2
  <2> QED
    BY <1>a, <2>1, <2>3 DEF brief
<1>10. CASE f = "usp"
  <2> DEFINE set == {"artifact", "pack", "profile"}
  <2>1. P!Tellers[f] \subseteq set \cup {"pack"}
    BY <1>10 DEF P!Tellers
  <2>2. brief[f] = Else("usp_statement") /\ Tells("usp_statement", set)
    BY <1>1, <1>2, <1>10
  <2> HIDE DEF set
  <2>3. /\ brief[f] \in known \cup {P!Default}
        /\ brief[f] = P!Default => set \cap known = {} /\ "pack" \notin known
    BY <1>6, <2>2
  <2> QED
    BY <1>a, <2>1, <2>3 DEF brief
<1>11. CASE f = "cta"
  <2> DEFINE set == {"profile", "pack"}
  <2>1. P!Tellers[f] \subseteq set \cup {"pack"}
    BY <1>11 DEF P!Tellers
  <2>2. brief[f] = Else("primary_cta") /\ Tells("primary_cta", set)
    BY <1>1, <1>2, <1>11
  <2> HIDE DEF set
  <2>3. /\ brief[f] \in known \cup {P!Default}
        /\ brief[f] = P!Default => set \cap known = {} /\ "pack" \notin known
    BY <1>6, <2>2
  <2> QED
    BY <1>a, <2>1, <2>3 DEF brief
<1>12. CASE f = "proof_line"
  <2> DEFINE set == {"profile", "artifact", "brand_os"}
  <2>1. P!Tellers[f] \subseteq set \cup {"pack"}
    BY <1>12 DEF P!Tellers
  <2>2. brief[f] = P!Coalesce(<<"pack", context["proof_points"]>>, known) /\ Tells("proof_points", set)
    BY <1>1, <1>2, <1>12
  <2> HIDE DEF set
  <2>3. /\ brief[f] \in known \cup {P!Default}
        /\ brief[f] = P!Default => set \cap known = {} /\ "pack" \notin known
    BY <1>6, <2>2
  <2> QED
    BY <1>a, <2>1, <2>3 DEF brief
<1>13. CASE f = "business_type"
  <2>1. /\ brief[f] \in known \cup {P!Default}
        /\ brief[f] = P!Default =>
             {"profile", "artifact", "brand_os"} \cap known = {} /\ "pack" \notin known
    BY <1>1, <1>2, <1>6, <1>13
  <2>2. P!Tellers[f] = {"profile", "artifact", "brand_os"} \cup {"pack"}
    BY <1>13 DEF P!Tellers
  <2> QED
    BY <1>3, <2>1, <2>2 DEF brief
<1>14. CASE f = "tone"
  BY <1>1, <1>2, <1>3, <1>14 DEF P!Tellers, brief, Tells
<1> QED
  BY <1>7, <1>8, <1>9, <1>10, <1>11, <1>12, <1>13, <1>14

\* The prompt of a call is exact: PromptsAreExact of one call.
PromptIsExact(x) ==
  LET p == x.prompt
      wanted == {f[1] : f \in p.files}
  IN /\ wanted # {} /\ p.files = wanted \X P!Sizes
     /\ IF x.edit = P!None
        THEN \A s \in wanted : \E y \in P!Concepts : {e \in p.concepts : e[1] = s} = {<<s, y>>}
        ELSE wanted = {x.edit} /\ p.concepts = {}
     /\ \A f \in P!BriefFields : p.brief[f] = P!Default => P!Tellers[f] \cap x.known = {}
     /\ p.logo <=> "logo" \in p.brand

LEMMA PromptsOfSlots ==
  ASSUME NEW mode \in P!Modes, NEW slot \in P!Slots \cup {P!None}, NEW known \in SUBSET P!Sources,
         NEW wanted, wanted = P!SlotsOf(mode, slot), wanted # {}, NEW x,
         x.prompt = P!PromptOf(mode, wanted, known), x.known = known,
         x.edit = IF mode = "edit" THEN slot ELSE P!None
  PROVE  /\ x.prompt \in P!Prompt /\ x.edit \in P!Slots \cup {P!None}
         /\ PromptIsExact(x)
<1> DEFINE p == P!PromptOf(mode, wanted, known)
           context == P!Context(known, FALSE)
<1>1. /\ p.files = wanted \X P!Sizes /\ p.brief = P!Brief(known)
      /\ p.concepts = IF mode = "edit" THEN {} ELSE {<<s, P!Concept(mode, s)>> : s \in wanted}
      /\ p.brand = {f \in P!Listed : context[f] # P!Default}
      /\ p.logo = (context["logo"] # P!Default)
      /\ p = [files |-> p.files, concepts |-> p.concepts, brief |-> p.brief, brand |-> p.brand,
              logo |-> p.logo]
  BY DEF P!PromptOf
<1>2. wanted \subseteq P!Slots /\ (mode = "edit" => wanted = {slot} /\ slot # P!None)
  BY DEF P!SlotsOf, P!Slots, P!Modes, P!None
<1>3. \A s \in wanted : mode # "edit" => P!Concept(mode, s) \in P!Concepts
  BY <1>2 DEF P!Concept, P!Concepts, P!Slots
<1>4. {f[1] : f \in p.files} = wanted
  <2>1. "4x5" \in P!Sizes
    BY DEF P!Sizes
  <2>2. \A s \in wanted : <<s, "4x5">> \in p.files /\ <<s, "4x5">>[1] = s
    BY <1>1, <2>1
  <2>3. \A f \in p.files : f[1] \in wanted
    BY <1>1
  <2> HIDE DEF p
  <2> QED
    BY <2>2, <2>3
<1>5. \A f \in P!BriefFields : p.brief[f] \in P!Sources \cup {P!Default}
  BY <1>1, BriefIsHonest
<1>6. p.brief = [f \in P!BriefFields |-> p.brief[f]]
  BY <1>1 DEF P!Brief, P!BriefFields
<1>7. P!Listed \subseteq DOMAIN P!ContextOrder /\ "logo" \in P!Listed
  BY DEF P!Listed, P!ContextOrder
<1>8. p \in P!Prompt
  <2>1. p.files \in SUBSET (P!Slots \X P!Sizes)
    BY <1>1, <1>2
  <2>2. p.concepts \in SUBSET (P!Slots \X P!Concepts)
    BY <1>1, <1>2, <1>3
  <2>3. p.brief \in [P!BriefFields -> P!Sources \cup {P!Default}]
    BY <1>5, <1>6
  <2>4. p.brand \in SUBSET DOMAIN P!ContextOrder /\ p.logo \in BOOLEAN
    BY <1>1, <1>7
  <2> HIDE DEF p
  <2> QED
    BY <1>1, <2>1, <2>2, <2>3, <2>4 DEF P!Prompt
<1>9. \A f \in P!BriefFields : p.brief[f] = P!Default => P!Tellers[f] \cap known = {}
  BY <1>1, BriefIsHonest
<1>10. p.logo <=> "logo" \in p.brand
  BY <1>1, <1>7
<1>11. IF x.edit = P!None
       THEN \A s \in wanted : \E y \in P!Concepts : {e \in p.concepts : e[1] = s} = {<<s, y>>}
       ELSE wanted = {x.edit} /\ p.concepts = {}
  <2>1. CASE mode = "edit"
    BY <1>1, <1>2, <2>1
  <2>2. CASE mode # "edit"
    <3>1. ASSUME NEW s \in wanted
          PROVE  {e \in p.concepts : e[1] = s} = {<<s, P!Concept(mode, s)>>}
      BY <1>1, <2>2
    <3> QED
      BY <1>3, <2>2, <3>1
  <2> QED
    BY <2>1, <2>2
<1> HIDE DEF p
<1>12. x.prompt = p
  BY DEF p
<1>13. x.edit \in P!Slots \cup {P!None}
  OBVIOUS
<1>14. wanted # {} /\ p.files = wanted \X P!Sizes
  BY <1>1
<1>15. PromptIsExact(x)
  BY <1>4, <1>9, <1>10, <1>11, <1>12, <1>14 DEF PromptIsExact
<1> QED
  BY <1>8, <1>12, <1>13, <1>15

-----------------------------------------------------------------------------
(* Posters: the handlers *)

LEMMA PosterTyped ==
  ASSUME PostersInv
  PROVE  /\ postercall \in [Reqs -> P!Call] /\ asset \in [P!AssetIds -> P!Row]
         /\ \A r \in Reqs : /\ postercall[r] \in P!Call /\ postercall[r].a \in P!AssetIds
                            /\ PosterCallOK(postercall[r])
         /\ \A a \in P!AssetIds : asset[a] \in P!Row
BY DEF PostersInv, P!TypeOK, P!Call

\* What a step of r can do to the row a.
AssetFate(a, r) ==
  \/ asset'[a] = asset[a]
  \/ asset'[a] = [asset[a] EXCEPT !.stored = "deleted"]
  \/ /\ asset[a].stored = "never" /\ asset'[a] \in P!Row /\ asset'[a].by = r
     /\ \A b \in P!AssetIds \ {a} : asset'[b] = asset[b]
     /\ asset'[a].version \in P!Range(Letters) => \A b \in P!AssetIds :
          P!Stored(b) /\ asset[b].type = asset'[a].type /\ asset[b].version = asset'[a].version
          => asset[b].by # P!None /\ asset[b].by \notin postercall[r].ended

\* A step of r: what it leaves of the call, and what it does to the rows.
PosterDone(r) ==
  /\ postercall' \in [Reqs -> P!Call] /\ postercall[r].at # "end"
  /\ \A q \in Reqs \ {r} : postercall'[q] = postercall[q]
  /\ \A a \in P!AssetIds : AssetFate(a, r)
  /\ asset' # asset => postercall'[r].at = "end" /\ postercall'[r].ended = postercall[r].ended
  /\ asset' \in [P!AssetIds -> P!Row]
  /\ PosterCallOK(postercall[r])'
  /\ postercall'[r].at = "prime" => PromptIsExact(postercall'[r])

LEMMA AssetFates ==
  ASSUME PostersInv, NEW r \in Reqs, NEW a \in P!AssetIds, AssetFate(a, r)
  PROVE  /\ asset[a].stored = "deleted" => asset'[a].stored = "deleted"
         /\ P!Stored(a)' => \/ P!Stored(a) /\ asset'[a] = asset[a]
                            \/ asset[a].stored = "never" /\ asset'[a].by = r
         /\ asset'[a].by \in {asset[a].by, r}
BY PosterTyped DEF AssetFate, P!Stored, P!Row

LEMMA LettersStillTell ==
  ASSUME PostersInv, NEW r \in Reqs, PosterDone(r)
  PROVE  P!LettersTellVersions'
<1> SUFFICES ASSUME NEW a \in P!AssetIds, NEW b \in P!AssetIds, a # b, P!Stored(a)', P!Stored(b)',
                    asset'[a].type = asset'[b].type, asset'[a].version = asset'[b].version,
                    asset'[a].version \in P!Range(Letters)
             PROVE  P!Overlap(asset[a].by, asset[b].by)'
  BY DEF P!LettersTellVersions
<1>r. r # P!None
  BY RowsAssumption DEF P!None
\* The calls that stored a row have ended, and r has not.
<1>1. ASSUME NEW c \in P!AssetIds, P!Stored(c), asset[c].by # P!None
      PROVE  /\ asset[c].by \in Reqs \ {r} /\ postercall[asset[c].by].at = "end"
             /\ postercall'[asset[c].by] = postercall[asset[c].by]
             /\ r \notin postercall[asset[c].by].ended
  <2>1. asset[c].by \in Reqs /\ postercall[asset[c].by].at = "end"
    BY <1>1, PosterTyped DEF PostersInv, P!Row
  <2>2. asset[c].by # r
    BY <2>1 DEF PosterDone
  <2>3. r \notin postercall[asset[c].by].ended
    BY <2>1 DEF PosterDone, PostersInv, PosterCallOK
  <2> QED
    BY <2>1, <2>2, <2>3 DEF PosterDone
<1>2. ASSUME NEW c \in P!AssetIds, NEW d \in P!AssetIds, c # d, AssetFate(c, r),
             asset[c].stored = "never", asset'[c].stored = "yes", P!Stored(d),
             asset'[d] = asset[d], asset'[c].by = r, asset'[c].type = asset'[d].type,
             asset'[c].version = asset'[d].version, asset'[c].version \in P!Range(Letters)
      PROVE  P!Overlap(asset[c].by, asset[d].by)' /\ P!Overlap(asset[d].by, asset[c].by)'
  <2>1. asset'[c] # asset[c] /\ asset'[c] # [asset[c] EXCEPT !.stored = "deleted"]
    BY <1>2, PosterTyped DEF P!Row
  <2>2. asset[d].by # P!None /\ asset[d].by \notin postercall[r].ended
    BY <1>2, <2>1 DEF AssetFate
  <2>3. postercall'[r].ended = postercall[r].ended
    BY <2>1 DEF PosterDone
  <2>4. /\ asset[d].by \in Reqs \ {r} /\ postercall'[asset[d].by] = postercall[asset[d].by]
        /\ r \notin postercall[asset[d].by].ended
    BY <1>1, <1>2, <2>2
  <2> QED
    BY <1>2, <1>r, <2>2, <2>3, <2>4 DEF P!Overlap
<1>f. AssetFate(a, r) /\ AssetFate(b, r)
  BY DEF PosterDone
<1>g. (P!Stored(a) /\ asset'[a] = asset[a]) \/ (asset[a].stored = "never" /\ asset'[a].by = r)
  BY <1>f, AssetFates DEF P!Stored
<1>h. (P!Stored(b) /\ asset'[b] = asset[b]) \/ (asset[b].stored = "never" /\ asset'[b].by = r)
  BY <1>f, AssetFates DEF P!Stored
<1>4. CASE P!Stored(a) /\ asset'[a] = asset[a] /\ P!Stored(b) /\ asset'[b] = asset[b]
  <2>1. P!Overlap(asset[a].by, asset[b].by)
    BY <1>4 DEF PostersInv, P!LettersTellVersions
  <2>2. asset[a].by # P!None /\ asset[b].by # P!None
    BY <2>1 DEF P!Overlap
  <2>3. /\ postercall'[asset[a].by] = postercall[asset[a].by]
        /\ postercall'[asset[b].by] = postercall[asset[b].by]
    BY <1>1, <1>4, <2>2
  <2> QED
    BY <1>4, <2>1, <2>3 DEF P!Overlap
<1>5. CASE asset[a].stored = "never" /\ asset'[a].by = r /\ P!Stored(b) /\ asset'[b] = asset[b]
  BY <1>2, <1>5, <1>f DEF P!Stored
<1>6. CASE asset[b].stored = "never" /\ asset'[b].by = r /\ P!Stored(a) /\ asset'[a] = asset[a]
  BY <1>2, <1>6, <1>f DEF P!Stored
<1>7. CASE asset[a].stored = "never" /\ asset[b].stored = "never"
  <2>1. asset'[a] # asset[a] /\ asset'[a] # [asset[a] EXCEPT !.stored = "deleted"]
    BY <1>7, PosterTyped DEF P!Row, P!Stored
  <2>2. asset'[b] = asset[b]
    BY <1>f, <2>1 DEF AssetFate
  <2> QED
    BY <1>7, <2>2 DEF P!Stored
<1> QED
  BY <1>g, <1>h, <1>4, <1>5, <1>6, <1>7

LEMMA PosterDoneKeeps ==
  ASSUME PostersInv, NEW r \in Reqs, PosterDone(r)
  PROVE  PostersInv'
<1>1. P!LettersTellVersions'
  BY LettersStillTell
<1>2. P!PromptsAreExact'
  <2>1. \A c \in Reqs : postercall[c].at = "prime" => PromptIsExact(postercall[c])
    BY DEF PostersInv, P!PromptsAreExact, P!At, PromptIsExact
  <2>2. \A c \in Reqs : postercall'[c].at = "prime" => PromptIsExact(postercall'[c])
    BY <2>1 DEF PosterDone
  <2> QED
    BY <2>2 DEF P!PromptsAreExact, P!At, PromptIsExact
<1>3. P!TypeOK'
  BY DEF PosterDone, P!TypeOK
<1>4. ASSUME NEW a \in P!AssetIds, asset'[a].by # P!None
      PROVE  postercall'[asset'[a].by].at = "end"
  <2>1. CASE asset'[a] = asset[a]
    <3>1. asset[a].by \in Reqs /\ postercall[asset[a].by].at = "end"
      BY <1>4, <2>1, PosterTyped DEF PostersInv, P!Row
    <3> QED
      BY <2>1, <3>1 DEF PosterDone
  <2>2. CASE asset'[a] # asset[a]
    <3>1. postercall'[r].at = "end" /\ AssetFate(a, r)
      BY <2>2 DEF PosterDone
    <3>2. asset'[a].by \in {asset[a].by, r}
      BY <3>1, AssetFates
    <3>3. asset[a].by # P!None => asset[a].by \in Reqs /\ postercall[asset[a].by].at = "end"
      BY PosterTyped DEF PostersInv, P!Row
    <3> QED
      BY <1>4, <3>1, <3>2, <3>3 DEF PosterDone
  <2> QED
    BY <2>1, <2>2
<1>5. ASSUME NEW q \in Reqs
      PROVE  PosterCallOK(postercall[q])'
  <2>1. CASE q = r
    BY <2>1 DEF PosterDone
  <2>2. CASE q # r
    <3> DEFINE x == postercall[q]
    <3>1. postercall'[q] = x /\ x \in P!Call /\ x.a \in P!AssetIds /\ PosterCallOK(x)
      BY <2>2, PosterTyped DEF PosterDone
    <3>2. \A d \in x.ended : d # r /\ d \in Reqs /\ postercall'[d].at = "end"
      BY <3>1 DEF PosterDone, PosterCallOK, P!Call
    <3>3. asset[x.a].stored = "deleted" => asset'[x.a].stored = "deleted"
      BY <3>1, AssetFates DEF PosterDone
    <3>4. ASSUME x.at = "insert", NEW a \in P!AssetIds, P!Stored(a)', asset'[a].type = x.row.type,
                 asset'[a].version = x.version, x.version \in P!Range(Letters)
          PROVE  asset'[a].by # P!None /\ asset'[a].by \notin x.ended
      <4>1. \/ P!Stored(a) /\ asset'[a] = asset[a]
            \/ asset'[a].by = r
        BY <3>4, AssetFates DEF PosterDone
      <4>2. r # P!None
        BY RowsAssumption DEF P!None
      <4> QED
        BY <3>1, <3>2, <3>4, <4>1, <4>2 DEF PosterCallOK
    <3>5. x.at = "insert" => \A a \in P!AssetIds :
            /\ P!Stored(a)' /\ asset'[a].type = x.row.type
            /\ asset'[a].version = x.version /\ x.version \in P!Range(Letters)
            => asset'[a].by # P!None /\ asset'[a].by \notin x.ended
      BY <3>4
    <3> HIDE DEF x
    <3> QED
      BY <3>1, <3>2, <3>3, <3>5 DEF PosterCallOK
  <2> QED
    BY <2>1, <2>2
<1> QED
  BY <1>1, <1>2, <1>3, <1>4, <1>5 DEF PostersInv

LEMMA PosterReplaced ==
  ASSUME PostersInv, NEW r \in Reqs, NEW new \in P!Call, postercall' = [postercall EXCEPT ![r] = new],
         postercall[r].at # "end"
  PROVE  /\ postercall' \in [Reqs -> P!Call] /\ postercall'[r] = new
         /\ \A q \in Reqs \ {r} : postercall'[q] = postercall[q]
         /\ \A q \in Reqs : postercall[q].at = "end" => postercall'[q].at = "end"
BY PosterTyped

LEMMA PosterIdle ==
  /\ P!Idle \in P!Call /\ P!Idle.at = "idle" /\ P!Idle.ended = {} /\ P!Idle.op = "get"
  /\ P!Idle.a = 1 /\ P!Unused \in P!Row /\ P!Unused.by = P!None /\ P!Unused.stored = "never"
  /\ P!Unused.version = "1"
<1>1. /\ P!Unused \in P!Row /\ P!Unused.by = P!None /\ P!Unused.stored = "never"
      /\ P!Unused.version = "1"
  BY DEF P!Unused, P!Row, P!Types
<1>2. P!NoPrompt \in P!Prompt
  BY DEF P!NoPrompt, P!Prompt
<1>3. 1 \in P!AssetIds
  BY BoundsAssumption DEF P!AssetIds
<1> QED
  BY <1>1, <1>2, <1>3 DEF P!Idle, P!Call, P!Operations, P!Results

\* A step that leaves the rows alone.
LEMMA PosterLooks ==
  ASSUME PostersInv, NEW r \in Reqs, NEW new \in P!Call,
         postercall' = [postercall EXCEPT ![r] = new], UNCHANGED asset, postercall[r].at # "end",
         PosterCallOK(new), new.at = "prime" => PromptIsExact(new)
  PROVE  PosterDone(r)
<1>1. /\ postercall' \in [Reqs -> P!Call] /\ postercall'[r] = new
      /\ \A q \in Reqs \ {r} : postercall'[q] = postercall[q]
      /\ \A q \in Reqs : postercall[q].at = "end" => postercall'[q].at = "end"
  BY PosterReplaced
<1>2. PosterCallOK(postercall[r])'
  <2>1. \A d \in new.ended : d \in Reqs /\ postercall'[d].at = "end"
    BY <1>1 DEF PosterCallOK, P!Call
  <2> QED
    BY <1>1, <2>1 DEF PosterCallOK, P!Stored
<1>3. asset' \in [P!AssetIds -> P!Row] /\ \A a \in P!AssetIds : AssetFate(a, r)
  BY PosterTyped DEF AssetFate
<1> QED
  BY <1>1, <1>2, <1>3 DEF PosterDone

\* The call as it ends.
PosterEnded(r, result) ==
  [P!Idle EXCEPT !.at = "end", !.op = postercall[r].op, !.a = postercall[r].a,
                 !.result = result, !.ended = postercall[r].ended]

LEMMA PosterEndedTyped ==
  ASSUME PostersInv, NEW r \in Reqs, NEW result \in P!Results
  PROVE  LET new == PosterEnded(r, result)
         IN  /\ new \in P!Call /\ new.at = "end" /\ new.result = result
             /\ new.op = postercall[r].op /\ new.a = postercall[r].a
             /\ new.ended = postercall[r].ended
             /\ \A d \in new.ended : postercall[d].at = "end"
             /\ P!Ends(r, result) <=> postercall' = [postercall EXCEPT ![r] = new]
<1>1. postercall[r] \in P!Call /\ PosterCallOK(postercall[r])
  BY PosterTyped
<1> DEFINE new == PosterEnded(r, result)
<1>2. /\ new \in P!Call /\ new.at = "end" /\ new.result = result
      /\ new.op = postercall[r].op /\ new.a = postercall[r].a
      /\ new.ended = postercall[r].ended
  BY <1>1, PosterIdle DEF PosterEnded, P!Call
<1>3. P!Ends(r, result) <=> postercall' = [postercall EXCEPT ![r] = new]
  BY DEF PosterEnded, P!Ends
<1> HIDE DEF new
<1> QED
  BY <1>1, <1>2, <1>3 DEF new, PosterCallOK

\* A step that ends a call and leaves the rows alone.
LEMMA PosterEndsLooking ==
  ASSUME PostersInv, NEW r \in Reqs, NEW result \in P!Results, P!Ends(r, result), UNCHANGED asset,
         postercall[r].at # "end", result = "stream" => postercall[r].op = "generate",
         result = "fine" => postercall[r].op # "delete"
  PROVE  PosterDone(r)
<1> DEFINE new == PosterEnded(r, result)
<1>1. /\ new \in P!Call /\ new.at = "end" /\ new.result = result
      /\ new.op = postercall[r].op /\ \A d \in new.ended : postercall[d].at = "end"
      /\ postercall' = [postercall EXCEPT ![r] = new]
  BY PosterEndedTyped
<1> HIDE DEF new
<1>2. PosterCallOK(new)
  BY <1>1 DEF PosterCallOK
<1> QED
  BY <1>1, <1>2, PosterLooks

LEMMA PosterBegins ==
  ASSUME PostersInv, NEW r \in Reqs, P!Begin(r) \/ P!BeginPrompt(r)
  PROVE  PosterDone(r)
<1>1. PICK op \in P!Operations, a \in P!AssetIds : P!Begins(r, op, a)
  BY PosterIdle, BoundsAssumption DEF P!Begin, P!BeginPrompt, P!Operations, P!AssetIds
<1> DEFINE ended == {d \in Reqs : postercall[d].at = "end"}
           new == [P!Idle EXCEPT !.at = "read", !.op = op, !.a = a, !.ended = ended]
<1>2. new \in P!Call /\ new.at = "read" /\ new.ended = ended
  BY PosterIdle DEF P!Call
<1>3. postercall' = [postercall EXCEPT ![r] = new]
  BY <1>1 DEF P!Begins, P!At
<1>4. UNCHANGED asset /\ postercall[r].at = "idle"
  BY DEF P!Begin, P!BeginPrompt, P!At
<1>5. \A d \in new.ended : postercall[d].at = "end"
  BY <1>2
<1> HIDE DEF new
<1>6. PosterCallOK(new)
  BY <1>2, <1>5 DEF PosterCallOK
<1> QED
  BY <1>2, <1>3, <1>4, <1>6, PosterLooks

LEMMA PosterResults == P!Results = {"fine", "stream", "not_found", "bad_request", "unavailable", "crash"}
BY DEF P!Results

\* A step that goes on and leaves the rows alone.
LEMMA PosterGoesOn ==
  ASSUME PostersInv, NEW r \in Reqs, NEW new \in P!Call,
         postercall' = [postercall EXCEPT ![r] = new], UNCHANGED asset,
         postercall[r].at \in {"read", "list"}, new.ended = postercall[r].ended,
         \/ new.at = "list" /\ new.op = "regenerate"
         \/ new.at = "delete" /\ new.op = "delete"
         \/ new.at = "prime" /\ new.op = "generate" /\ PromptIsExact(new)
         \/ /\ new.at = "insert" /\ new.op = "regenerate"
            /\ new.version \in P!Range(Letters) =>
                 \A a \in P!AssetIds : P!Stored(a) /\ asset[a].type = new.row.type =>
                   asset[a].version # new.version
  PROVE  PosterDone(r)
<1>1. \A d \in new.ended : postercall[d].at = "end"
  BY PosterTyped DEF PosterCallOK
<1>2. PosterCallOK(new) /\ (new.at = "prime" => PromptIsExact(new))
  BY <1>1 DEF PosterCallOK
<1> QED
  BY <1>2, PosterLooks

LEMMA PosterReads ==
  ASSUME PostersInv, NEW r \in Reqs, P!Read(r) \/ P!Find(r) \/ P!List(r)
  PROVE  PosterDone(r)
<1>0. postercall[r] \in P!Call /\ asset[postercall[r].a] \in P!Row /\ PosterCallOK(postercall[r])
  BY PosterTyped
<1>1. CASE P!Read(r)
  <2>1. /\ postercall[r].at = "read" /\ postercall[r].op \in {"create", "get"} /\ UNCHANGED asset
        /\ P!Ends(r, "not_found") \/ P!Ends(r, "fine")
    BY <1>1 DEF P!Read, P!At
  <2> QED
    BY <2>1, PosterResults, PosterEndsLooking
<1>2. CASE P!Find(r)
  <2>1. /\ postercall[r].at = "read" /\ postercall[r].op \in {"regenerate", "delete"}
        /\ UNCHANGED asset
    BY <1>2 DEF P!Find, P!At
  <2>2. CASE P!Stored(postercall[r].a)
    <3> DEFINE at == IF postercall[r].op = "delete" THEN "delete" ELSE "list"
               new == [postercall[r] EXCEPT !.row = asset[postercall[r].a], !.at = at]
    <3>1. /\ new \in P!Call /\ new.at = at /\ new.op = postercall[r].op
          /\ new.ended = postercall[r].ended
      BY <1>0 DEF P!Call
    <3>2. postercall' = [postercall EXCEPT ![r] = new]
      BY <1>2, <2>2 DEF P!Find
    <3> HIDE DEF new
    <3> QED
      BY <2>1, <3>1, <3>2, PosterGoesOn
  <2>3. CASE P!Ends(r, "not_found")
    BY <2>1, <2>3, PosterResults, PosterEndsLooking
  <2> QED
    BY <1>2, <2>2, <2>3 DEF P!Find
<1>3. CASE P!List(r)
  <2> DEFINE version == P!NextVersion(P!Versions(postercall[r].row.type))
             new == [postercall[r] EXCEPT !.at = "insert", !.version = version]
  <2>1. postercall[r].at = "list" /\ UNCHANGED asset /\ postercall[r].op = "regenerate"
    BY <1>0, <1>3 DEF P!List, P!At, PosterCallOK
  <2>2. /\ version \in P!Range(Letters) \cup {"1", "Z1"}
        /\ version \in P!Range(Letters) => version \notin P!Versions(postercall[r].row.type)
    BY NextVersionIsNew
  <2>3. postercall' = [postercall EXCEPT ![r] = new]
    BY <1>3 DEF P!List
  <2> HIDE DEF version
  <2>4. /\ new \in P!Call /\ new.at = "insert" /\ new.op = "regenerate" /\ new.version = version
        /\ new.ended = postercall[r].ended /\ new.row = postercall[r].row
    BY <1>0, <2>1, <2>2 DEF P!Call
  <2>5. version \in P!Range(Letters) =>
          \A a \in P!AssetIds : P!Stored(a) /\ asset[a].type = new.row.type =>
            asset[a].version # version
    BY <2>2, <2>4 DEF P!Versions
  <2> HIDE DEF new
  <2> QED
    BY <2>1, <2>3, <2>4, <2>5, PosterGoesOn
<1> QED
  BY <1>1, <1>2, <1>3

LEMMA PosterPrompts ==
  ASSUME PostersInv, NEW r \in Reqs, P!StepPrompt(r)
  PROVE  PosterDone(r)
<1>0. postercall[r] \in P!Call /\ PosterCallOK(postercall[r])
  BY PosterTyped
<1>1. CASE P!Refuse(r)
  <2>1. /\ postercall[r].at = "read" /\ postercall[r].op = "generate" /\ UNCHANGED asset
        /\ P!Ends(r, "bad_request") \/ P!Ends(r, "not_found")
    BY <1>1 DEF P!Refuse, P!At
  <2> QED
    BY <2>1, PosterResults, PosterEndsLooking
<1>2. CASE P!Prime(r)
  <2>1. /\ postercall[r].at = "prime" /\ postercall[r].op = "generate" /\ UNCHANGED asset
        /\ P!Ends(r, "unavailable") \/ P!Ends(r, "crash") \/ P!Ends(r, "stream")
    BY <1>0, <1>2 DEF P!Prime, P!At, PosterCallOK
  <2> QED
    BY <2>1, PosterResults, PosterEndsLooking
<1>3. CASE P!Prepare(r)
  <2>1. postercall[r].at = "read" /\ postercall[r].op = "generate" /\ UNCHANGED asset
    BY <1>3 DEF P!Prepare, P!At
  <2>2. CASE P!Ends(r, "bad_request")
    BY <2>1, <2>2, PosterResults, PosterEndsLooking
  <2>3. ASSUME NEW mode \in P!Modes, NEW slot \in P!Slots \cup {P!None}, NEW known \in Knowledge,
               P!SlotsOf(mode, slot) # {},
               postercall' = [postercall EXCEPT
                  ![r].at = "prime", ![r].known = known,
                  ![r].edit = IF mode = "edit" THEN slot ELSE P!None,
                  ![r].prompt = P!PromptOf(mode, P!SlotsOf(mode, slot), known)]
        PROVE  PosterDone(r)
    <3> DEFINE edit == IF mode = "edit" THEN slot ELSE P!None
               prompt == P!PromptOf(mode, P!SlotsOf(mode, slot), known)
               new == [postercall[r] EXCEPT !.at = "prime", !.known = known, !.edit = edit,
                                            !.prompt = prompt]
    <3>1. known \in SUBSET P!Sources
      BY KnowledgeAssumption
    <3>2. postercall' = [postercall EXCEPT ![r] = new]
      BY <2>3
    <3>3. new.known = known /\ new.edit = edit /\ new.prompt = prompt /\ new.at = "prime"
          /\ new.op = "generate" /\ new.ended = postercall[r].ended
      BY <1>0, <2>1 DEF P!Call
    <3>4. /\ new.prompt \in P!Prompt /\ new.edit \in P!Slots \cup {P!None}
          /\ PromptIsExact(new)
      <4> HIDE DEF new
      <4> QED
        BY <2>3, <3>1, <3>3, PromptsOfSlots
    <3>5. new \in P!Call
      <4>1. prompt \in P!Prompt /\ edit \in P!Slots \cup {P!None}
        BY <3>3, <3>4
      <4> HIDE DEF prompt, edit
      <4> QED
        BY <1>0, <3>1, <4>1 DEF P!Call
    <3> HIDE DEF new
    <3> QED
      BY <2>1, <3>2, <3>3, <3>4, <3>5, PosterGoesOn
  <2> QED
    BY <1>3, <2>2, <2>3 DEF P!Prepare
<1> QED
  BY <1>1, <1>2, <1>3 DEF P!StepPrompt

\* A step that writes the row a.
LEMMA PosterWrites ==
  ASSUME PostersInv, NEW r \in Reqs, NEW a \in P!AssetIds, NEW row \in P!Row,
         asset' = [asset EXCEPT ![a] = row], P!Ends(r, "fine"), postercall[r].at # "end",
         AssetFate(a, r), postercall[r].op = "delete" => a = postercall[r].a /\ row.stored = "deleted"
  PROVE  PosterDone(r)
<1> DEFINE new == PosterEnded(r, "fine")
<1>1. /\ new \in P!Call /\ new.at = "end" /\ new.result = "fine"
      /\ new.op = postercall[r].op /\ new.a = postercall[r].a /\ new.ended = postercall[r].ended
      /\ \A d \in new.ended : postercall[d].at = "end"
      /\ postercall' = [postercall EXCEPT ![r] = new]
  BY PosterResults, PosterEndedTyped
<1> HIDE DEF new
<1>2. /\ asset' \in [P!AssetIds -> P!Row] /\ asset'[a] = row
      /\ \A b \in P!AssetIds \ {a} : asset'[b] = asset[b]
  BY PosterTyped
<1>3. \A b \in P!AssetIds : AssetFate(b, r)
  BY <1>2 DEF AssetFate
<1>4. /\ postercall' \in [Reqs -> P!Call] /\ postercall'[r] = new
      /\ \A q \in Reqs \ {r} : postercall'[q] = postercall[q]
      /\ \A q \in Reqs : postercall[q].at = "end" => postercall'[q].at = "end"
  BY <1>1, PosterReplaced
<1>5. PosterCallOK(postercall[r])'
  <2>1. \A d \in new.ended : d \in Reqs /\ postercall'[d].at = "end"
    BY <1>1, <1>4 DEF P!Call
  <2>2. new.op = "delete" => asset'[new.a].stored = "deleted"
    BY <1>1, <1>2
  <2> QED
    BY <1>1, <1>4, <2>1, <2>2 DEF PosterCallOK
<1> QED
  BY <1>1, <1>2, <1>3, <1>4, <1>5 DEF PosterDone

LEMMA PosterStores ==
  ASSUME PostersInv, NEW r \in Reqs, P!Create(r) \/ P!Insert(r) \/ P!Delete(r)
  PROVE  PosterDone(r)
<1>0. /\ postercall[r] \in P!Call /\ postercall[r].a \in P!AssetIds
      /\ PosterCallOK(postercall[r]) /\ asset \in [P!AssetIds -> P!Row]
  BY PosterTyped
\* A row that is new.
<1>n. ASSUME NEW a \in P!AssetIds, NEW row \in P!Row, asset' = [asset EXCEPT ![a] = row],
             asset[a].stored = "never", row.by = r, P!Ends(r, "fine"),
             postercall[r].at \in {"read", "insert"}, postercall[r].op \in {"create", "regenerate"},
             row.version \in P!Range(Letters) => \A b \in P!AssetIds :
               P!Stored(b) /\ asset[b].type = row.type /\ asset[b].version = row.version
               => asset[b].by # P!None /\ asset[b].by \notin postercall[r].ended
      PROVE  PosterDone(r)
  <2>1. asset'[a] = row /\ \A b \in P!AssetIds \ {a} : asset'[b] = asset[b]
    BY <1>0, <1>n
  <2>2. AssetFate(a, r)
    BY <1>n, <2>1 DEF AssetFate
  <2> QED
    BY <1>n, <2>2, PosterWrites
<1>1. CASE P!Create(r)
  <2>1. postercall[r].at = "read" /\ postercall[r].op = "create"
    BY <1>1 DEF P!Create, P!At
  <2>2. CASE P!Ends(r, "bad_request") /\ UNCHANGED asset
    BY <2>1, <2>2, PosterResults, PosterEndsLooking
  <2>3. CASE /\ \E a \in P!Fresh, type \in P!Types :
                  asset' = [asset EXCEPT ![a] = [P!Unused EXCEPT !.stored = "yes", !.type = type,
                                                                 !.by = r]]
             /\ P!Ends(r, "fine")
    <3>1. PICK a \in P!Fresh, type \in P!Types :
                  asset' = [asset EXCEPT ![a] = [P!Unused EXCEPT !.stored = "yes", !.type = type,
                                                                 !.by = r]]
      BY <2>3
    <3> DEFINE row == [P!Unused EXCEPT !.stored = "yes", !.type = type, !.by = r]
    <3>2. row \in P!Row /\ row.by = r /\ row.version = "1"
      BY PosterIdle DEF P!Row
    <3>3. a \in P!AssetIds /\ asset[a].stored = "never"
      BY DEF P!Fresh
    <3>4. "1" \notin P!Range(Letters)
      BY LettersAssumption DEF P!Range
    <3>5. asset' = [asset EXCEPT ![a] = row]
      BY <3>1
    <3> HIDE DEF row
    <3> QED
      BY <1>n, <2>1, <2>3, <3>2, <3>3, <3>4, <3>5
  <2> QED
    BY <1>1, <2>2, <2>3 DEF P!Create
<1>2. CASE P!Insert(r)
  <2>1. postercall[r].at = "insert" /\ postercall[r].op = "regenerate" /\ P!Ends(r, "fine")
    BY <1>0, <1>2 DEF P!Insert, P!At, PosterCallOK
  <2>2. PICK a \in P!Fresh :
          asset' = [asset EXCEPT ![a] = [postercall[r].row EXCEPT
                                           !.version = postercall[r].version, !.by = r]]
    BY <1>2 DEF P!Insert
  <2> DEFINE row == [postercall[r].row EXCEPT !.version = postercall[r].version, !.by = r]
  <2>3. /\ row \in P!Row /\ row.by = r /\ row.version = postercall[r].version
        /\ row.type = postercall[r].row.type
    BY <1>0 DEF P!Row, P!Call
  <2>4. a \in P!AssetIds /\ asset[a].stored = "never"
    BY DEF P!Fresh
  <2>5. asset' = [asset EXCEPT ![a] = row]
    BY <2>2
  <2>6. row.version \in P!Range(Letters) => \A b \in P!AssetIds :
          P!Stored(b) /\ asset[b].type = row.type /\ asset[b].version = row.version
          => asset[b].by # P!None /\ asset[b].by \notin postercall[r].ended
    BY <1>0, <2>1, <2>3 DEF PosterCallOK
  <2> HIDE DEF row
  <2> QED
    BY <1>n, <2>1, <2>3, <2>4, <2>5, <2>6
<1>3. CASE P!Delete(r)
  <2>k. PICK a \in P!AssetIds : a = postercall[r].a
    BY <1>0
  <2> DEFINE row == [asset[a] EXCEPT !.stored = "deleted"]
  <2>1. /\ postercall[r].at = "delete" /\ P!Ends(r, "fine")
        /\ asset' = [asset EXCEPT ![a] = row]
    BY <1>3, <2>k DEF P!Delete, P!At
  <2>2. row \in P!Row /\ row.stored = "deleted"
    BY <1>0 DEF P!Row
  <2>3. AssetFate(a, r)
    BY <1>0, <2>1 DEF AssetFate
  <2> HIDE DEF row
  <2> QED
    BY <2>k, <2>1, <2>2, <2>3, PosterWrites
<1> QED
  BY <1>1, <1>2, <1>3

LEMMA PostersStep ==
  ASSUME PostersInv, NEW r \in Reqs,
         P!Begin(r) \/ P!Step(r) \/ P!BeginPrompt(r) \/ P!StepPrompt(r)
  PROVE  PostersInv' /\ \A q \in Reqs : postercall[q].at = "end" => postercall'[q] = postercall[q]
<1>1. PosterDone(r)
  BY PosterBegins, PosterReads, PosterPrompts, PosterStores DEF P!Step
<1> QED
  BY <1>1, PosterDoneKeeps DEF PosterDone

LEMMA PostersOutside ==
  ASSUME PostersInv, UNCHANGED posters
  PROVE  PostersInv' /\ UNCHANGED postercall
<1>1. asset' = asset /\ postercall' = postercall
  BY DEF posters
<1>2. P!TypeOK' /\ P!LettersTellVersions'
  BY <1>1 DEF PostersInv, P!TypeOK, P!LettersTellVersions, P!Stored, P!Overlap
<1>3. P!PromptsAreExact'
  <2>1. \A c \in Reqs : postercall[c].at = "prime" => PromptIsExact(postercall[c])
    BY DEF PostersInv, P!PromptsAreExact, P!At, PromptIsExact
  <2>2. \A c \in Reqs : postercall'[c].at = "prime" => PromptIsExact(postercall'[c])
    BY <1>1, <2>1
  <2> QED
    BY <2>2 DEF P!PromptsAreExact, P!At, PromptIsExact
<1> QED
  BY <1>1, <1>2, <1>3 DEF PostersInv, PosterCallOK, P!Stored

LEMMA PostersInit == P!Init => PostersInv
<1> SUFFICES ASSUME P!Init
             PROVE  PostersInv
  OBVIOUS
<1>1. PICK versions \in {<<>>, <<"1">>, <<Letters[1]>>, <<"1", Letters[1]>>} :
        asset = [a \in P!AssetIds |->
                   IF a \in DOMAIN versions
                   THEN [P!Unused EXCEPT !.stored = "yes", !.version = versions[a]] ELSE P!Unused]
  BY DEF P!Init
<1>2. Letters[1] \in P!Range(Letters) /\ "1" \notin P!Range(Letters)
  <2>1. 1 \in DOMAIN Letters
    BY LettersAssumption
  <2> QED
    BY <2>1, LettersAssumption DEF P!Range
<1>3. /\ \A i \in DOMAIN versions : versions[i] \in P!Range(Letters) \cup {"1", "Z1"}
      /\ \A i, j \in DOMAIN versions : i # j => versions[i] # versions[j]
  BY <1>2
<1>4. ASSUME NEW a \in P!AssetIds
      PROVE  /\ asset[a] \in P!Row /\ asset[a].by = P!None
             /\ asset[a].stored = "yes" => a \in DOMAIN versions /\ asset[a].version = versions[a]
  BY <1>1, <1>3, PosterIdle DEF P!Row
<1>5. postercall = [r \in Reqs |-> P!Idle]
  BY DEF P!Init
<1>6. P!TypeOK
  BY <1>1, <1>4, <1>5, PosterIdle DEF P!TypeOK
<1>7. P!LettersTellVersions
  BY <1>3, <1>4 DEF P!LettersTellVersions, P!Stored
<1>8. P!PromptsAreExact
  BY <1>5, PosterIdle DEF P!PromptsAreExact, P!At
<1>9. \A r \in Reqs : PosterCallOK(postercall[r])
  BY <1>5, PosterIdle DEF PosterCallOK
<1> QED
  BY <1>4, <1>6, <1>7, <1>8, <1>9 DEF PostersInv

-----------------------------------------------------------------------------
(* Projects *)

LEMMA ProjectTyped ==
  ASSUME ProjectsInv
  PROVE  /\ projectcall \in [Reqs -> J!Call] /\ project \in [J!Fields -> Texts]
         /\ \A r \in Reqs : projectcall[r] \in J!Call /\ ProjectOwn(r, projectcall[r])
                            /\ ProjectSeen(r, projectcall[r])
         /\ ids \in Reqs \cup {J!None} /\ made \subseteq Reqs
         /\ account \in BOOLEAN /\ document \in BOOLEAN
BY DEF ProjectsInv, J!TypeOK, J!ProjectRow

\* The invariant contains the promises to clients.
LEMMA ProjectsArePromised == ProjectsInv => J!FormsAreKept /\ J!IdsAreKept
<1> SUFFICES ASSUME ProjectsInv
             PROVE  J!FormsAreKept /\ J!IdsAreKept
  OBVIOUS
<1>1. J!FormsAreKept
  <2> SUFFICES ASSUME account, NEW c \in Reqs, J!Fine(c, {"update", "onboard"}), NEW f \in J!Fields,
                      projectcall[c].given[f] \notin {J!None, project[f]}
               PROVE  \E d \in Reqs : d \notin projectcall[c].ended
                                      /\ projectcall[d].given[f] = project[f]
    BY DEF J!FormsAreKept
  <2>1. GivenLater(projectcall[c], f)
    BY ProjectTyped DEF ProjectSeen
  <2> QED
    BY <2>1 DEF GivenLater
<1>2. J!IdsAreKept
  <2> SUFFICES ASSUME account, NEW c \in Reqs, J!Fine(c, {"campaign"})
               PROVE  ids = projectcall[c].ids \/ Excused(c)
    BY DEF J!IdsAreKept, Excused
  <2> QED
    BY ProjectTyped DEF ProjectSeen, J!Fine, J!Is
<1> QED
  BY <1>1, <1>2

\* A step of r: what it does to its own call, to the columns and to the ids.
ProjectDone(r) ==
  /\ J!TypeOK' /\ J!NoOrphans' /\ (account' => account) /\ (document' => document)
  /\ \A q \in Reqs \ {r} : projectcall'[q] = projectcall[q]
  /\ projectcall[r].at # "end" /\ projectcall'[r].at # "idle"
  /\ projectcall[r].at # "idle" =>
       /\ projectcall'[r].op = projectcall[r].op /\ projectcall'[r].given = projectcall[r].given
       /\ projectcall'[r].ended = projectcall[r].ended
  /\ ProjectOwn(r, projectcall[r])'

ProjectWrote(r) == account' =>
  /\ \A f \in J!Fields : project'[f] = project[f] \/ projectcall'[r].given[f] = project'[f]
  /\ \/ ids' = ids
     \/ /\ projectcall[r].op \in {"campaign", "preview", "edit"} /\ projectcall[r].at # "idle"
        /\ \/ projectcall[r].at = "backfill" /\ ids' = r
           \/ J!Fine(r, {"edit"})'

ProjectSaw(r) == account' =>
  /\ projectcall'[r].at = "write" /\ projectcall'[r].op \in {"update", "onboard"} =>
       projectcall'[r].seen = project'
  /\ J!Fine(r, {"update", "onboard"})' => \A f \in J!Fields :
       \/ projectcall'[r].given[f] \in {J!None, project'[f]}
       \/ /\ projectcall[r].at = "write" /\ projectcall[r].op \in {"update", "onboard"}
          /\ project'[f] = project[f] /\ projectcall'[r].given[f] = projectcall[r].seen[f]
  /\ projectcall'[r].at = "backfill" =>
       projectcall[r].at # "idle" /\ ids = J!None /\ ids' = ids
  /\ projectcall'[r].at = "check" => ids' = projectcall'[r].ids
  /\ J!Fine(r, {"campaign"})' =>
       projectcall[r].at = "check" /\ ids' = ids /\ projectcall'[r].ids = projectcall[r].ids

LEMMA ProjectCallsStay ==
  ASSUME ProjectsInv, NEW r \in Reqs, ProjectDone(r), NEW q \in Reqs
  PROVE  /\ projectcall[q].at = "end" => projectcall'[q] = projectcall[q]
         /\ projectcall[q].at # "idle" =>
              /\ projectcall'[q].at # "idle" /\ projectcall'[q].op = projectcall[q].op
              /\ projectcall'[q].given = projectcall[q].given
              /\ projectcall'[q].ended = projectcall[q].ended
         /\ \A d \in projectcall[q].ended : d \in Reqs /\ d # r /\ projectcall[d].at = "end"
                                            /\ projectcall'[d] = projectcall[d]
<1>1. \A d \in projectcall[q].ended : d \in Reqs /\ projectcall[d].at = "end"
  BY ProjectTyped DEF ProjectOwn, J!Call
<1>2. CASE q = r
  BY <1>1, <1>2 DEF ProjectDone
<1>3. CASE q # r
  BY <1>1, <1>3 DEF ProjectDone
<1> QED
  BY <1>2, <1>3

\* What one has seen of a column remains accounted for, whoever writes it.
LEMMA LaterStays ==
  ASSUME ProjectsInv, NEW r \in Reqs, ProjectDone(r), ProjectWrote(r), account',
         NEW x \in J!Call, r \notin x.ended, NEW f \in J!Fields, NEW v,
         v = project[f] \/ GivenLater(x, f)
  PROVE  v = project'[f] \/ GivenLater(x, f)'
<1>1. CASE project'[f] = project[f]
  <2>1. CASE v = project[f]
    BY <1>1, <2>1
  <2>2. CASE GivenLater(x, f)
    <3>1. PICK d \in Reqs \ x.ended :
            projectcall[d].at # "idle" /\ projectcall[d].given[f] = project[f]
      BY <2>2 DEF GivenLater
    <3>2. projectcall'[d].at # "idle" /\ projectcall'[d].given = projectcall[d].given
      BY <3>1, ProjectCallsStay
    <3> QED
      BY <1>1, <3>1, <3>2 DEF GivenLater
  <2> QED
    BY <2>1, <2>2
<1>2. CASE project'[f] # project[f]
  <2>1. projectcall'[r].given[f] = project'[f] /\ projectcall'[r].at # "idle"
    BY <1>2 DEF ProjectWrote, ProjectDone
  <2> QED
    BY <2>1 DEF GivenLater
<1> QED
  BY <1>1, <1>2

LEMMA ExcusedStays ==
  ASSUME ProjectsInv, NEW r \in Reqs, ProjectDone(r), NEW q \in Reqs, projectcall[q].at # "idle",
         Excused(q)
  PROVE  Excused(q)'
<1>0. projectcall'[q].ended = projectcall[q].ended
  BY ProjectCallsStay
<1>1. CASE \E d \in Reqs : J!Is(d, {"campaign", "preview", "edit"}) /\ J!Overlap(q, d)
  <2>1. PICK d \in Reqs : J!Is(d, {"campaign", "preview", "edit"}) /\ J!Overlap(q, d)
    BY <1>1
  <2>2. projectcall[d].at # "idle"
    BY <2>1 DEF J!Overlap, J!At
  <2>3. /\ projectcall'[d].at # "idle" /\ projectcall'[d].op = projectcall[d].op
        /\ projectcall'[d].ended = projectcall[d].ended
    BY <2>2, ProjectCallsStay
  <2>4. J!Is(d, {"campaign", "preview", "edit"})' /\ J!Overlap(q, d)'
    BY <1>0, <2>1, <2>3 DEF J!Is, J!Overlap, J!At
  <2> QED
    BY <2>4 DEF Excused
<1>2. CASE \E d \in Reqs : J!Fine(d, {"edit"}) /\ q \in projectcall[d].ended
  <2>1. PICK d \in Reqs : J!Fine(d, {"edit"}) /\ q \in projectcall[d].ended
    BY <1>2
  <2>2. projectcall'[d] = projectcall[d]
    BY <2>1, ProjectCallsStay DEF J!Fine, J!At
  <2>3. J!Fine(d, {"edit"})' /\ q \in projectcall'[d].ended
    BY <2>1, <2>2 DEF J!Fine, J!Is, J!At
  <2> QED
    BY <2>3 DEF Excused
<1> QED
  BY <1>1, <1>2 DEF Excused

\* Ids that one has been told, or will be, remain accounted for, whoever makes them up or
\* replaces them.
LEMMA IdsStay ==
  ASSUME ProjectsInv, NEW r \in Reqs, ProjectDone(r), ProjectWrote(r), account',
         NEW q \in Reqs \ {r}, projectcall[q].op = "campaign",
         projectcall[q].at = "check" \/ J!Fine(q, {"campaign"})
  PROVE  (ids = projectcall[q].ids \/ Excused(q))'
<1>0. account /\ projectcall'[q] = projectcall[q] /\ projectcall[q].at # "idle"
  BY DEF ProjectDone, J!Fine, J!At
<1>1. ids = projectcall[q].ids \/ Excused(q)
  BY <1>0, ProjectTyped DEF ProjectSeen
<1>2. CASE Excused(q)
  BY <1>0, <1>2, ExcusedStays
<1>3. CASE ids = projectcall[q].ids /\ ids' = ids
  BY <1>0, <1>3
<1>4. CASE ids' # ids
  <2>1. /\ projectcall[r].op \in {"campaign", "preview", "edit"} /\ projectcall[r].at # "idle"
        /\ projectcall[r].at = "backfill" \/ J!Fine(r, {"edit"})'
    BY <1>4 DEF ProjectWrote
  <2>2. /\ projectcall'[r].at # "idle" /\ projectcall'[r].op = projectcall[r].op
        /\ projectcall'[r].ended = projectcall[r].ended
    BY <2>1, ProjectCallsStay
  <2>3. CASE q \notin projectcall[r].ended
    <3>1. r \notin projectcall[q].ended
      BY ProjectCallsStay
    <3>2. J!Is(r, {"campaign", "preview", "edit"})' /\ J!Overlap(q, r)'
      BY <1>0, <2>1, <2>2, <2>3, <3>1 DEF J!Is, J!Overlap, J!At
    <3> QED
      BY <3>2 DEF Excused
  <2>4. CASE q \in projectcall[r].ended /\ projectcall[r].at = "backfill"
    <3>1. projectcall[q].at = "end"
      BY <2>4, ProjectCallsStay
    <3>2. J!Fine(q, {"campaign"})
      BY <3>1
    <3>3. Excused(q)
      BY <1>0, <2>4, <3>2, ProjectTyped DEF ProjectSeen
    <3> QED
      BY <1>0, <3>3, ExcusedStays
  <2>5. CASE q \in projectcall[r].ended /\ J!Fine(r, {"edit"})'
    BY <2>2, <2>5 DEF Excused
  <2> QED
    BY <2>1, <2>3, <2>4, <2>5
<1> QED
  BY <1>1, <1>2, <1>3, <1>4

LEMMA OtherProjectsKeep ==
  ASSUME ProjectsInv, NEW r \in Reqs, ProjectDone(r), ProjectWrote(r), NEW q \in Reqs \ {r}
  PROVE  (ProjectOwn(q, projectcall[q]) /\ ProjectSeen(q, projectcall[q]))'
<1>k. PICK x \in J!Call : x = projectcall[q] /\ x = projectcall'[q]
  BY ProjectTyped DEF ProjectDone
<1>d. \A d \in projectcall[q].ended : d \in Reqs /\ d # r /\ projectcall'[d].at = "end"
                                     /\ projectcall'[d] = projectcall[d]
  <2>1. q \in Reqs
    OBVIOUS
  <2> QED
    BY <2>1, ProjectCallsStay
<1>0. ProjectOwn(q, x) /\ ProjectSeen(q, x) /\ r \notin x.ended
  BY <1>k, <1>d, ProjectTyped
<1>1. ProjectOwn(q, x)'
  <2>1. \A d \in x.ended : projectcall'[d].at = "end"
    BY <1>k, <1>d
  <2> QED
    BY <1>0, <2>1 DEF ProjectOwn, ProjectDone
<1>2. ASSUME account'
      PROVE  ProjectSeen(q, x)'
  <2>a. account
    BY <1>2 DEF ProjectDone
  <2>1. ASSUME x.at = "write", x.op \in {"update", "onboard"}, NEW f \in J!Fields
        PROVE  x.seen[f] = project'[f] \/ GivenLater(x, f)'
    <3>1. x.seen[f] = project[f] \/ GivenLater(x, f)
      BY <1>0, <2>a, <2>1 DEF ProjectSeen
    <3> QED
      BY <1>0, <1>2, <3>1, LaterStays
  <2>2. ASSUME J!Fine(q, {"update", "onboard"})', NEW f \in J!Fields
        PROVE  x.given[f] \in {J!None, project'[f]} \/ GivenLater(x, f)'
    <3>1. J!Fine(q, {"update", "onboard"})
      BY <1>k, <2>2 DEF J!Fine, J!Is, J!At
    <3>2. x.given[f] \in {J!None, project[f]} \/ GivenLater(x, f)
      BY <1>0, <2>a, <3>1 DEF ProjectSeen
    <3>3. x.given[f] = project[f] \/ GivenLater(x, f) => x.given[f] = project'[f] \/ GivenLater(x, f)'
      BY <1>0, <1>2, LaterStays
    <3> QED
      BY <3>2, <3>3
  <2>3. ASSUME x.at = "backfill", NEW d \in x.ended, J!Fine(d, {"campaign"})'
        PROVE  Excused(d)'
    <3>1. d \in Reqs /\ projectcall'[d] = projectcall[d] /\ projectcall[d].at = "end"
      BY <1>k, ProjectCallsStay
    <3>2. J!Fine(d, {"campaign"})
      BY <2>3, <3>1 DEF J!Fine, J!Is, J!At
    <3>3. Excused(d)
      BY <1>0, <2>a, <2>3, <3>2 DEF ProjectSeen
    <3> QED
      BY <3>1, <3>3, ExcusedStays
  <2>4. ASSUME x.op = "campaign", x.at = "check" \/ J!Fine(q, {"campaign"})'
        PROVE  ids' = x.ids \/ Excused(q)'
    <3>1. x.at = "check" \/ J!Fine(q, {"campaign"})
      BY <1>k, <2>4 DEF J!Fine, J!Is, J!At
    <3>2. (ids = projectcall[q].ids \/ Excused(q))'
      BY <1>k, <1>2, <2>4, <3>1, IdsStay
    <3> QED
      BY <1>k, <3>2
  <2> QED
    BY <2>1, <2>2, <2>3, <2>4 DEF ProjectSeen
<1>3. ProjectSeen(q, x)'
  BY <1>2 DEF ProjectSeen
<1> QED
  BY <1>k, <1>1, <1>3

LEMMA OwnProjectKeeps ==
  ASSUME ProjectsInv, NEW r \in Reqs, ProjectDone(r), ProjectWrote(r), ProjectSaw(r)
  PROVE  ProjectSeen(r, projectcall[r])'
<1>k. PICK x, y : x = projectcall[r] /\ y = projectcall'[r]
  OBVIOUS
<1>0. x \in J!Call /\ ProjectOwn(r, x) /\ ProjectSeen(r, x) /\ r \notin x.ended
  BY <1>k, ProjectTyped, ProjectCallsStay
<1>1. ASSUME account'
      PROVE  ProjectSeen(r, y)'
  <2>a. account
    BY <1>1 DEF ProjectDone
  <2>e. x.at # "idle" => y.op = x.op /\ y.ended = x.ended
    BY <1>k DEF ProjectDone
  <2>1. ASSUME y.at = "write", y.op \in {"update", "onboard"}, NEW f \in J!Fields
        PROVE  y.seen[f] = project'[f] \/ GivenLater(y, f)'
    BY <1>k, <1>1, <2>1 DEF ProjectSaw
  <2>2. ASSUME J!Fine(r, {"update", "onboard"})', NEW f \in J!Fields
        PROVE  y.given[f] \in {J!None, project'[f]} \/ GivenLater(y, f)'
    <3>1. CASE /\ x.at = "write" /\ x.op \in {"update", "onboard"}
               /\ project'[f] = project[f] /\ y.given[f] = x.seen[f]
      <4>1. x.seen[f] = project[f] \/ GivenLater(x, f)
        BY <1>0, <2>a, <3>1 DEF ProjectSeen
      <4>2. x.seen[f] = project'[f] \/ GivenLater(x, f)'
        BY <1>0, <1>1, <4>1, LaterStays
      <4> QED
        BY <2>e, <3>1, <4>2 DEF GivenLater
    <3> QED
      BY <1>k, <1>1, <2>2, <3>1 DEF ProjectSaw
  <2>3. ASSUME y.at = "backfill", NEW d \in y.ended, J!Fine(d, {"campaign"})'
        PROVE  Excused(d)'
    <3>0. x.at # "idle" /\ ids = J!None
      BY <1>k, <1>1, <2>3 DEF ProjectSaw
    <3>1. d \in Reqs /\ projectcall'[d] = projectcall[d] /\ projectcall[d].at = "end"
      BY <1>k, <2>e, <3>0, ProjectCallsStay
    <3>2. J!Fine(d, {"campaign"}) /\ projectcall[d].op = "campaign"
      BY <2>3, <3>1 DEF J!Fine, J!Is, J!At
    <3>3. ProjectOwn(d, projectcall[d]) /\ ProjectSeen(d, projectcall[d])
      BY <3>1, ProjectTyped
    <3>4. projectcall[d].ids # J!None
      BY <3>2, <3>3 DEF ProjectOwn, J!Fine, J!At
    <3>5. ids = projectcall[d].ids \/ Excused(d)
      BY <2>a, <3>2, <3>3 DEF ProjectSeen
    <3> QED
      BY <3>0, <3>1, <3>4, <3>5, ExcusedStays
  <2>4. ASSUME y.op = "campaign", y.at = "check" \/ J!Fine(r, {"campaign"})'
        PROVE  ids' = y.ids \/ Excused(r)'
    <3>1. CASE y.at = "check"
      BY <1>k, <1>1, <3>1 DEF ProjectSaw
    <3>2. CASE J!Fine(r, {"campaign"})'
      <4>1. x.at = "check" /\ ids' = ids /\ y.ids = x.ids
        BY <1>k, <1>1, <3>2 DEF ProjectSaw
      <4>2. ids = x.ids \/ Excused(r)
        BY <1>0, <2>a, <2>e, <2>4, <4>1 DEF ProjectSeen
      <4>3. projectcall[r].at # "idle"
        BY <1>k, <4>1
      <4> QED
        BY <4>1, <4>2, <4>3, ExcusedStays
    <3> QED
      BY <2>4, <3>1, <3>2
  <2> QED
    BY <2>1, <2>2, <2>3, <2>4 DEF ProjectSeen
<1>2. ProjectSeen(r, y)'
  BY <1>1 DEF ProjectSeen
<1> QED
  BY <1>k, <1>2

LEMMA ProjectDoneKeeps ==
  ASSUME ProjectsInv, NEW r \in Reqs, ProjectDone(r), ProjectWrote(r), ProjectSaw(r)
  PROVE  ProjectsInv'
<1>1. ASSUME NEW q \in Reqs
      PROVE  (ProjectOwn(q, projectcall[q]) /\ ProjectSeen(q, projectcall[q]))'
  <2>1. CASE q = r
    BY <2>1, OwnProjectKeeps DEF ProjectDone
  <2>2. CASE q # r
    BY <2>2, OtherProjectsKeep
  <2> QED
    BY <2>1, <2>2
<1> QED
  BY <1>1 DEF ProjectsInv, ProjectDone

LEMMA ProjectIdle ==
  /\ J!Idle \in J!Call /\ J!Blank \in J!ProjectRow /\ J!Idle.at = "idle" /\ J!Idle.ended = {}
  /\ J!Idle.result = "fine" /\ J!Idle.op = "look"
<1>1. J!Blank \in J!ProjectRow
  BY RowsAssumption DEF J!Blank, J!ProjectRow
<1> QED
  BY <1>1 DEF J!Idle, J!Call, J!Operations, J!Results, J!Form

LEMMA ProjectReplaced ==
  ASSUME ProjectsInv, NEW r \in Reqs, NEW new \in J!Call,
         projectcall' = [projectcall EXCEPT ![r] = new], projectcall[r].at # "end"
  PROVE  /\ projectcall' \in [Reqs -> J!Call] /\ projectcall'[r] = new
         /\ \A q \in Reqs \ {r} : projectcall'[q] = projectcall[q]
         /\ \A q \in Reqs : projectcall[q].at = "end" => projectcall'[q].at = "end"
BY ProjectTyped

\* The call as it ends.
ProjectEnded(r, result) ==
  [projectcall[r] EXCEPT !.at = "end", !.result = result, !.seen = J!Blank]

LEMMA ProjectEnds ==
  ASSUME ProjectsInv, NEW r \in Reqs, NEW result \in J!Results, J!Ends(r, result),
         projectcall[r].at # "end"
  PROVE  /\ projectcall' \in [Reqs -> J!Call]
         /\ \A q \in Reqs \ {r} : projectcall'[q] = projectcall[q]
         /\ \A d \in projectcall'[r].ended : projectcall'[d].at = "end"
         /\ projectcall'[r].at = "end" /\ projectcall'[r].result = result
         /\ projectcall'[r].op = projectcall[r].op /\ projectcall'[r].given = projectcall[r].given
         /\ projectcall'[r].ended = projectcall[r].ended
         /\ projectcall'[r].ids = projectcall[r].ids
<1> DEFINE new == ProjectEnded(r, result)
<1>1. /\ new \in J!Call /\ new.at = "end" /\ new.result = result
      /\ new.op = projectcall[r].op /\ new.given = projectcall[r].given
      /\ new.ended = projectcall[r].ended /\ new.ids = projectcall[r].ids
  BY ProjectTyped, ProjectIdle DEF ProjectEnded, J!Call
<1>2. projectcall' = [projectcall EXCEPT ![r] = new]
  BY DEF J!Ends, ProjectEnded
<1> HIDE DEF new
<1>3. /\ projectcall' \in [Reqs -> J!Call] /\ projectcall'[r] = new
      /\ \A q \in Reqs \ {r} : projectcall'[q] = projectcall[q]
      /\ \A q \in Reqs : projectcall[q].at = "end" => projectcall'[q].at = "end"
  BY <1>1, <1>2, ProjectReplaced
<1>4. \A d \in projectcall[r].ended : d \in Reqs /\ projectcall[d].at = "end"
  BY ProjectTyped DEF ProjectOwn, J!Call
<1> QED
  BY <1>1, <1>3, <1>4

\* A step that ends a call and leaves the rows alone.
LEMMA ProjectEndsLooking ==
  ASSUME ProjectsInv, NEW r \in Reqs, NEW result \in J!Results, J!Ends(r, result),
         UNCHANGED J!rows, projectcall[r].at \notin {"idle", "end"},
         result = "fine" => projectcall[r].op \notin {"remove", "close", "update", "onboard"},
         result = "fine" /\ projectcall[r].op = "campaign" => projectcall[r].at = "check"
  PROVE  ProjectDone(r) /\ ProjectWrote(r) /\ ProjectSaw(r)
<1>0. /\ account' = account /\ made' = made /\ project' = project /\ document' = document
      /\ ids' = ids
  BY DEF J!rows
<1>1. /\ projectcall' \in [Reqs -> J!Call]
      /\ \A q \in Reqs \ {r} : projectcall'[q] = projectcall[q]
      /\ \A d \in projectcall'[r].ended : projectcall'[d].at = "end"
      /\ projectcall'[r].at = "end" /\ projectcall'[r].result = result
      /\ projectcall'[r].op = projectcall[r].op /\ projectcall'[r].given = projectcall[r].given
      /\ projectcall'[r].ended = projectcall[r].ended
      /\ projectcall'[r].ids = projectcall[r].ids
  BY ProjectEnds
<1>2. ProjectOwn(r, projectcall[r])'
  BY <1>1, ProjectTyped DEF ProjectOwn
<1>3. J!TypeOK' /\ J!NoOrphans'
  BY <1>0, <1>1 DEF ProjectsInv, J!TypeOK, J!NoOrphans
<1>4. ProjectDone(r)
  BY <1>0, <1>1, <1>2, <1>3 DEF ProjectDone
<1>5. ProjectWrote(r)
  BY <1>0 DEF ProjectWrote
<1>6. ProjectSaw(r)
  BY <1>0, <1>1 DEF ProjectSaw, J!Fine, J!At, J!Is
<1> QED
  BY <1>4, <1>5, <1>6

\* A step that goes on and leaves the rows alone.
LEMMA ProjectGoesOn ==
  ASSUME ProjectsInv, NEW r \in Reqs, NEW new \in J!Call,
         projectcall' = [projectcall EXCEPT ![r] = new], UNCHANGED J!rows,
         projectcall[r].at \notin {"idle", "end"},
         new.op = projectcall[r].op, new.given = projectcall[r].given,
         new.ended = projectcall[r].ended, new.at \in {"write", "backfill", "check"},
         new.at = "write" => new.op \notin {"workspace", "look", "upload", "campaign", "preview"},
         new.at = "write" /\ new.op \in {"update", "onboard"} => new.seen = project,
         new.at # "write" => new.op \in {"campaign", "preview", "edit"},
         new.at = "backfill" => new.ids = r /\ ids = J!None,
         new.at = "check" => new.ids = ids /\ ids # J!None
  PROVE  ProjectDone(r) /\ ProjectWrote(r) /\ ProjectSaw(r)
<1>0. /\ account' = account /\ made' = made /\ project' = project /\ document' = document
      /\ ids' = ids
  BY DEF J!rows
<1>1. /\ projectcall' \in [Reqs -> J!Call] /\ projectcall'[r] = new
      /\ \A q \in Reqs \ {r} : projectcall'[q] = projectcall[q]
      /\ \A q \in Reqs : projectcall[q].at = "end" => projectcall'[q].at = "end"
  BY ProjectReplaced
<1>2. ProjectOwn(r, projectcall[r])'
  <2>1. \A d \in new.ended : d \in Reqs /\ projectcall'[d].at = "end"
    BY <1>1, ProjectTyped DEF ProjectOwn, J!Call
  <2> QED
    BY <1>0, <1>1, <2>1 DEF ProjectOwn
<1>3. J!TypeOK' /\ J!NoOrphans'
  BY <1>0, <1>1 DEF ProjectsInv, J!TypeOK, J!NoOrphans
<1>4. ProjectDone(r)
  BY <1>0, <1>1, <1>2, <1>3 DEF ProjectDone
<1>5. ProjectWrote(r)
  BY <1>0 DEF ProjectWrote
<1>6. ProjectSaw(r)
  BY <1>0, <1>1 DEF ProjectSaw, J!Fine, J!At, J!Is
<1> QED
  BY <1>4, <1>5, <1>6

LEMMA ProjectBegins ==
  ASSUME ProjectsInv, NEW r \in Reqs, J!Begin(r)
  PROVE  ProjectDone(r) /\ ProjectWrote(r) /\ ProjectSaw(r)
<1> DEFINE ended == {d \in Reqs : projectcall[d].at = "end"}
<1>a. PICK op \in J!Operations : \E given \in J!Forms(op) : \E copy \in J!Copies :
        projectcall' = [projectcall EXCEPT ![r] =
             [J!Idle EXCEPT !.at = "read", !.op = op, !.given = given, !.copy = copy,
                            !.ended = ended]]
  BY DEF J!Begin, J!At
<1>b. PICK given \in J!Forms(op) : \E copy \in J!Copies :
        projectcall' = [projectcall EXCEPT ![r] =
             [J!Idle EXCEPT !.at = "read", !.op = op, !.given = given, !.copy = copy,
                            !.ended = ended]]
  BY <1>a
<1>1. PICK copy \in J!Copies :
        projectcall' = [projectcall EXCEPT ![r] =
             [J!Idle EXCEPT !.at = "read", !.op = op, !.given = given, !.copy = copy,
                            !.ended = ended]]
  BY <1>b
<1>2. given \in J!Form
  <2>1. J!Idle.given \in J!Form
    BY ProjectIdle DEF J!Call
  <2> QED
    BY <1>1, <2>1 DEF J!Forms
<1>3. copy \in Reqs \cup {J!None}
  <2>1. \A d \in Reqs : projectcall[d].ids \in Reqs \cup {J!None}
    BY ProjectTyped DEF J!Call
  <2> QED
    BY <2>1 DEF J!Copies
<1> DEFINE new == [J!Idle EXCEPT !.at = "read", !.op = op, !.given = given, !.copy = copy,
                                 !.ended = ended]
<1>4. new \in J!Call /\ new.at = "read" /\ new.ended = ended
  BY <1>2, <1>3, ProjectIdle DEF J!Call
<1>5. projectcall' = [projectcall EXCEPT ![r] = new]
  BY <1>1
<1>6. /\ projectcall[r].at = "idle"
      /\ account' = account /\ made' = made /\ project' = project /\ document' = document
      /\ ids' = ids
  BY DEF J!Begin, J!At, J!rows
<1>7. \A d \in new.ended : d \in Reqs /\ projectcall[d].at = "end"
  BY <1>4
<1> HIDE DEF new
<1>8. /\ projectcall' \in [Reqs -> J!Call] /\ projectcall'[r] = new
      /\ \A q \in Reqs \ {r} : projectcall'[q] = projectcall[q]
      /\ \A q \in Reqs : projectcall[q].at = "end" => projectcall'[q].at = "end"
  BY <1>4, <1>5, <1>6, ProjectReplaced
<1>9. ProjectOwn(r, projectcall[r])'
  BY <1>4, <1>7, <1>8 DEF ProjectOwn
<1>10. J!TypeOK' /\ J!NoOrphans'
  BY <1>6, <1>8 DEF ProjectsInv, J!TypeOK, J!NoOrphans
<1>11. ProjectDone(r)
  BY <1>4, <1>6, <1>8, <1>9, <1>10 DEF ProjectDone
<1>12. ProjectWrote(r)
  BY <1>6 DEF ProjectWrote
<1>13. ProjectSaw(r)
  BY <1>4, <1>8 DEF ProjectSaw, J!Fine, J!At
<1> QED
  BY <1>11, <1>12, <1>13

LEMMA ProjectResults == J!Results = {"fine", "unauthorized", "not_found", "crash"}
BY DEF J!Results

LEMMA ProjectLooks ==
  ASSUME ProjectsInv, NEW r \in Reqs,
         J!Stray(r) \/ J!Find(r) \/ J!ReadCampaign(r) \/ J!Check(r) \/ J!FindAccount(r)
  PROVE  ProjectDone(r) /\ ProjectWrote(r) /\ ProjectSaw(r)
<1>0. projectcall[r] \in J!Call /\ ProjectOwn(r, projectcall[r]) /\ UNCHANGED J!rows
  BY ProjectTyped DEF J!Stray, J!Keeps, J!Find, J!ReadCampaign, J!Check, J!FindAccount
<1>1. CASE J!Stray(r)
  BY <1>0, <1>1, ProjectResults, ProjectEndsLooking DEF J!Stray, J!At, J!Keeps
<1>2. CASE J!Find(r)
  <2>1. /\ projectcall[r].at = "read"
        /\ projectcall[r].op \in {"project", "look", "update", "onboard", "upload", "remove", "export"}
    BY <1>2 DEF J!Find, J!At, J!Is
  <2>2. CASE J!Ends(r, "not_found") \/ J!Ends(r, "crash")
    BY <1>0, <2>1, <2>2, ProjectResults, ProjectEndsLooking
  <2>3. CASE projectcall[r].op = "look" /\ J!Ends(r, "fine")
    BY <1>0, <2>1, <2>3, ProjectResults, ProjectEndsLooking
  <2>4. CASE /\ projectcall[r].op \notin {"look", "upload"}
             /\ projectcall' = [projectcall EXCEPT ![r].at = "write", ![r].seen = project]
    <3> DEFINE new == [projectcall[r] EXCEPT !.at = "write", !.seen = project]
    <3>1. /\ new \in J!Call /\ new.at = "write" /\ new.seen = project
          /\ new.op = projectcall[r].op /\ new.given = projectcall[r].given
          /\ new.ended = projectcall[r].ended
      BY <1>0, ProjectTyped DEF J!Call, J!ProjectRow
    <3>2. projectcall' = [projectcall EXCEPT ![r] = new]
      BY <2>4
    <3> HIDE DEF new
    <3> QED
      BY <1>0, <2>1, <2>4, <3>1, <3>2, ProjectGoesOn
  <2> QED
    BY <1>2, <2>2, <2>3, <2>4 DEF J!Find, J!Is
<1>3. CASE J!ReadCampaign(r)
  <2>1. projectcall[r].at = "read" /\ projectcall[r].op \in {"campaign", "preview", "edit"}
    BY <1>3 DEF J!ReadCampaign, J!At, J!Is
  <2>2. CASE J!Ends(r, "not_found")
    BY <1>0, <2>1, <2>2, ProjectResults, ProjectEndsLooking
  <2>3. CASE projectcall' = [projectcall EXCEPT ![r].at = IF ids = J!None THEN "backfill" ELSE "check",
                                                ![r].ids = IF ids = J!None THEN r ELSE ids]
    <3> DEFINE at == IF ids = J!None THEN "backfill" ELSE "check"
               have == IF ids = J!None THEN r ELSE ids
               new == [projectcall[r] EXCEPT !.at = at, !.ids = have]
    <3>1. /\ new \in J!Call /\ new.at = at /\ new.ids = have
          /\ new.op = projectcall[r].op /\ new.given = projectcall[r].given
          /\ new.ended = projectcall[r].ended
      BY <1>0, ProjectTyped DEF J!Call
    <3>2. projectcall' = [projectcall EXCEPT ![r] = new]
      BY <2>3
    <3> HIDE DEF new
    <3> QED
      BY <1>0, <2>1, <3>1, <3>2, ProjectGoesOn
  <2> QED
    BY <1>3, <2>2, <2>3 DEF J!ReadCampaign
<1>4. CASE J!Check(r)
  <2>1. projectcall[r].at = "check" /\ projectcall[r].op \in {"campaign", "preview", "edit"}
    BY <1>0, <1>4 DEF J!Check, J!At, ProjectOwn
  <2>2. CASE J!Ends(r, "not_found") \/ J!Ends(r, "fine")
    BY <1>0, <2>1, <2>2, ProjectResults, ProjectEndsLooking
  <2>3. CASE projectcall[r].op = "edit" /\ J!Goes(r, "write")
    <3> DEFINE new == [projectcall[r] EXCEPT !.at = "write"]
    <3>1. /\ new \in J!Call /\ new.at = "write"
          /\ new.op = projectcall[r].op /\ new.given = projectcall[r].given
          /\ new.ended = projectcall[r].ended
      BY <1>0 DEF J!Call
    <3>2. projectcall' = [projectcall EXCEPT ![r] = new]
      BY <2>3 DEF J!Goes
    <3> HIDE DEF new
    <3> QED
      BY <1>0, <2>1, <2>3, <3>1, <3>2, ProjectGoesOn
  <2> QED
    BY <1>4, <2>2, <2>3 DEF J!Check, J!Is
<1>5. CASE J!FindAccount(r)
  <2>1. projectcall[r].at = "read" /\ projectcall[r].op = "close"
    BY <1>5 DEF J!FindAccount, J!At, J!Is
  <2>2. CASE J!Ends(r, "unauthorized")
    BY <1>0, <2>1, <2>2, ProjectResults, ProjectEndsLooking
  <2>3. CASE J!Goes(r, "write")
    <3> DEFINE new == [projectcall[r] EXCEPT !.at = "write"]
    <3>1. /\ new \in J!Call /\ new.at = "write"
          /\ new.op = projectcall[r].op /\ new.given = projectcall[r].given
          /\ new.ended = projectcall[r].ended
      BY <1>0 DEF J!Call
    <3>2. projectcall' = [projectcall EXCEPT ![r] = new]
      BY <2>3 DEF J!Goes
    <3> HIDE DEF new
    <3> QED
      BY <1>0, <2>1, <3>1, <3>2, ProjectGoesOn
  <2> QED
    BY <1>5, <2>2, <2>3 DEF J!FindAccount
<1> QED
  BY <1>1, <1>2, <1>3, <1>4, <1>5

\* A step that ends a call which says nothing of the campaign.
LEMMA ProjectEndsWriting ==
  ASSUME ProjectsInv, NEW r \in Reqs, NEW result \in J!Results, J!Ends(r, result),
         projectcall[r].at \notin {"idle", "end"}, projectcall[r].op # "campaign",
         account' => account, account' \in BOOLEAN, document' => document, document' \in BOOLEAN,
         made' \subseteq Reqs, project' \in [J!Fields -> Texts], ids' \in Reqs \cup {J!None},
         J!NoOrphans',
         result = "fine" => /\ projectcall[r].op = "remove" => ~document'
                            /\ projectcall[r].op = "close" => ~account'
  PROVE  /\ ProjectDone(r)
         /\ projectcall'[r].at = "end" /\ projectcall'[r].result = result
         /\ projectcall'[r].op = projectcall[r].op /\ projectcall'[r].given = projectcall[r].given
         /\ projectcall'[r].ended = projectcall[r].ended
<1>1. /\ projectcall' \in [Reqs -> J!Call]
      /\ \A q \in Reqs \ {r} : projectcall'[q] = projectcall[q]
      /\ \A d \in projectcall'[r].ended : projectcall'[d].at = "end"
      /\ projectcall'[r].at = "end" /\ projectcall'[r].result = result
      /\ projectcall'[r].op = projectcall[r].op /\ projectcall'[r].given = projectcall[r].given
      /\ projectcall'[r].ended = projectcall[r].ended
  BY ProjectEnds
<1>2. ProjectOwn(r, projectcall[r])'
  BY <1>1 DEF ProjectOwn
<1>3. J!TypeOK'
  BY <1>1 DEF J!TypeOK, J!ProjectRow
<1> QED
  BY <1>1, <1>2, <1>3 DEF ProjectDone

LEMMA ProjectStores ==
  ASSUME ProjectsInv, NEW r \in Reqs,
         J!CreateWorkspace(r) \/ J!CreateProject(r) \/ J!CreateExportJob(r) \/ J!Remove(r)
         \/ J!DeleteAccount(r)
  PROVE  ProjectDone(r) /\ ProjectWrote(r) /\ ProjectSaw(r)
<1>0. J!NoOrphans /\ J!Blank \in [J!Fields -> Texts] /\ {"fine", "crash"} \subseteq J!Results
  BY ProjectIdle DEF ProjectsInv, J!ProjectRow, J!Results
<1>1. CASE J!CreateWorkspace(r) \/ J!CreateProject(r) \/ J!CreateExportJob(r)
  <2> DEFINE result == IF account THEN "fine" ELSE "crash"
  <2>1. /\ projectcall[r].at \in {"read", "write"}
        /\ projectcall[r].op \in {"workspace", "project", "export"} /\ J!Insert(r)
    BY <1>1 DEF J!CreateWorkspace, J!CreateProject, J!CreateExportJob, J!At, J!Is
  <2>2. /\ J!Ends(r, result) /\ account' = account /\ document' = document
        /\ project' = project /\ ids' = ids /\ made' = IF account THEN made \cup {r} ELSE made
    BY <2>1 DEF J!Insert
  <2>3. result \in J!Results
    BY <1>0
  <2>4. J!NoOrphans'
    BY <1>0, <2>2 DEF J!NoOrphans
  <2> HIDE DEF result
  <2>5. /\ ProjectDone(r)
        /\ projectcall'[r].at = "end" /\ projectcall'[r].op = projectcall[r].op
    BY <2>1, <2>2, <2>3, <2>4, ProjectTyped, ProjectEndsWriting
  <2>6. ProjectWrote(r)
    BY <2>2 DEF ProjectWrote
  <2>7. ProjectSaw(r)
    BY <2>1, <2>5 DEF ProjectSaw, J!Fine, J!At, J!Is
  <2> QED
    BY <2>5, <2>6, <2>7
<1>2. CASE J!Remove(r)
  <2>1. /\ projectcall[r].at = "write" /\ projectcall[r].op = "remove" /\ J!Ends(r, "fine")
        /\ account' = account /\ document' = FALSE /\ project' = project /\ ids' = ids
        /\ made' = made
    BY <1>2 DEF J!Remove, J!At, J!Is
  <2>2. J!NoOrphans'
    BY <1>0, <2>1 DEF J!NoOrphans
  <2>3. /\ ProjectDone(r)
        /\ projectcall'[r].at = "end" /\ projectcall'[r].op = projectcall[r].op
    BY <1>0, <2>1, <2>2, ProjectTyped, ProjectEndsWriting
  <2>4. ProjectWrote(r)
    BY <2>1 DEF ProjectWrote
  <2>5. ProjectSaw(r)
    BY <2>1, <2>3 DEF ProjectSaw, J!Fine, J!At, J!Is
  <2> QED
    BY <2>3, <2>4, <2>5
<1>3. CASE J!DeleteAccount(r)
  <2>1. /\ projectcall[r].at = "write" /\ projectcall[r].op = "close" /\ J!Ends(r, "fine")
        /\ account' = FALSE /\ document' = FALSE /\ project' = J!Blank /\ ids' = J!None
        /\ made' = {}
    BY <1>3 DEF J!DeleteAccount, J!At, J!Is
  <2>2. J!NoOrphans'
    BY <2>1 DEF J!NoOrphans
  <2>3. ProjectDone(r)
    BY <1>0, <2>1, <2>2, ProjectEndsWriting
  <2> QED
    BY <2>1, <2>3 DEF ProjectWrote, ProjectSaw
<1> QED
  BY <1>1, <1>2, <1>3

LEMMA ProjectUpdates ==
  ASSUME ProjectsInv, NEW r \in Reqs, J!Update(r)
  PROVE  ProjectDone(r) /\ ProjectWrote(r) /\ ProjectSaw(r)
<1>0. /\ J!NoOrphans /\ {"fine", "crash"} \subseteq J!Results
      /\ projectcall[r].at = "write" /\ projectcall[r].op \in {"update", "onboard"}
      /\ account' = account /\ made' = made /\ document' = document /\ ids' = ids
      /\ projectcall[r].given \in [J!Fields -> Texts \cup {J!None}]
  BY ProjectTyped DEF ProjectsInv, J!Results, J!Update, J!At, J!Is, J!Call, J!Form
<1>1. J!NoOrphans'
  BY <1>0 DEF J!NoOrphans
<1>2. CASE J!Ends(r, "crash") /\ UNCHANGED project /\ ~ account
  <2>1. ProjectDone(r)
    BY <1>0, <1>1, <1>2, ProjectTyped, ProjectEndsWriting
  <2> QED
    BY <1>0, <1>2, <2>1 DEF ProjectWrote, ProjectSaw
<1>3. CASE /\ project' = [f \in J!Fields |-> IF f \in J!Changed(r) THEN projectcall[r].given[f]
                                                                   ELSE project[f]]
           /\ J!Ends(r, "fine")
  <2>1. \A f \in J!Fields : /\ f \in J!Changed(r) => /\ project'[f] = projectcall[r].given[f]
                                                     /\ projectcall[r].given[f] # J!None
                            /\ f \notin J!Changed(r) =>
                                 /\ project'[f] = project[f]
                                 /\ projectcall[r].given[f] \in {J!None, projectcall[r].seen[f]}
    BY <1>3 DEF J!Changed
  <2>2. project' \in [J!Fields -> Texts]
    <3>1. \A f \in J!Fields : project'[f] \in Texts
      BY <1>0, <2>1, ProjectTyped
    <3> QED
      BY <1>3, <3>1
  <2>3. /\ ProjectDone(r)
        /\ projectcall'[r].at = "end" /\ projectcall'[r].op = projectcall[r].op
        /\ projectcall'[r].given = projectcall[r].given
    BY <1>0, <1>1, <1>3, <2>2, ProjectTyped, ProjectEndsWriting
  <2>4. ProjectWrote(r)
    BY <1>0, <2>1, <2>3 DEF ProjectWrote
  <2>5. ProjectSaw(r)
    BY <1>0, <2>1, <2>3 DEF ProjectSaw, J!Fine, J!At, J!Is
  <2> QED
    BY <2>3, <2>4, <2>5
<1> QED
  BY <1>2, <1>3 DEF J!Update

LEMMA ProjectCampaigns ==
  ASSUME ProjectsInv, NEW r \in Reqs, J!Backfill(r) \/ J!Edit(r)
  PROVE  ProjectDone(r) /\ ProjectWrote(r) /\ ProjectSaw(r)
<1>0. /\ J!NoOrphans /\ projectcall[r] \in J!Call /\ ProjectOwn(r, projectcall[r])
      /\ account' = account /\ made' = made /\ document' = document /\ project' = project
  BY ProjectTyped DEF ProjectsInv, J!Backfill, J!Edit
<1>1. CASE J!Backfill(r) /\ account
  <2> DEFINE new == [projectcall[r] EXCEPT !.at = "check"]
  <2>1. /\ projectcall[r].at = "backfill" /\ projectcall[r].op \in {"campaign", "preview", "edit"}
        /\ projectcall[r].ids = r /\ ids' = r /\ J!Goes(r, "check")
    BY <1>0, <1>1 DEF J!Backfill, J!At, ProjectOwn
  <2>2. /\ new \in J!Call /\ new.at = "check" /\ new.ids = r
        /\ new.op = projectcall[r].op /\ new.given = projectcall[r].given
        /\ new.ended = projectcall[r].ended
    BY <1>0, <2>1 DEF J!Call
  <2>3. projectcall' = [projectcall EXCEPT ![r] = new]
    BY <2>1 DEF J!Goes
  <2> HIDE DEF new
  <2>4. /\ projectcall' \in [Reqs -> J!Call] /\ projectcall'[r] = new
        /\ \A q \in Reqs \ {r} : projectcall'[q] = projectcall[q]
        /\ \A q \in Reqs : projectcall[q].at = "end" => projectcall'[q].at = "end"
    BY <2>1, <2>2, <2>3, ProjectReplaced
  <2>5. r # J!None
    BY RowsAssumption DEF J!None
  <2>6. ProjectOwn(r, projectcall[r])'
    <3>1. \A d \in new.ended : d \in Reqs /\ projectcall'[d].at = "end"
      BY <1>0, <2>2, <2>4 DEF ProjectOwn, J!Call
    <3> QED
      BY <2>1, <2>2, <2>4, <2>5, <3>1 DEF ProjectOwn
  <2>7. J!TypeOK' /\ J!NoOrphans'
    BY <1>0, <1>1, <2>1, <2>4 DEF ProjectsInv, J!TypeOK, J!NoOrphans
  <2>8. ProjectDone(r)
    BY <1>0, <2>1, <2>2, <2>4, <2>6, <2>7 DEF ProjectDone
  <2>9. ProjectWrote(r)
    BY <1>0, <2>1 DEF ProjectWrote
  <2>10. ProjectSaw(r)
    BY <2>1, <2>2, <2>4 DEF ProjectSaw, J!Fine, J!At
  <2> QED
    BY <2>8, <2>9, <2>10
<1>2. CASE J!Backfill(r) /\ ~ account
  <2>1. /\ projectcall[r].at = "backfill" /\ J!Ends(r, "crash") /\ ids' = ids
    BY <1>2 DEF J!Backfill, J!At
  <2> QED
    BY <1>0, <2>1, ProjectResults, ProjectEndsLooking DEF J!rows
<1>3. CASE J!Edit(r)
  <2>1. /\ projectcall[r].at = "write" /\ projectcall[r].op = "edit"
        /\ projectcall[r].copy \in Reqs \cup {J!None}
    BY <1>0, <1>3 DEF J!Edit, J!At, J!Is, J!Call
  <2>2. CASE account /\ ids' = projectcall[r].copy /\ J!Ends(r, "fine")
    <3>1. J!NoOrphans'
      BY <1>0, <2>2 DEF J!NoOrphans
    <3>2. "fine" \in J!Results
      BY ProjectResults
    <3>3. /\ ProjectDone(r)
          /\ projectcall'[r].at = "end" /\ projectcall'[r].op = projectcall[r].op
          /\ projectcall'[r].result = "fine"
      BY <1>0, <2>1, <2>2, <3>1, <3>2, ProjectTyped, ProjectEndsWriting
    <3>4. ProjectWrote(r)
      BY <1>0, <2>1, <3>3 DEF ProjectWrote, J!Fine, J!At, J!Is
    <3>5. ProjectSaw(r)
      BY <2>1, <3>3 DEF ProjectSaw, J!Fine, J!At, J!Is
    <3> QED
      BY <3>3, <3>4, <3>5
  <2>3. CASE ids' = ids /\ \E result \in J!Results : J!Ends(r, result)
    <3>1. PICK result \in J!Results : J!Ends(r, result)
      BY <2>3
    <3> QED
      BY <1>0, <2>1, <2>3, <3>1, ProjectEndsLooking DEF J!rows
  <2> QED
    BY <1>3, <2>2, <2>3 DEF J!Edit
<1> QED
  BY <1>1, <1>2, <1>3

LEMMA ProjectsStep ==
  ASSUME ProjectsInv, NEW r \in Reqs, J!Begin(r) \/ J!Step(r)
  PROVE  /\ ProjectsInv' /\ (account' => account) /\ (document' => document)
         /\ \A q \in Reqs : projectcall[q].at = "end" => projectcall'[q] = projectcall[q]
<1>1. ProjectDone(r) /\ ProjectWrote(r) /\ ProjectSaw(r)
  BY ProjectBegins, ProjectLooks, ProjectStores, ProjectUpdates, ProjectCampaigns DEF J!Step
<1> QED
  BY <1>1, ProjectDoneKeeps DEF ProjectDone

LEMMA ProjectsOutside ==
  ASSUME ProjectsInv, UNCHANGED projects
  PROVE  ProjectsInv' /\ UNCHANGED projectcall
<1>1. /\ account' = account /\ made' = made /\ project' = project /\ document' = document
      /\ ids' = ids /\ projectcall' = projectcall
  BY DEF projects
<1>2. J!TypeOK' /\ J!NoOrphans'
  BY <1>1 DEF ProjectsInv, J!TypeOK, J!NoOrphans
<1>3. ASSUME NEW r \in Reqs
      PROVE  (ProjectOwn(r, projectcall[r]) /\ ProjectSeen(r, projectcall[r]))'
  <2>1. ProjectOwn(r, projectcall[r]) /\ ProjectSeen(r, projectcall[r])
    BY DEF ProjectsInv
  <2> QED
    BY <1>1, <2>1 DEF ProjectOwn, ProjectSeen, GivenLater, Excused, J!Fine, J!Is, J!At, J!Overlap
<1> QED
  BY <1>1, <1>2, <1>3 DEF ProjectsInv

LEMMA ProjectsInit == J!Init => ProjectsInv
<1> SUFFICES ASSUME J!Init
             PROVE  ProjectsInv
  OBVIOUS
<1>1. projectcall = [r \in Reqs |-> J!Idle] /\ account = TRUE /\ ids = J!None
      /\ made = {} /\ document = TRUE /\ project = J!Blank
  BY DEF J!Init
<1>2. J!TypeOK /\ J!NoOrphans
  BY <1>1, ProjectIdle DEF J!TypeOK, J!NoOrphans
<1>3. ASSUME NEW r \in Reqs
      PROVE  ProjectOwn(r, projectcall[r]) /\ ProjectSeen(r, projectcall[r])
  BY <1>1, ProjectIdle DEF ProjectOwn, ProjectSeen, J!Fine, J!At
<1> QED
  BY <1>2, <1>3 DEF ProjectsInv

-----------------------------------------------------------------------------
(* The way of a request *)

\* Calls that have ended stay as they are.
PartsStay == \A q \in Reqs :
  /\ keycall[q].at = "end" => keycall'[q] = keycall[q]
  /\ sitecall[q].at = "end" => sitecall'[q] = sitecall[q]
  /\ postercall[q].at = "end" => postercall'[q] = postercall[q]
  /\ projectcall[q].at = "end" => projectcall'[q] = projectcall[q]

PartsKept == /\ KeysInv' /\ SitesInv' /\ PostersInv' /\ ProjectsInv' /\ PartsStay
             /\ K!DeadKeysStayDead /\ S!DownStaysDown

LEMMA PartsStep ==
  ASSUME RequestsInv, [Next]_vars
  PROVE  PartsKept
<1>0. KeysInv /\ SitesInv /\ PostersInv /\ ProjectsInv
  BY DEF RequestsInv
<1>k. UNCHANGED keys => KeysInv' /\ K!DeadKeysStayDead /\ UNCHANGED keycall
  <2> SUFFICES ASSUME UNCHANGED keys
               PROVE  KeysInv' /\ K!DeadKeysStayDead /\ UNCHANGED keycall
    OBVIOUS
  <2>1. K!Expire \/ K!ChangeTier \/ UNCHANGED keys
    OBVIOUS
  <2> HIDE DEF keys
  <2> QED
    BY <1>0, <2>1, KeysOutside
<1>s. UNCHANGED sites => SitesInv' /\ S!DownStaysDown /\ UNCHANGED sitecall
  BY <1>0, SitesOutside
<1>p. UNCHANGED posters => PostersInv' /\ UNCHANGED postercall
  BY <1>0, PostersOutside
<1>j. UNCHANGED projects => ProjectsInv' /\ UNCHANGED projectcall
  BY <1>0, ProjectsOutside
<1>1. CASE UNCHANGED parts
  BY <1>1, <1>k, <1>s, <1>p, <1>j DEF parts, PartsKept, PartsStay
<1>2. CASE Outside
  <2>1. K!Expire \/ K!ChangeTier
    BY <1>2 DEF Outside
  <2>2. KeysInv' /\ K!DeadKeysStayDead /\ UNCHANGED keycall
    BY <1>0, <2>1, KeysOutside
  <2>3. UNCHANGED sites /\ UNCHANGED posters /\ UNCHANGED projects
    BY <1>2 DEF Outside
  <2> QED
    BY <2>2, <2>3, <1>s, <1>p, <1>j DEF PartsKept, PartsStay
<1>3. ASSUME NEW r \in Reqs, HandleKeys(r)
      PROVE  PartsKept
  <2>1. K!Begin(r) \/ K!Step(r)
    BY <1>3 DEF HandleKeys, Part
  <2>2. /\ KeysInv' /\ K!DeadKeysStayDead
        /\ \A q \in Reqs : keycall[q].at = "end" => keycall'[q] = keycall[q]
    BY <1>0, <2>1, KeysStep
  <2>3. UNCHANGED sites /\ UNCHANGED posters /\ UNCHANGED projects
    BY <1>3 DEF HandleKeys
  <2> QED
    BY <2>2, <2>3, <1>s, <1>p, <1>j DEF PartsKept, PartsStay
<1>4. ASSUME NEW r \in Reqs, HandleSites(r)
      PROVE  PartsKept
  <2>1. S!Begin(r) \/ S!Step(r)
    BY <1>4 DEF HandleSites, Part
  <2>2. /\ SitesInv' /\ S!DownStaysDown
        /\ \A q \in Reqs : sitecall[q].at = "end" => sitecall'[q] = sitecall[q]
    BY <1>0, <2>1, SitesStep
  <2>3. UNCHANGED keys /\ UNCHANGED posters /\ UNCHANGED projects
    BY <1>4 DEF HandleSites
  <2> QED
    BY <2>2, <2>3, <1>k, <1>p, <1>j DEF PartsKept, PartsStay
<1>5. ASSUME NEW r \in Reqs, HandlePosters(r) \/ HandlePrompts(r)
      PROVE  PartsKept
  <2>1. P!Begin(r) \/ P!Step(r) \/ P!BeginPrompt(r) \/ P!StepPrompt(r)
    BY <1>5 DEF HandlePosters, HandlePrompts, Part
  <2>2. /\ PostersInv'
        /\ \A q \in Reqs : postercall[q].at = "end" => postercall'[q] = postercall[q]
    BY <1>0, <2>1, PostersStep
  <2>3. UNCHANGED keys /\ UNCHANGED sites /\ UNCHANGED projects
    BY <1>5 DEF HandlePosters, HandlePrompts
  <2> QED
    BY <2>2, <2>3, <1>k, <1>s, <1>j DEF PartsKept, PartsStay
<1>6. ASSUME NEW r \in Reqs, HandleProjects(r)
      PROVE  PartsKept
  <2>1. J!Begin(r) \/ J!Step(r)
    BY <1>6 DEF HandleProjects, Part
  <2>2. /\ ProjectsInv'
        /\ \A q \in Reqs : projectcall[q].at = "end" => projectcall'[q] = projectcall[q]
    BY <1>0, <2>1, ProjectsStep
  <2>3. UNCHANGED keys /\ UNCHANGED sites /\ UNCHANGED posters
    BY <1>6 DEF HandleProjects
  <2> QED
    BY <2>2, <2>3, <1>k, <1>s, <1>p DEF PartsKept, PartsStay
<1>7. ASSUME NEW r \in Reqs, Answer(r) \/ AnswerOther(r) \/ Stream(r) \/ Send(r) \/ Alert(r)
      PROVE  PartsKept
  BY <1>1, <1>7 DEF Answer, AnswerOther, Stream, Send, Alert, parts
<1>8. CASE Stop \/ UNCHANGED vars
  BY <1>1, <1>8 DEF Stop, vars, parts
<1> QED
  BY <1>2, <1>3, <1>4, <1>5, <1>6, <1>7, <1>8 DEF Next

\* The statuses that _should_send_failure_alert does not take for routine.
LEMMA AlertsAreForFailures ==
  ASSUME NEW status \in Statuses
  PROVE  status \in Nat /\ (ShouldAlert(status, Category(status)) <=> status >= 500)
<1>1. status \in {0, 200, 401, 403, 404, 405, 400, 409, 422, 429, 500, 502, 503}
  BY DEF Statuses, Exceptions, StatusOf
<1> QED
  BY <1>1 DEF ShouldAlert, Category, RoutineCategories, RoutineStatuses

LEMMA FailingStatuses ==
  ASSUME NEW exception \in Exceptions
  PROVE  StatusOf[exception] \in Statuses /\ StatusOf[exception] \notin {0, 200}
BY DEF Statuses, Exceptions, StatusOf

\* What a client was answered stays true of the call.
LEMMA CallsStay ==
  ASSUME PartsStay, NEW q \in Reqs, req'[q].area = req[q].area, req[q].area \in Areas \ {"other"},
         Call(q).at = "end"
  PROVE  Call(q)' = Call(q)
BY DEF PartsStay, Call, Areas

LEMMA ShellTyped ==
  ASSUME RequestsInv
  PROVE  /\ req \in [Reqs -> Request] /\ told \subseteq Reqs \X Statuses
         /\ metrics \in [total : Nat, errors : Nat] /\ stops \in 0..MaxStops
         /\ \A r \in Reqs : req[r] \in Request /\ ShellOK(r) /\ req[r].status \in Nat
         /\ \A t \in told : t[2] >= 500 /\ t[2] = req[t[1]].status
<1>1. \A r \in Reqs : req[r] \in Request /\ ShellOK(r)
  BY DEF RequestsInv, ShellInv
<1>2. \A r \in Reqs : req[r].status \in Nat
  BY <1>1, AlertsAreForFailures DEF Request
<1> QED
  BY <1>1, <1>2 DEF RequestsInv, ShellInv

\* A request that makes no step is as it was.
LEMMA OthersKeep ==
  ASSUME RequestsInv, PartsStay, NEW q \in Reqs, req'[q] = req[q], told \subseteq told'
  PROVE  ShellOK(q)'
<1>1. ShellOK(q) /\ req[q].area \in Areas
  BY ShellTyped DEF Request
<1>2. req[q].status = 200 /\ req[q].area # "other" => Call(q)' = Call(q)
  BY <1>1, CallsStay DEF ShellOK
<1> QED
  BY <1>1, <1>2 DEF ShellOK

\* A step of r that gives no answer.
LEMMA ShellMoves ==
  ASSUME RequestsInv, PartsStay, NEW r \in Reqs,
         NEW step \in {"handler", "streaming", "alerting", "end"}, Moves(r, step),
         told \subseteq told', told' \subseteq told \cup {<<r, req[r].status>>},
         UNCHANGED <<metrics, stops>>,
         step = "handler" => req[r].at = "idle" /\ req[r].area # "other",
         step = "streaming" => req[r].status < 500,
         told' # told \/ step = "alerting" => req[r].status >= 500,
         step = "end" /\ req[r].status >= 500 => <<r, req[r].status>> \in told'
  PROVE  ShellInv'
<1> DEFINE new == [req[r] EXCEPT !.at = step]
<1>0. req[r] \in Request /\ ShellOK(r) /\ req \in [Reqs -> Request]
  BY ShellTyped
<1>1. /\ new \in Request /\ new.at = step /\ new.area = req[r].area /\ new.origin = req[r].origin
      /\ new.status = req[r].status /\ new.alert = req[r].alert /\ new.allowed = req[r].allowed
      /\ new.lost = req[r].lost /\ new.counted = req[r].counted
  BY <1>0 DEF Request
<1>2. req' = [req EXCEPT ![r] = new]
  BY DEF Moves
<1> HIDE DEF new
<1>3. /\ req' \in [Reqs -> Request] /\ req'[r] = new /\ \A q \in Reqs \ {r} : req'[q] = req[q]
  BY <1>0, <1>1, <1>2
<1>4. \A q \in Reqs : req'[q].status = req[q].status /\ req'[q].counted = req[q].counted
  BY <1>1, <1>3
<1>5. NumbersAreRight'
  <2>1. {q \in Reqs : req'[q].counted} = {q \in Reqs : req[q].counted}
    BY <1>4
  <2>2. {q \in Reqs : req'[q].counted /\ req'[q].status >= 500}
          = {q \in Reqs : req[q].counted /\ req[q].status >= 500}
    BY <1>4
  <2> QED
    BY <2>1, <2>2 DEF RequestsInv, ShellInv, NumbersAreRight
<1>6. told' \subseteq Reqs \X Statuses /\ \A t \in told' : t[2] >= 500 /\ t[2] = req'[t[1]].status
  <2>1. <<r, req[r].status>> \in Reqs \X Statuses
    BY <1>0 DEF Request
  <2>2. told' \subseteq Reqs \X Statuses
    BY <2>1, ShellTyped
  <2>3. ASSUME NEW t \in told'
        PROVE  t[2] >= 500 /\ t[2] = req'[t[1]].status
    <3>1. t[1] \in Reqs
      BY <2>2
    <3>2. CASE t \in told
      BY <1>4, <3>1, <3>2, ShellTyped
    <3>3. CASE t \notin told
      BY <1>4, <3>1, <3>3
    <3> QED
      BY <3>2, <3>3
  <2> QED
    BY <2>2, <2>3
<1>7. ShellOK(r)'
  <2>1. req[r].status = 200 /\ req[r].area # "other" =>
          Call(r)' = Call(r) /\ Call(r).at = "end" /\ Call(r).result \notin Exceptions
    BY <1>0, <1>1, <1>3, CallsStay DEF ShellOK, Request
  <2> QED
    BY <1>0, <1>1, <1>3, <2>1 DEF ShellOK
<1>8. \A q \in Reqs \ {r} : ShellOK(q)'
  BY <1>3, OthersKeep
<1> QED
  BY <1>3, <1>5, <1>6, <1>7, <1>8 DEF RequestsInv, ShellInv

LEMMA ReqsAreFinite ==
  ASSUME NEW set \in SUBSET Reqs
  PROVE  IsFiniteSet(set) /\ Cardinality(set) \in Nat
BY MixesAssumption, FS_Subset, FS_CardinalityType

\* The fields an answer sets, written as one record.
Answered(old, status, step, alert, allowed) ==
  [old EXCEPT !.at = step, !.status = status, !.alert = alert, !.allowed = allowed, !.counted = TRUE]

FieldsOf(new, old, status, step, alert, allowed) ==
  /\ new \in Request /\ new.at = step /\ new.area = old.area /\ new.origin = old.origin
  /\ new.status = status /\ new.alert = alert /\ new.allowed = allowed
  /\ new.lost = old.lost /\ new.counted = TRUE

LEMMA AnsweredFields ==
  ASSUME NEW old \in Request, NEW status \in Statuses, NEW step \in {"sending", "streaming"},
         NEW alert \in BOOLEAN, NEW allowed \in BOOLEAN
  PROVE  FieldsOf(Answered(old, status, step, alert, allowed), old, status, step, alert, allowed)
BY DEF Request, Answered, FieldsOf

LEMMA AnswerIsOne ==
  ASSUME req \in [Reqs -> Request], NEW r \in Reqs,
         NEW status, NEW step, NEW allowed, NEW alert, alert = ShouldAlert(status, Category(status)),
         Answers(r, status, step, allowed)
  PROVE  req' = [req EXCEPT ![r] = Answered(req[r], status, step, alert, allowed)]
<1>1. req' = [req EXCEPT ![r].at = step, ![r].status = status, ![r].alert = alert,
                         ![r].allowed = allowed, ![r].counted = TRUE]
  BY DEF Answers
<1> QED
  BY <1>1 DEF Answered

LEMMA OneMore ==
  ASSUME NEW set, IsFiniteSet(set), NEW x, x \notin set
  PROVE  Cardinality(set \cup {x}) = Cardinality(set) + 1
<1>1. Cardinality(set) \in Nat
  BY FS_CardinalityType
<1> QED
  BY <1>1, FS_AddElement

\* A step of r that answers.
LEMMA ShellAnswers ==
  ASSUME RequestsInv, PartsStay, NEW r \in Reqs, req[r].at \in {"idle", "handler"},
         NEW status \in Statuses \ {0}, NEW step \in {"sending", "streaming"}, NEW allowed \in BOOLEAN,
         Answers(r, status, step, allowed),
         step = "streaming" => status = 200,
         status >= 400 => /\ req[r].origin = "page" => allowed
                          /\ req[r].origin = "elsewhere" => ~ allowed,
         status = 200 /\ req[r].area # "other" =>
           Call(r).at = "end" /\ Call(r).result \notin Exceptions
  PROVE  ShellInv'
<1>a. PICK alert : alert = ShouldAlert(status, Category(status))
  OBVIOUS
<1> DEFINE new == Answered(req[r], status, step, alert, allowed)
<1>0. /\ req[r] \in Request /\ ShellOK(r) /\ req \in [Reqs -> Request]
      /\ status \in Nat /\ alert \in BOOLEAN /\ (alert <=> status >= 500)
  BY <1>a, ShellTyped, AlertsAreForFailures DEF ShouldAlert
<1>1. /\ new \in Request /\ new.at = step /\ new.area = req[r].area /\ new.origin = req[r].origin
      /\ new.status = status /\ new.alert = alert /\ new.allowed = allowed
      /\ new.lost = req[r].lost /\ new.counted = TRUE
  <2>1. /\ req[r] \in Request /\ status \in Statuses /\ step \in {"sending", "streaming"}
        /\ alert \in BOOLEAN /\ allowed \in BOOLEAN
    BY <1>0
  <2>2. FieldsOf(new, req[r], status, step, alert, allowed)
    <3>1. PICK old : old = req[r]
      OBVIOUS
    <3>2. FieldsOf(Answered(old, status, step, alert, allowed), old, status, step, alert, allowed)
      BY <2>1, <3>1, AnsweredFields
    <3> QED
      BY <3>1, <3>2
  <2> HIDE DEF new
  <2> QED
    BY <2>2 DEF FieldsOf
<1>2. req' = [req EXCEPT ![r] = new] /\ told' = told /\ stops' = stops
  <2>0. req \in [Reqs -> Request]
    BY <1>0
  <2>1. req' = [req EXCEPT ![r] = new]
    BY <1>a, <2>0, AnswerIsOne
  <2>2. told' = told /\ stops' = stops
    BY DEF Answers
  <2> QED
    BY <2>1, <2>2
<1> HIDE DEF new
<1>3. /\ req' \in [Reqs -> Request] /\ req'[r] = new /\ \A q \in Reqs \ {r} : req'[q] = req[q]
  BY <1>0, <1>1, <1>2
<1>4. req[r].status = 0 /\ ~ req[r].counted /\ ~ req[r].lost
  BY <1>0 DEF ShellOK
<1>5. NumbersAreRight' /\ metrics' \in [total : Nat, errors : Nat]
  <2> DEFINE all == {q \in Reqs : req[q].counted}
             failed == {q \in Reqs : req[q].counted /\ req[q].status >= 500}
  <2>1. {q \in Reqs : req'[q].counted} = all \cup {r} /\ r \notin all
    BY <1>1, <1>3, <1>4
  <2>2. {q \in Reqs : req'[q].counted /\ req'[q].status >= 500}
          = (IF status >= 500 THEN failed \cup {r} ELSE failed) /\ r \notin failed
    BY <1>1, <1>3, <1>4
  <2>3. /\ metrics.total = Cardinality(all) /\ metrics.errors = Cardinality(failed)
        /\ metrics \in [total : Nat, errors : Nat]
    BY ShellTyped DEF RequestsInv, ShellInv, NumbersAreRight
  <2>4. IsFiniteSet(all) /\ IsFiniteSet(failed)
    BY ReqsAreFinite
  <2> HIDE DEF all, failed
  <2>5. r \notin all /\ r \notin failed
    BY <2>1, <2>2
  <2>a. Cardinality(all \cup {r}) = Cardinality(all) + 1
    BY <2>4, <2>5, OneMore
  <2>b. Cardinality(failed \cup {r}) = Cardinality(failed) + 1
    BY <2>4, <2>5, OneMore
  <2>6. /\ metrics'.total = metrics.total + 1
        /\ metrics'.errors = metrics.errors + (IF status >= 500 THEN 1 ELSE 0)
        /\ metrics' = [total |-> metrics'.total, errors |-> metrics'.errors]
    BY DEF Answers, Recorded
  <2>7. metrics' \in [total : Nat, errors : Nat]
    BY <2>3, <2>6
  <2>8. metrics'.total = Cardinality({q \in Reqs : req'[q].counted})
    BY <2>1, <2>3, <2>a, <2>6
  <2>9. metrics'.errors = Cardinality({q \in Reqs : req'[q].counted /\ req'[q].status >= 500})
    <3>1. CASE status >= 500
      BY <2>2, <2>3, <2>b, <2>6, <3>1
    <3>2. CASE ~ (status >= 500)
      <4>1. metrics'.errors = metrics.errors
        BY <2>3, <2>6, <3>2
      <4>2. metrics'.errors = Cardinality(failed)
        BY <2>3, <4>1
      <4>3. {q \in Reqs : req'[q].counted /\ req'[q].status >= 500} = failed
        BY <2>2, <3>2
      <4> QED
        BY <4>2, <4>3, Zenon
    <3> QED
      BY <3>1, <3>2
  <2> QED
    BY <2>7, <2>8, <2>9 DEF NumbersAreRight
<1>6. \A t \in told' : t[2] >= 500 /\ t[2] = req'[t[1]].status
  <2> SUFFICES ASSUME NEW t \in told
               PROVE  t[2] >= 500 /\ t[2] = req'[t[1]].status
    BY <1>2
  <2>1. t[2] >= 500 /\ t[2] = req[t[1]].status /\ t[1] \in Reqs
    BY ShellTyped
  <2>2. t[1] # r
    BY <1>4, <2>1
  <2> QED
    BY <1>3, <2>1, <2>2
<1>7. ShellOK(r)'
  <2>1. status = 200 /\ req[r].area # "other" =>
          Call(r)' = Call(r) /\ Call(r).at = "end" /\ Call(r).result \notin Exceptions
    BY <1>0, <1>1, <1>3, CallsStay DEF Request
  <2> QED
    BY <1>0, <1>1, <1>2, <1>3, <1>4, <2>1 DEF ShellOK
<1>8. \A q \in Reqs \ {r} : ShellOK(q)'
  BY <1>2, <1>3, OthersKeep
<1> QED
  BY <1>2, <1>3, <1>5, <1>6, <1>7, <1>8 DEF RequestsInv, ShellInv

\* The process ends.
LEMMA ShellStops ==
  ASSUME RequestsInv, PartsStay, Stop
  PROVE  ShellInv'
<1>0. stops' \in 0..MaxStops /\ metrics' = [total |-> 0, errors |-> 0] /\ told' = told
  <2>1. stops < MaxStops /\ stops' = stops + 1 /\ stops \in 0..MaxStops /\ MaxStops \in Nat
    BY ShellTyped, BoundsAssumption DEF Stop
  <2>2. metrics' = [total |-> 0, errors |-> 0] /\ told' = told
    BY DEF Stop
  <2> QED
    BY <2>1, <2>2
<1>1. ASSUME NEW r \in Reqs
      PROVE  /\ req'[r] \in Request /\ req'[r].counted = FALSE /\ req'[r].status = req[r].status
             /\ ShellOK(r)'
  <2>0. req[r] \in Request /\ ShellOK(r)
    BY ShellTyped
  <2>1. CASE req[r].at \in {"idle", "end"}
    <3> DEFINE new == [req[r] EXCEPT !.counted = FALSE]
    <3>1. /\ new \in Request /\ new.at = req[r].at /\ new.area = req[r].area
          /\ new.origin = req[r].origin /\ new.status = req[r].status /\ new.alert = req[r].alert
          /\ new.allowed = req[r].allowed /\ new.lost = req[r].lost /\ new.counted = FALSE
      BY <2>0 DEF Request
    <3>2. req'[r] = new
      BY <2>1 DEF Stop
    <3> HIDE DEF new
    <3>3. req[r].status = 200 /\ req[r].area # "other" =>
            Call(r)' = Call(r) /\ Call(r).at = "end" /\ Call(r).result \notin Exceptions
      BY <2>0, <3>1, <3>2, CallsStay DEF ShellOK, Request
    <3>4. ShellOK(r)'
      BY <1>0, <2>0, <3>1, <3>2, <3>3 DEF ShellOK
    <3> QED
      BY <3>1, <3>2, <3>4
  <2>2. CASE req[r].at \notin {"idle", "end"}
    <3> DEFINE new == [req[r] EXCEPT !.at = "end", !.lost = TRUE, !.counted = FALSE]
    <3>1. /\ new \in Request /\ new.at = "end" /\ new.area = req[r].area
          /\ new.origin = req[r].origin /\ new.status = req[r].status /\ new.alert = req[r].alert
          /\ new.allowed = req[r].allowed /\ new.lost = TRUE /\ new.counted = FALSE
      BY <2>0 DEF Request
    <3>2. req'[r] = new
      BY <2>2 DEF Stop
    <3> HIDE DEF new
    <3>3. req[r].status = 200 /\ req[r].area # "other" =>
            Call(r)' = Call(r) /\ Call(r).at = "end" /\ Call(r).result \notin Exceptions
      BY <2>0, <3>1, <3>2, CallsStay DEF ShellOK, Request
    <3>4. ShellOK(r)'
      BY <2>0, <3>1, <3>2, <3>3 DEF ShellOK
    <3> QED
      BY <3>1, <3>2, <3>4
  <2> QED
    BY <2>1, <2>2
<1>2. NumbersAreRight'
  <2>1. /\ {r \in Reqs : req'[r].counted} = {}
        /\ {r \in Reqs : req'[r].counted /\ req'[r].status >= 500} = {}
    BY <1>1
  <2> QED
    BY <1>0, <2>1, FS_EmptySet DEF NumbersAreRight
<1>3. \A t \in told' : t[2] >= 500 /\ t[2] = req'[t[1]].status
  BY <1>0, <1>1, ShellTyped
<1>4. req' \in [Reqs -> Request]
  <2>1. req' = [r \in Reqs |-> req'[r]]
    BY DEF Stop
  <2> QED
    BY <1>1, <2>1
<1> QED
  BY <1>0, <1>1, <1>2, <1>3, <1>4, ShellTyped DEF ShellInv

\* What a handler answers, or what comes before it.
LEMMA ShellRaises ==
  ASSUME RequestsInv, PartsStay, NEW r \in Reqs, req[r].at \in {"idle", "handler"},
         NEW exception \in Exceptions, Raises(r, exception)
  PROVE  ShellInv'
<1> DEFINE status == StatusOf[exception]
           allowed == MayRead(req[r].origin, exception)
<1>1. status \in Statuses \ {0} /\ status # 200
  BY FailingStatuses
<1>2. /\ allowed \in BOOLEAN /\ (req[r].origin = "page" => allowed)
      /\ req[r].origin = "elsewhere" => ~ allowed
  BY DEF MayRead
<1>3. Answers(r, status, "sending", allowed)
  BY DEF Raises
<1> HIDE DEF status, allowed
<1> QED
  BY <1>1, <1>2, <1>3, ShellAnswers

LEMMA ShellSucceeds ==
  ASSUME RequestsInv, PartsStay, NEW r \in Reqs, req[r].at \in {"idle", "handler"},
         NEW result, Succeeds(r, result),
         req[r].area # "other" => Call(r).at = "end" /\ Call(r).result \notin Exceptions
  PROVE  ShellInv'
<1> DEFINE step == IF result = "stream" THEN "streaming" ELSE "sending"
           allowed == MayRead(req[r].origin, "none")
<1>1. 200 \in Statuses \ {0} /\ step \in {"sending", "streaming"} /\ allowed \in BOOLEAN
  BY DEF MayRead, Statuses
<1>2. Answers(r, 200, step, allowed)
  BY DEF Succeeds
<1> HIDE DEF step, allowed
<1>3. \A status : status = 200 => ~ (status >= 400)
  OBVIOUS
<1> QED
  BY <1>1, <1>2, <1>3, ShellAnswers

LEMMA ShellStep ==
  ASSUME RequestsInv, [Next]_vars, PartsStay
  PROVE  ShellInv'
\* Steps that leave the way of the requests alone.
<1>1. ASSUME UNCHANGED shell
      PROVE  ShellInv'
  <2>1. req' = req /\ told' = told /\ metrics' = metrics /\ stops' = stops
    BY <1>1 DEF shell
  <2>2. \A r \in Reqs : ShellOK(r)'
    BY <2>1, OthersKeep
  <2>3. NumbersAreRight'
    BY <2>1 DEF RequestsInv, ShellInv, NumbersAreRight
  <2> QED
    BY <2>1, <2>2, <2>3 DEF RequestsInv, ShellInv
<1>2. ASSUME NEW r \in Reqs, NEW area \in Areas \ {"other"}, req[r].area = area,
             (At(r, "idle") /\ Moves(r, "handler")) \/ (At(r, "handler") /\ UNCHANGED req),
             UNCHANGED <<told, metrics, stops>>
      PROVE  ShellInv'
  <2>1. CASE At(r, "idle") /\ Moves(r, "handler")
    BY <1>2, <2>1, ShellMoves DEF At
  <2>2. CASE UNCHANGED req
    BY <1>1, <1>2, <2>2 DEF shell
  <2> QED
    BY <1>2, <2>1, <2>2
<1>3. ASSUME NEW r \in Reqs, HandleKeys(r) \/ HandleSites(r) \/ HandlePosters(r) \/ HandlePrompts(r)
                             \/ HandleProjects(r)
      PROVE  ShellInv'
  <2>1. /\ req[r].area \in Areas \ {"other"}
        /\ (At(r, "idle") /\ Moves(r, "handler")) \/ (At(r, "handler") /\ UNCHANGED req)
        /\ UNCHANGED <<told, metrics, stops>>
    BY <1>3 DEF HandleKeys, HandleSites, HandlePosters, HandlePrompts, HandleProjects, Part, Areas
  <2> QED
    BY <1>2, <2>1
<1>4. ASSUME NEW r \in Reqs, Answer(r)
      PROVE  ShellInv'
  <2>1. /\ req[r].at = "handler" /\ Call(r).at = "end"
        /\ IF Call(r).result \in Exceptions THEN Raises(r, Call(r).result)
                                            ELSE Succeeds(r, Call(r).result)
    BY <1>4 DEF Answer, At
  <2>2. CASE Call(r).result \in Exceptions
    BY <2>1, <2>2, ShellRaises
  <2>3. CASE Call(r).result \notin Exceptions
    BY <2>1, <2>3, ShellSucceeds
  <2> QED
    BY <2>2, <2>3
<1>5. ASSUME NEW r \in Reqs, AnswerOther(r)
      PROVE  ShellInv'
  <2>1. req[r].at = "idle" /\ req[r].area = "other"
    BY <1>5 DEF AnswerOther, At
  <2>2. ASSUME NEW exception \in Exceptions, Raises(r, exception)
        PROVE  ShellInv'
    BY <2>1, <2>2, ShellRaises
  <2>3. ASSUME NEW result \in {"fine", "stream"}, Succeeds(r, result)
        PROVE  ShellInv'
    BY <2>1, <2>3, ShellSucceeds
  <2> QED
    BY <1>5, <2>2, <2>3 DEF AnswerOther
<1>6. ASSUME NEW r \in Reqs, Stream(r)
      PROVE  ShellInv'
  <2>a. ShellOK(r) /\ req[r].at = "streaming" /\ req[r].status \in Nat
    BY <1>6, ShellTyped DEF Stream, At
  <2>b. Moves(r, "end") /\ UNCHANGED <<told, metrics, stops>>
    BY <1>6 DEF Stream
  <2>1. req[r].status < 500 /\ Moves(r, "end") /\ UNCHANGED <<told, metrics, stops>>
        /\ req[r].status \in Nat
    BY <2>a, <2>b DEF ShellOK
  <2>2. ~ (req[r].status >= 500)
    BY <2>1
  <2>3. told' = told /\ metrics' = metrics /\ stops' = stops
    BY <2>1
  <2> QED
    BY <2>1, <2>2, <2>3, ShellMoves
<1>7. ASSUME NEW r \in Reqs, Send(r)
      PROVE  ShellInv'
  <2>1. /\ UNCHANGED <<told, metrics, stops>> /\ (req[r].alert <=> req[r].status >= 500)
        /\ Moves(r, IF req[r].alert THEN "alerting" ELSE "end")
    BY <1>7, ShellTyped DEF Send, ShellOK
  <2>2. CASE req[r].alert
    BY <2>1, <2>2, ShellMoves
  <2>3. CASE ~ req[r].alert
    BY <2>1, <2>3, ShellMoves
  <2> QED
    BY <2>2, <2>3
<1>8. ASSUME NEW r \in Reqs, Alert(r)
      PROVE  ShellInv'
  <2>1. /\ UNCHANGED <<metrics, stops>> /\ req[r].status >= 500 /\ Moves(r, "end")
        /\ told' = told \cup {<<r, req[r].status>>}
    BY <1>8, ShellTyped DEF Alert, At, ShellOK
  <2> QED
    BY <2>1, ShellMoves
<1>9. CASE Stop
  BY <1>9, ShellStops
<1>10. CASE Outside \/ UNCHANGED vars
  BY <1>1, <1>10 DEF Outside, vars
<1> QED
  BY <1>3, <1>4, <1>5, <1>6, <1>7, <1>8, <1>9, <1>10 DEF Next

LEMMA ShellInit == Init => RequestsInv
<1> SUFFICES ASSUME Init
             PROVE  RequestsInv
  OBVIOUS
<1>1. KeysInv /\ SitesInv /\ PostersInv /\ ProjectsInv
  BY KeysInit, SitesInit, PostersInit, ProjectsInit DEF Init
<1>2. PICK mix \in Mixes :
        req = [r \in Reqs |-> [at |-> "idle", area |-> mix[r][1], origin |-> mix[r][2],
                               status |-> 0, alert |-> FALSE, allowed |-> FALSE,
                               lost |-> FALSE, counted |-> FALSE]]
  BY DEF Init
<1>3. \A r \in Reqs : mix[r][1] \in Areas /\ mix[r][2] \in Origins
  BY MixesAssumption
<1>4. ASSUME NEW r \in Reqs
      PROVE  /\ req[r] \in Request /\ req[r].at = "idle" /\ req[r].status = 0 /\ req[r].alert = FALSE
             /\ req[r].lost = FALSE /\ req[r].counted = FALSE
  BY <1>2, <1>3 DEF Request, Statuses
<1>5. req \in [Reqs -> Request]
  BY <1>2, <1>4
<1>6. told = {} /\ metrics = [total |-> 0, errors |-> 0] /\ stops = 0
  BY DEF Init
<1>7. NumbersAreRight
  <2>1. /\ {r \in Reqs : req[r].counted} = {}
        /\ {r \in Reqs : req[r].counted /\ req[r].status >= 500} = {}
    BY <1>4
  <2> QED
    BY <1>6, <2>1, FS_EmptySet DEF NumbersAreRight
<1>8. ASSUME NEW r \in Reqs
      PROVE  ShellOK(r)
  <2>1. req[r].at = "idle" /\ req[r].status = 0 /\ ~ req[r].alert /\ ~ req[r].counted /\ ~ req[r].lost
    BY <1>4
  <2>2. ~ (req[r].status >= 500) /\ ~ (req[r].status >= 400) /\ req[r].status # 200
    BY <2>1
  <2> QED
    BY <2>1, <2>2 DEF ShellOK
<1>9. stops \in 0..MaxStops
  BY <1>6, BoundsAssumption
<1> QED
  BY <1>1, <1>5, <1>6, <1>7, <1>8, <1>9 DEF RequestsInv, ShellInv

-----------------------------------------------------------------------------
(* The theorems *)

\* The invariant above holds in every behaviour.
LEMMA RequestsInvariant == Spec => []RequestsInv
<1>1. RequestsInv /\ [Next]_vars => RequestsInv'
  BY PartsStep, ShellStep DEF PartsKept, RequestsInv
<1> QED
  BY <1>1, ShellInit, PTL DEF Spec

\* Whatever requests arrive and however their handlers interleave, the rows keep their
\* types and rules, every error can be read by the page it is meant for, and the numbers
\* of the process are those of its answers (app/core/errors.py, metrics.py and the parts).
THEOREM RequestsAreHandled == Spec => []Inv
<1>1. RequestsInv => Inv
  <2> SUFFICES ASSUME RequestsInv
               PROVE  Inv
    OBVIOUS
  <2>1. TypeOK
    BY DEF TypeOK, RequestsInv, ShellInv, KeysInv, SitesInv, PostersInv, ProjectsInv
  <2>2. ErrorsAreReadable
    BY ShellTyped DEF ErrorsAreReadable, ShellOK
  <2> QED
    BY <2>1, <2>2 DEF Inv, RequestsInv, ShellInv, KeysInv, SitesInv, ProjectsInv
<1> QED
  BY <1>1, RequestsInvariant, PTL

\* Every failure of the server is mailed under its own status unless the process ended
\* before, and nothing else ever is (failure_alerts.py, _should_send_failure_alert).
THEOREM TeamIsTold == Spec => []FailuresAreTold
<1>1. RequestsInv => FailuresAreTold
  BY ShellTyped DEF FailuresAreTold, ShellOK, At
<1> QED
  BY <1>1, RequestsInvariant, PTL

\* No handler brings back a key that is revoked, deleted or has expired, nor a page that
\* is not live, whatever it read before the row changed.
THEOREM DeadRowsStayDead == Spec => NothingRevives
<1>1. RequestsInv /\ [Next]_vars => [K!DeadKeysStayDead /\ S!DownStaysDown]_vars
  BY PartsStep DEF PartsKept
<1> QED
  BY <1>1, RequestsInvariant, PTL DEF Spec, NothingRevives

\* Two versions of one type carry the same letter only when the requests for them
\* overlapped (_next_version).
THEOREM LettersAreDistinct == Spec => []LettersTellVersions
<1>1. RequestsInv => LettersTellVersions
  BY DEF RequestsInv, PostersInv, LettersTellVersions
<1> QED
  BY <1>1, RequestsInvariant, PTL

\* Every prompt for posters demands the files of its slots and makes nothing up that some
\* source of the brand knows, whatever sources know something and whatever is asked for
\* (build_poster_system_prompt).
THEOREM PromptsAreHonest == Spec => []PromptsAreExact
<1>1. RequestsInv => PromptsAreExact
  BY DEF RequestsInv, PostersInv, PromptsAreExact
<1> QED
  BY <1>1, RequestsInvariant, PTL

\* What a client was told has happened has happened for good, whatever other handlers do
\* before and after and whether or not the process ends.
THEOREM AnswersHold == Spec => []AnswersAreKept
<1>1. RequestsInv => AnswersAreKept
  <2> SUFFICES ASSUME RequestsInv
               PROVE  AnswersAreKept
    OBVIOUS
  <2>1. J!FormsAreKept /\ J!IdsAreKept
    BY ProjectsArePromised DEF RequestsInv
  <2>2. ASSUME NEW r \in Reqs, Told(r)
        PROVE  /\ req[r].area = "keys" /\ Call(r).op = "revoke" => ~K!Valid(Call(r).k)
               /\ req[r].area = "keys" /\ Call(r).op = "delete" => ~K!Stored(Call(r).k)
               /\ req[r].area = "sites" /\ Call(r).op = "unpublish" => ~S!Live(Call(r).s)
               /\ req[r].area = "sites" /\ Call(r).op = "delete" => ~S!Stored(Call(r).s)
               /\ req[r].area = "posters" /\ Call(r).op = "delete" => ~P!Stored(Call(r).a)
               /\ req[r].area = "projects" /\ Call(r).op = "remove" => ~document
               /\ req[r].area = "projects" /\ Call(r).op = "close" => ~account
    <3>1. req[r].area # "other" => Call(r).at = "end" /\ Call(r).result \notin Exceptions
      BY <2>2, ShellTyped DEF Told, ShellOK
    <3>2. CASE req[r].area = "keys"
      <4>1. Call(r) = keycall[r]
        BY <3>2 DEF Call
      <4>2. keycall[r].at = "end" /\ keycall[r].result = "fine"
        <5>1. keycall[r].result \in {"fine", "unauthorized", "forbidden", "not_found", "crash"}
          BY KeyTyped DEF RequestsInv, K!Call, K!Results
        <5>2. {"unauthorized", "forbidden", "not_found", "crash"} \subseteq Exceptions
          BY DEF Exceptions, StatusOf
        <5> QED
          BY <3>1, <3>2, <4>1, <5>1, <5>2
      <4>3. KeyCallOK(keycall[r])
        BY DEF RequestsInv, KeysInv
      <4> QED
        BY <3>2, <4>1, <4>2, <4>3 DEF KeyCallOK, K!Dead, K!Valid, K!Stored
    <3>3. CASE req[r].area = "sites"
      <4>1. Call(r) = sitecall[r]
        BY <3>3 DEF Call
      <4>2. SiteCallOK(sitecall[r])
        BY DEF RequestsInv, SitesInv
      <4>3. sitecall[r].op \in {"unpublish", "delete"} =>
              sitecall[r].at = "end" /\ sitecall[r].result = "fine"
        <5>1. S!Results \subseteq {"fine", "stream"} \cup Exceptions
          BY DEF S!Results, S!Legacy, S!LegacyAnswers, Exceptions, StatusOf
        <5>2. {"unpublish", "delete"} \cap S!Legacy = {}
          BY DEF S!Legacy, S!LegacyAnswers
        <5>3. sitecall[r].result \in S!Results
          BY SiteTyped DEF RequestsInv, S!Call
        <5> QED
          BY <3>1, <3>3, <4>1, <4>2, <5>1, <5>2, <5>3 DEF SiteCallOK
      <4> QED
        BY <3>3, <4>1, <4>2, <4>3 DEF SiteCallOK, S!Stored
    <3>4. CASE req[r].area = "posters"
      <4>1. Call(r) = postercall[r]
        BY <3>4 DEF Call
      <4>2. PosterCallOK(postercall[r]) /\ postercall[r] \in P!Call
        BY PosterTyped DEF RequestsInv
      <4>3. postercall[r].op = "delete" =>
              postercall[r].at = "end" /\ postercall[r].result = "fine"
        <5>1. P!Results \subseteq {"fine", "stream"} \cup Exceptions
          BY DEF P!Results, Exceptions, StatusOf
        <5> QED
          BY <3>1, <3>4, <4>1, <4>2, <5>1 DEF PosterCallOK, P!Call
      <4> QED
        BY <3>4, <4>1, <4>2, <4>3 DEF PosterCallOK, P!Stored
    <3>5. CASE req[r].area = "projects"
      <4>1. Call(r) = projectcall[r]
        BY <3>5 DEF Call
      <4>2. ProjectOwn(r, projectcall[r]) /\ projectcall[r] \in J!Call
        BY ProjectTyped DEF RequestsInv
      <4>3. projectcall[r].at = "end" /\ projectcall[r].result = "fine"
        <5>1. J!Results \subseteq {"fine"} \cup Exceptions
          BY DEF J!Results, Exceptions, StatusOf
        <5> QED
          BY <3>1, <3>5, <4>1, <4>2, <5>1 DEF J!Call
      <4> QED
        BY <3>5, <4>1, <4>2, <4>3 DEF ProjectOwn
    <3> QED
      BY <3>2, <3>3, <3>4, <3>5
  <2> QED
    BY <2>1, <2>2 DEF AnswersAreKept
<1> QED
  BY <1>1, RequestsInvariant, PTL


-----------------------------------------------------------------------------
(***************************************************************************)
(* The mailer of the alerts keeps to its limit, for every number of them   *)
(* and whatever the window, the limits and the answers of the provider     *)
(* are.                                                                    *)
(*                                                                         *)
(* The deque holds the last MaxSends slots, so that a slot lies a window   *)
(* after the one MaxSends places before it.  Number the slots in the order *)
(* in which the lock was taken, and take them modulo MaxSends: two slots   *)
(* of one class lie a window apart, and a window holds one of each class.  *)
(***************************************************************************)

\* A sender reads the clock before it uses it.
NowIsPast == \A a \in Alerts : sender[a].now <= clock

\* Only a sender with an attempt left is told to wait.
LimitedCanRetry == \A a \in Alerts : sender[a].pc = "limited" => CanRetry(a)

\* A deque d holds the latest elements of a sequence r, the oldest first.
Latest(d, r) ==
  /\ Len(d) = Sooner(Len(r), MaxSends)
  /\ \A j \in 1..Len(d) : d[j] = r[Len(r) - Len(d) + j]

SlotsAreLatest == Latest(slots, reserved)

\* Slots of one class modulo MaxSends lie a window apart.
Spaced ==
  \A i, j \in DOMAIN reserved :
    i < j /\ i % MaxSends = j % MaxSends => reserved[i] + Window <= reserved[j]

\* The provider's cooldown has seen every answer, and ends after the longest.
CooldownCovers ==
  /\ cooldown <= clock + MaxRetry
  /\ \A a \in Alerts : sender[a].notBefore <= cooldown

Typed == AlertsTypeOK /\ NowIsPast /\ LimitedCanRetry

-----------------------------------------------------------------------------
(* Arithmetic and the deque *)

\* The quotient of two numbers is a number, and at least one if it can be.
LEMMA Quotient ==
  ASSUME NEW k \in Nat \ {0}, NEW n \in Nat
  PROVE  n \div k \in Nat /\ (k <= n => n \div k >= 1)
<1> DEFINE q == n \div k
<1>1. n = k * q + (n % k) /\ q \in Int /\ n % k \in 0..(k - 1)
  BY Z3
<1> HIDE DEF q
<1>2. k * q > -k /\ (k <= n => k * q > 0)
  BY <1>1, Z3
<1>3. q >= 0 /\ (k <= n => q >= 1)
  <2>1. CASE q <= -1
    BY <1>1, <1>2, <2>1, Z3
  <2>2. CASE q = 0
    BY <1>1, <1>2, <2>2, Z3
  <2> QED
    BY <1>1, <2>1, <2>2
<1> QED
  BY <1>1, <1>3 DEF q

\* Dividing n - k is dividing n once less.
LEMMA OneLess ==
  ASSUME NEW k \in Nat \ {0}, NEW n \in Nat, k <= n
  PROVE  /\ (n - k) % k = n % k
         /\ (n - k) \div k = (n \div k) - 1
<1> DEFINE m == n - k
<1>1. /\ n = k * (n \div k) + (n % k) /\ n \div k \in Int /\ n % k \in 0..(k - 1)
      /\ m = k * (m \div k) + (m % k) /\ m \div k \in Int /\ m % k \in 0..(k - 1)
  BY Z3
<1> DEFINE d == (n \div k) - 1 - (m \div k)
<1>2. k * d = (m % k) - (n % k)
  BY <1>1, Z3
<1>3. d < 1 /\ d > -1
  <2>1. d \in Int /\ k * d < k /\ k * d > -k
    BY <1>1, <1>2, Z3
  <2> HIDE DEF d
  <2>2. CASE d >= 1
    BY <2>1, <2>2, Z3
  <2>3. CASE d <= -1
    BY <2>1, <2>3, Z3
  <2> QED
    BY <2>1, <2>2, <2>3
<1>4. d = 0
  BY <1>1, <1>3
<1> QED
  BY <1>1, <1>2, <1>4

\* The numbers of one class modulo k are at least k apart.
LEMMA Classes ==
  ASSUME NEW k \in Nat \ {0}, NEW i \in Nat, NEW n \in Nat, i < n, i % k = n % k
  PROVE  k <= n /\ i <= n - k
<1>1. /\ i = k * (i \div k) + (i % k) /\ i \div k \in Int /\ i % k \in 0..(k - 1)
      /\ n = k * (n \div k) + (n % k) /\ n \div k \in Int /\ n % k \in 0..(k - 1)
  BY Z3
<1>2. n - i = k * ((n \div k) - (i \div k))
  BY <1>1, Z3
<1>3. (n \div k) - (i \div k) >= 1
  BY <1>1, <1>2, Z3
<1>4. n - i >= k
  BY <1>1, <1>2, <1>3, Z3
<1> QED
  BY <1>4

\* What a full deque forgets is its oldest element.
LEMMA PushLatest ==
  ASSUME NEW d \in Seq(Nat), NEW r \in Seq(Nat), NEW t \in Nat, Latest(d, r)
  PROVE  Push(d, t) \in Seq(Nat) /\ Latest(Push(d, t), Append(r, t))
<1> DEFINE longer == Append(d, t)
           all == Append(r, t)
<1>1. /\ longer \in Seq(Nat) /\ Len(longer) = Len(d) + 1
      /\ \A j \in 1..Len(d) : longer[j] = d[j]
      /\ longer[Len(d) + 1] = t
  OBVIOUS
<1>2. /\ Len(all) = Len(r) + 1
      /\ \A j \in 1..Len(r) : all[j] = r[j]
      /\ all[Len(r) + 1] = t
  OBVIOUS
<1>0. Len(d) \in Nat /\ Len(r) \in Nat /\ MaxSends \in Nat \ {0}
  BY ParametersAssumption
<1>3. /\ Len(d) = Sooner(Len(r), MaxSends)
      /\ \A j \in 1..Len(d) : d[j] = r[Len(r) - Len(d) + j]
  BY DEF Latest
<1>a. Len(d) <= Len(r) /\ Len(d) <= MaxSends
  BY <1>0, <1>3 DEF Sooner
<1>4. Push(d, t) = IF Len(longer) > MaxSends THEN Tail(longer) ELSE longer
  BY DEF Push
<1> HIDE DEF longer, all
<1>5. ASSUME NEW j \in 1..Len(longer)
      PROVE  longer[j] = all[Len(all) - Len(longer) + j]
  <2>1. CASE j = Len(d) + 1
    BY <1>0, <1>1, <1>2, <2>1
  <2>2. CASE j \in 1..Len(d)
    <3>1. Len(r) - Len(d) + j \in 1..Len(r)
      BY <1>0, <1>a, <2>2
    <3>2. Len(all) - Len(longer) + j = Len(r) - Len(d) + j
      BY <1>0, <1>1, <1>2, <2>2
    <3> QED
      BY <1>1, <1>2, <1>3, <2>2, <3>1, <3>2
  <2> QED
    BY <1>0, <1>1, <2>1, <2>2
<1>6. CASE Len(longer) > MaxSends
  <2> DEFINE rest == Tail(longer)
  <2>1. /\ rest \in Seq(Nat) /\ Len(rest) = Len(longer) - 1
        /\ \A j \in 1..Len(rest) : rest[j] = longer[j + 1]
    BY <1>0, <1>1
  <2>2. Push(d, t) = rest
    BY <1>4, <1>6
  <2> HIDE DEF rest
  <2>3. Len(rest) = Sooner(Len(all), MaxSends)
    BY <1>0, <1>1, <1>2, <1>a, <1>6, <2>1 DEF Sooner
  <2>4. ASSUME NEW j \in 1..Len(rest)
        PROVE  rest[j] = all[Len(all) - Len(rest) + j]
    <3>1. /\ j + 1 \in 1..Len(longer)
          /\ Len(all) - Len(longer) + (j + 1) = Len(all) - Len(rest) + j
      BY <1>0, <1>1, <1>2, <2>1
    <3> QED
      BY <1>5, <2>1, <3>1
  <2> QED
    BY <2>1, <2>2, <2>3, <2>4 DEF Latest, all
<1>7. CASE Len(longer) <= MaxSends
  <2>1. Len(longer) = Sooner(Len(all), MaxSends)
    BY <1>0, <1>1, <1>2, <1>3, <1>7 DEF Sooner
  <2>2. Push(d, t) = longer
    BY <1>0, <1>1, <1>4, <1>7
  <2> QED
    BY <1>1, <1>5, <2>1, <2>2 DEF Latest, all
<1> QED
  BY <1>0, <1>1, <1>6, <1>7

-----------------------------------------------------------------------------
(* Type correctness *)

LEMMA TypedInit == AlertsInit => Typed
  BY ParametersAssumption
  DEF AlertsInit, Typed, AlertsTypeOK, NowIsPast, LimitedCanRetry, Sender, NewSender

\* A slot is a time that lies neither before the clock of its sender nor before
\* the end of the cooldown.
LEMMA SlotIsTime ==
  ASSUME AlertsTypeOK, NEW now \in Nat
  PROVE  /\ Slot(now) \in Nat
         /\ now <= Slot(now) /\ cooldown <= Slot(now)
<1>1. Len(slots) \in Nat /\ (Len(slots) >= MaxSends => slots[1] \in Nat)
  BY ParametersAssumption DEF AlertsTypeOK
<1> QED
  BY <1>1, ParametersAssumption DEF AlertsTypeOK, Slot, Later

\* The provider's answer is kept within its bounds.
LEMMA BoundedRetry ==
  ASSUME NEW r \in Nat
  PROVE  Bounded(r) \in Nat /\ Bounded(r) <= MaxRetry
  BY ParametersAssumption DEF Bounded, Later, Sooner

\* A step of one sender keeps the types when the new state of the sender is one.
LEMMA OneSender ==
  ASSUME Typed, NEW a \in Alerts, NEW s \in Sender,
         s.now <= clock, s.pc = "limited" => s.attempt < MaxAttempts,
         sender' = [sender EXCEPT ![a] = s], clock' = clock
  PROVE  sender' \in [Alerts -> Sender] /\ NowIsPast' /\ LimitedCanRetry'
<1>1. /\ sender \in [Alerts -> Sender]
      /\ \A b \in Alerts : sender'[b] = IF b = a THEN s ELSE sender[b]
  BY DEF Typed, AlertsTypeOK
<1> QED
  BY <1>1 DEF Typed, NowIsPast, LimitedCanRetry, CanRetry

LEMMA TypedNext ==
  ASSUME Typed, SlotsAreLatest, [AlertsNext]_alertsVars
  PROVE  Typed'
<1>1. ASSUME NEW a \in Alerts, ReadClock(a)
      PROVE  Typed'
  <2> DEFINE s == [sender[a] EXCEPT !.pc = "lock", !.now = clock]
  <2>1. s \in Sender /\ s.now = clock /\ s.pc = "lock"
    BY DEF Typed, AlertsTypeOK, Sender
  <2>2. /\ sender' = [sender EXCEPT ![a] = s]
        /\ UNCHANGED <<clock, slots, cooldown, reserved>>
    BY <1>1 DEF ReadClock
  <2> HIDE DEF s
  <2>3. s.now <= clock
    BY <2>1 DEF Typed, AlertsTypeOK
  <2> QED
    BY <2>1, <2>2, <2>3, OneSender DEF Typed, AlertsTypeOK
<1>2. ASSUME NEW a \in Alerts, Reserve(a)
      PROVE  Typed'
  <2> DEFINE slot == Slot(sender[a].now)
             s == [sender[a] EXCEPT !.pc = "sleep", !.now = 0,
                                    !.until = clock + (slot - sender[a].now)]
  <2>1. /\ sender[a] \in Sender /\ sender[a].now \in Nat /\ sender[a].now <= clock
        /\ clock \in Nat
    BY DEF Typed, AlertsTypeOK, NowIsPast, Sender
  <2>2. slot \in Nat
    BY <2>1, SlotIsTime DEF Typed
  <2>3. /\ sender' = [sender EXCEPT ![a] = s]
        /\ slots' = Push(slots, slot) /\ reserved' = Append(reserved, slot)
        /\ UNCHANGED <<clock, cooldown>>
    BY <1>2 DEF Reserve
  <2> HIDE DEF slot
  <2>4. clock + (slot - sender[a].now) \in Nat
    BY <2>1, <2>2
  <2>5. s \in Sender /\ s.now = 0 /\ s.pc = "sleep"
    BY <2>1, <2>4 DEF Sender
  <2> HIDE DEF s
  <2>6. slots' \in Seq(Nat) /\ reserved' \in Seq(Nat)
    BY <2>2, <2>3, PushLatest DEF Typed, AlertsTypeOK, SlotsAreLatest
  <2>7. s.now <= clock
    BY <2>1, <2>5
  <2> QED
    BY <2>3, <2>5, <2>6, <2>7, OneSender DEF Typed, AlertsTypeOK
<1>3. ASSUME NEW a \in Alerts, Settle(a)
      PROVE  Typed'
  <2> DEFINE s == [NewSender EXCEPT !.pc = "done"]
  <2>1. s \in Sender /\ s.now = 0 /\ s.pc = "done"
    BY ParametersAssumption DEF NewSender, Sender
  <2>2. /\ sender' = [sender EXCEPT ![a] = s]
        /\ UNCHANGED <<clock, slots, cooldown, reserved>>
    BY <1>3 DEF Settle
  <2> HIDE DEF s
  <2>3. s.now <= clock
    BY <2>1 DEF Typed, AlertsTypeOK
  <2> QED
    BY <2>1, <2>2, <2>3, OneSender DEF Typed, AlertsTypeOK
<1>4. ASSUME NEW a \in Alerts, NEW r \in RetryAfters, RateLimited(a, r)
      PROVE  Typed'
  <2> DEFINE s == [sender[a] EXCEPT !.pc = "limited", !.until = 0, !.retryAfter = r]
  <2>1. r \in Nat /\ sender[a] \in Sender
    BY ParametersAssumption DEF Typed, AlertsTypeOK
  <2>2. s \in Sender /\ s.now = sender[a].now /\ s.attempt = sender[a].attempt
    BY <2>1 DEF Sender
  <2>3. /\ sender' = [sender EXCEPT ![a] = s]
        /\ UNCHANGED <<clock, slots, cooldown, reserved>>
        /\ sender[a].attempt < MaxAttempts
    BY <1>4 DEF RateLimited, CanRetry
  <2> HIDE DEF s
  <2>4. s.now <= clock /\ s.attempt < MaxAttempts
    BY <2>2, <2>3 DEF Typed, NowIsPast
  <2> QED
    BY <2>2, <2>3, <2>4, OneSender DEF Typed, AlertsTypeOK
<1>5. ASSUME NEW a \in Alerts, SetCooldown(a)
      PROVE  Typed'
  <2> DEFINE until == clock + Bounded(sender[a].retryAfter)
             s == [sender[a] EXCEPT !.pc = "wait", !.attempt = sender[a].attempt + 1,
                                    !.retryAfter = 0, !.notBefore = until]
  <2>1. /\ sender[a] \in Sender /\ sender[a].retryAfter \in Nat
        /\ clock \in Nat /\ cooldown \in Nat
    BY DEF Typed, AlertsTypeOK, Sender
  <2>2. until \in Nat
    BY <2>1, BoundedRetry
  <2>3. /\ sender' = [sender EXCEPT ![a] = s]
        /\ cooldown' = Extended(until)
        /\ UNCHANGED <<clock, slots, reserved>>
    BY <1>5 DEF SetCooldown
  <2> HIDE DEF until
  <2>4. sender[a].attempt + 1 \in 1..MaxAttempts
    <3>1. sender[a].attempt < MaxAttempts
      BY <1>5 DEF SetCooldown, Typed, LimitedCanRetry, CanRetry
    <3> QED
      BY <2>1, <3>1, ParametersAssumption DEF Sender
  <2>5. s \in Sender /\ s.now = sender[a].now /\ s.pc = "wait"
    BY <2>1, <2>2, <2>4 DEF Sender
  <2>6. cooldown' \in Nat
    BY <2>1, <2>2, <2>3 DEF Extended, Later
  <2> HIDE DEF s
  <2>7. s.now <= clock
    BY <2>5 DEF Typed, NowIsPast
  <2> QED
    BY <2>3, <2>5, <2>6, <2>7, OneSender DEF Typed, AlertsTypeOK
<1>6. ASSUME Tick
      PROVE  Typed'
  <2>1. \A a \in Alerts : sender[a].now \in Nat /\ sender[a].now <= clock
    BY DEF Typed, AlertsTypeOK, NowIsPast, Sender
  <2> QED
    BY <1>6, <2>1 DEF Tick, Typed, AlertsTypeOK, NowIsPast, LimitedCanRetry, CanRetry
<1>7. ASSUME UNCHANGED alertsVars
      PROVE  Typed'
  BY <1>7 DEF alertsVars, Typed, AlertsTypeOK, NowIsPast, LimitedCanRetry, CanRetry
<1> QED
  BY <1>1, <1>2, <1>3, <1>4, <1>5, <1>6, <1>7 DEF AlertsNext, SenderStep

-----------------------------------------------------------------------------
(* The inductive invariant *)

AlertsInv ==
  /\ Typed /\ SlotsAreLatest /\ Spaced
  /\ CooldownCovers /\ RetryHonoured /\ ScheduleIsBounded

LEMMA AlertsStart == AlertsInit => AlertsInv
<1> SUFFICES ASSUME AlertsInit PROVE AlertsInv
  OBVIOUS
<1>1. SlotsAreLatest
  BY ParametersAssumption DEF AlertsInit, SlotsAreLatest, Latest, Sooner
<1>2. Spaced /\ ScheduleIsBounded
  BY DEF AlertsInit, Spaced, ScheduleIsBounded
<1>3. CooldownCovers /\ RetryHonoured
  BY ParametersAssumption DEF AlertsInit, CooldownCovers, RetryHonoured, NewSender
<1> QED
  BY <1>1, <1>2, <1>3, TypedInit DEF AlertsInv

\* What a new slot is, with n slots before it.
LEMMA NewSlot ==
  ASSUME Typed, SlotsAreLatest, NEW now \in Nat
  PROVE  LET n == Len(reserved)
         IN  IF n >= MaxSends
             THEN /\ n - MaxSends + 1 \in DOMAIN reserved
                  /\ Slot(now) = Later(Later(now, cooldown),
                                       reserved[n - MaxSends + 1] + Window)
             ELSE Slot(now) = Later(now, cooldown)
<1> DEFINE n == Len(reserved)
<1>1. n \in Nat /\ MaxSends \in Nat \ {0} /\ DOMAIN reserved = 1..n
  BY ParametersAssumption DEF Typed, AlertsTypeOK
<1>2. \A j \in 1..Len(slots) : slots[j] = reserved[n - Len(slots) + j]
  BY DEF SlotsAreLatest, Latest
<1>5. Len(slots) = Sooner(n, MaxSends)
  BY DEF SlotsAreLatest, Latest
<1> HIDE DEF n
<1>3. CASE n >= MaxSends
  <2>1. Len(slots) = MaxSends /\ 1 \in 1..Len(slots)
    BY <1>1, <1>3, <1>5 DEF Sooner
  <2>2. slots[1] = reserved[n - MaxSends + 1]
    BY <1>2, <2>1
  <2>3. n - MaxSends + 1 \in 1..n
    BY <1>1, <1>3
  <2> QED
    BY <1>1, <1>3, <2>1, <2>2, <2>3 DEF Slot, n
<1>4. CASE ~ (n >= MaxSends)
  <2>1. ~ (Len(slots) >= MaxSends)
    BY <1>1, <1>4, <1>5 DEF Sooner
  <2> QED
    BY <1>4, <2>1 DEF Slot, n
<1> QED
  BY <1>3, <1>4

\* A new slot lies a window after the slots of its class, and not too far ahead.
LEMMA ReserveKeeps ==
  ASSUME AlertsInv, NEW a \in Alerts, Reserve(a)
  PROVE  SlotsAreLatest' /\ Spaced' /\ ScheduleIsBounded'
<1> DEFINE n == Len(reserved)
           now == sender[a].now
           t == Slot(now)
           oldest == n - MaxSends + 1
<1>1. /\ n \in Nat /\ MaxSends \in Nat \ {0} /\ Window \in Nat /\ MaxRetry \in Nat
      /\ clock \in Nat /\ cooldown \in Nat /\ now \in Nat /\ now <= clock
      /\ reserved \in Seq(Nat) /\ slots \in Seq(Nat) /\ DOMAIN reserved = 1..n
  BY ParametersAssumption DEF AlertsInv, Typed, AlertsTypeOK, NowIsPast, Sender
<1>2. t \in Nat
  BY <1>1, SlotIsTime DEF AlertsInv, Typed
<1>3. /\ slots' = Push(slots, t) /\ reserved' = Append(reserved, t)
      /\ clock' = clock
  BY DEF Reserve
<1>4. IF n >= MaxSends
      THEN oldest \in 1..n /\ t = Later(Later(now, cooldown), reserved[oldest] + Window)
      ELSE t = Later(now, cooldown)
  BY <1>1, NewSlot DEF AlertsInv
<1> HIDE DEF t, now
<1>5. /\ DOMAIN reserved' = 1..(n + 1) /\ reserved'[n + 1] = t
      /\ \A j \in 1..n : reserved'[j] = reserved[j] /\ reserved[j] \in Nat
  BY <1>1, <1>2, <1>3
<1> HIDE DEF n
<1>6. SlotsAreLatest'
  BY <1>1, <1>2, <1>3, PushLatest DEF AlertsInv, SlotsAreLatest
<1>7. ASSUME NEW i \in 1..(n + 1), NEW j \in 1..(n + 1),
             i < j, i % MaxSends = j % MaxSends
      PROVE  reserved'[i] + Window <= reserved'[j]
  <2>1. CASE j \in 1..n
    <3>1. i \in 1..n
      BY <1>1, <1>7, <2>1
    <3>2. reserved[i] + Window <= reserved[j]
      BY <1>1, <1>7, <2>1, <3>1 DEF AlertsInv, Spaced
    <3> QED
      BY <1>5, <2>1, <3>1, <3>2
  <2>2. CASE j = n + 1
    <3>1. MaxSends <= n + 1 /\ i <= n + 1 - MaxSends /\ i \in 1..n
      <4>1. /\ n + 1 \in Nat /\ i \in Nat /\ i < n + 1 /\ i \in 1..n
            /\ i % MaxSends = (n + 1) % MaxSends
        BY <1>1, <1>7, <2>2
      <4>2. MaxSends <= n + 1 /\ i <= (n + 1) - MaxSends
        BY <1>1, <4>1, Classes
      <4> QED
        BY <1>1, <4>1, <4>2
    <3>2. n >= MaxSends /\ i <= oldest
      BY <1>1, <3>1
    <3>3. oldest \in 1..n /\ oldest % MaxSends = j % MaxSends
      <4>1. (n + 1) - MaxSends = oldest
        BY <1>1
      <4>2. ((n + 1) - MaxSends) % MaxSends = (n + 1) % MaxSends
        <5>1. n + 1 \in Nat /\ MaxSends <= n + 1
          BY <1>1, <3>1
        <5> QED
          BY <1>1, <5>1, OneLess
      <4> QED
        BY <1>4, <2>2, <3>2, <4>1, <4>2
    <3>4. reserved[oldest] + Window <= t
      BY <1>1, <1>4, <1>5, <3>2, <3>3 DEF Later
    <3>5. reserved[i] <= reserved[oldest]
      <4>1. CASE i = oldest
        BY <1>5, <3>1, <4>1
      <4>2. CASE i < oldest
        <5>1. reserved[i] + Window <= reserved[oldest]
          BY <1>1, <1>7, <3>1, <3>3, <4>2 DEF AlertsInv, Spaced
        <5> QED
          BY <1>1, <1>5, <3>1, <3>3, <5>1
      <4> QED
        BY <1>1, <3>1, <3>2, <4>1, <4>2
    <3> QED
      BY <1>1, <1>2, <1>5, <2>2, <3>1, <3>3, <3>4, <3>5
  <2> QED
    BY <1>1, <2>1, <2>2
<1>8. t <= clock + MaxRetry + Window * (n \div MaxSends)
  <2>1. Later(now, cooldown) <= clock + MaxRetry /\ Later(now, cooldown) \in Nat
    BY <1>1 DEF AlertsInv, CooldownCovers, Later
  <2>2. CASE n >= MaxSends
    <3>1. reserved[oldest] <= clock + MaxRetry + Window * ((oldest - 1) \div MaxSends)
      BY <1>1, <1>4, <2>2 DEF AlertsInv, ScheduleIsBounded
    <3>2. (oldest - 1) \div MaxSends = (n \div MaxSends) - 1
      <4>1. oldest - 1 = n - MaxSends
        BY <1>1
      <4> QED
        BY <1>1, <2>2, <4>1, OneLess
    <3>3. n \div MaxSends \in Nat /\ n \div MaxSends >= 1
      BY <1>1, <2>2, Quotient
    <3>4. oldest \in 1..n /\ reserved[oldest] \in Nat
      BY <1>4, <1>5, <2>2
    <3> DEFINE q == n \div MaxSends
    <3>5. /\ reserved[oldest] <= clock + MaxRetry + Window * (q - 1)
          /\ q \in Int /\ q >= 1
      BY <3>1, <3>2, <3>3
    <3> HIDE DEF q, oldest
    <3>6. /\ Window * (q - 1) = Window * q - Window
          /\ Window * q >= 0 /\ Window * q \in Int
      BY <1>1, <3>5, Z3
    <3>7. reserved[oldest] + Window <= clock + MaxRetry + Window * q
      BY <1>1, <3>4, <3>5, <3>6
    <3>8. t <= clock + MaxRetry + Window * q
      BY <1>1, <1>4, <2>1, <2>2, <3>4, <3>6, <3>7 DEF Later
    <3> QED
      BY <3>8 DEF q
  <2>3. CASE ~ (n >= MaxSends)
    <3> DEFINE q == n \div MaxSends
    <3>1. q \in Nat
      BY <1>1, Quotient
    <3> HIDE DEF q
    <3>2. Window * q \in Int /\ Window * q >= 0
      BY <1>1, <3>1, Z3
    <3>3. t <= clock + MaxRetry + Window * q
      BY <1>1, <1>4, <2>1, <2>3, <3>2
    <3> QED
      BY <3>3 DEF q
  <2> QED
    BY <2>2, <2>3
<1>9. ScheduleIsBounded'
  <2>1. ASSUME NEW i \in 1..(n + 1)
        PROVE  reserved'[i] <= clock + MaxRetry + Window * ((i - 1) \div MaxSends)
    <3>1. CASE i \in 1..n
      BY <1>1, <1>5, <3>1 DEF AlertsInv, ScheduleIsBounded
    <3>2. CASE i = n + 1
      <4>1. i - 1 = n
        BY <1>1, <3>2
      <4> QED
        BY <1>5, <1>8, <3>2, <4>1
    <3> QED
      BY <1>1, <3>1, <3>2
  <2> QED
    BY <1>3, <1>5, <2>1 DEF ScheduleIsBounded
<1> QED
  BY <1>5, <1>6, <1>7, <1>9 DEF Spaced

\* A sender that goes to sleep has a slot that its last answer allows.
LEMMA RetryKept ==
  ASSUME AlertsInv, NEW a \in Alerts, Reserve(a)
  PROVE  CooldownCovers' /\ RetryHonoured'
<1> DEFINE now == sender[a].now
           t == Slot(now)
           until == clock + (t - now)
<1>1. /\ clock \in Nat /\ cooldown \in Nat /\ now \in Nat /\ now <= clock
      /\ sender[a] \in Sender /\ sender \in [Alerts -> Sender]
  BY DEF AlertsInv, Typed, AlertsTypeOK, NowIsPast, Sender
<1>2. t \in Nat /\ now <= t /\ cooldown <= t
  BY <1>1, SlotIsTime DEF AlertsInv, Typed
<1>3. /\ UNCHANGED <<clock, cooldown>>
      /\ \A b \in Alerts \ {a} : sender'[b] = sender[b]
      /\ sender'[a].notBefore = sender[a].notBefore /\ sender'[a].until = until
  <2>1. /\ UNCHANGED <<clock, cooldown>>
        /\ sender' = [sender EXCEPT ![a] =
                        [sender[a] EXCEPT !.pc = "sleep", !.now = 0, !.until = until]]
    BY DEF Reserve
  <2> HIDE DEF until
  <2> QED
    BY <1>1, <2>1 DEF Sender
<1> HIDE DEF t, now
<1>4. cooldown <= until
  BY <1>1, <1>2
<1> HIDE DEF until
<1>5. until \in Int /\ sender[a].notBefore \in Nat /\ sender[a].notBefore <= cooldown
  <2>1. until \in Int
    BY <1>1, <1>2 DEF until
  <2> QED
    BY <1>1, <2>1 DEF AlertsInv, CooldownCovers, Sender
<1>6. sender'[a].notBefore <= sender'[a].until
  BY <1>1, <1>3, <1>4, <1>5
<1> QED
  BY <1>3, <1>6 DEF AlertsInv, CooldownCovers, RetryHonoured

\* The answer of the provider is covered by the cooldown from then on.
LEMMA CooldownKept ==
  ASSUME AlertsInv, NEW a \in Alerts, SetCooldown(a)
  PROVE  CooldownCovers' /\ RetryHonoured'
<1> DEFINE until == clock + Bounded(sender[a].retryAfter)
           s == [sender[a] EXCEPT !.pc = "wait", !.attempt = sender[a].attempt + 1,
                                  !.retryAfter = 0, !.notBefore = until]
<1>1. /\ clock \in Nat /\ cooldown \in Nat /\ MaxRetry \in Nat
      /\ sender[a] \in Sender /\ sender \in [Alerts -> Sender]
      /\ sender[a].retryAfter \in Nat
  BY ParametersAssumption DEF AlertsInv, Typed, AlertsTypeOK, Sender
<1>2. until \in Nat /\ until <= clock + MaxRetry
  BY <1>1, BoundedRetry
<1>3. /\ sender' = [sender EXCEPT ![a] = s]
      /\ cooldown' = Extended(until)
      /\ UNCHANGED <<clock, slots, reserved>>
  BY DEF SetCooldown
<1> HIDE DEF until
<1>4. s.notBefore = until /\ s.pc = "wait"
  BY <1>1 DEF Sender
<1> HIDE DEF s
<1>5. /\ sender'[a] = s
      /\ \A b \in Alerts \ {a} : sender'[b] = sender[b] /\ sender[b].notBefore \in Nat
  BY <1>1, <1>3 DEF Sender
<1>6. /\ cooldown <= cooldown' /\ until <= cooldown' /\ cooldown' \in Nat
      /\ cooldown' <= clock + MaxRetry
  BY <1>1, <1>2, <1>3 DEF Extended, Later, AlertsInv, CooldownCovers
<1>7. \A b \in Alerts : sender'[b].notBefore <= cooldown'
  <2>1. \A b \in Alerts \ {a} : sender[b].notBefore <= cooldown'
    BY <1>1, <1>5, <1>6 DEF AlertsInv, CooldownCovers
  <2> QED
    BY <1>4, <1>5, <1>6, <2>1
<1>8. CooldownCovers'
  BY <1>3, <1>6, <1>7 DEF CooldownCovers
<1>9. RetryHonoured'
  BY <1>4, <1>5 DEF AlertsInv, RetryHonoured
<1> QED
  BY <1>8, <1>9

LEMMA AlertsKept == AlertsInv /\ [AlertsNext]_alertsVars => AlertsInv'
<1> SUFFICES ASSUME AlertsInv, [AlertsNext]_alertsVars PROVE AlertsInv'
  OBVIOUS
<1>1. Typed'
  BY TypedNext DEF AlertsInv
<1>2. ASSUME NEW a \in Alerts, Reserve(a)
      PROVE  AlertsInv'
  BY <1>1, <1>2, ReserveKeeps, RetryKept DEF AlertsInv
<1>3. ASSUME UNCHANGED <<clock, slots, reserved>>
      PROVE  SlotsAreLatest' /\ Spaced' /\ ScheduleIsBounded'
  BY <1>3 DEF AlertsInv, SlotsAreLatest, Spaced, ScheduleIsBounded
<1>4. ASSUME NEW a \in Alerts, SetCooldown(a)
      PROVE  AlertsInv'
  <2>1. UNCHANGED <<clock, slots, reserved>>
    BY <1>4 DEF SetCooldown
  <2> QED
    BY <1>1, <1>3, <1>4, <2>1, CooldownKept DEF AlertsInv
<1>5. ASSUME NEW a \in Alerts, NEW s \in Sender,
             s.notBefore = sender[a].notBefore \/ s.notBefore = 0, s.pc # "sleep",
             sender' = [sender EXCEPT ![a] = s],
             UNCHANGED <<clock, slots, cooldown, reserved>>
      PROVE  AlertsInv'
  <2>1. /\ sender \in [Alerts -> Sender] /\ cooldown \in Nat /\ sender'[a] = s
        /\ \A b \in Alerts \ {a} : sender'[b] = sender[b]
    BY <1>5 DEF AlertsInv, Typed, AlertsTypeOK
  <2>2. CooldownCovers'
    BY <1>5, <2>1 DEF AlertsInv, CooldownCovers
  <2>3. RetryHonoured'
    BY <1>5, <2>1 DEF AlertsInv, RetryHonoured
  <2> QED
    BY <1>1, <1>3, <1>5, <2>2, <2>3 DEF AlertsInv
<1>6. ASSUME NEW a \in Alerts, ReadClock(a)
      PROVE  AlertsInv'
  <2> DEFINE s == [sender[a] EXCEPT !.pc = "lock", !.now = clock]
  <2>1. s \in Sender /\ s.notBefore = sender[a].notBefore /\ s.pc = "lock"
    BY DEF AlertsInv, Typed, AlertsTypeOK, Sender
  <2>2. /\ sender' = [sender EXCEPT ![a] = s]
        /\ UNCHANGED <<clock, slots, cooldown, reserved>>
    BY <1>6 DEF ReadClock
  <2> HIDE DEF s
  <2> QED
    BY <1>5, <2>1, <2>2
<1>7. ASSUME NEW a \in Alerts, Settle(a)
      PROVE  AlertsInv'
  <2> DEFINE s == [NewSender EXCEPT !.pc = "done"]
  <2>1. s \in Sender /\ s.notBefore = 0 /\ s.pc = "done"
    BY ParametersAssumption DEF NewSender, Sender
  <2>2. /\ sender' = [sender EXCEPT ![a] = s]
        /\ UNCHANGED <<clock, slots, cooldown, reserved>>
    BY <1>7 DEF Settle
  <2> HIDE DEF s
  <2> QED
    BY <1>5, <2>1, <2>2
<1>8. ASSUME NEW a \in Alerts, NEW r \in RetryAfters, RateLimited(a, r)
      PROVE  AlertsInv'
  <2> DEFINE s == [sender[a] EXCEPT !.pc = "limited", !.until = 0, !.retryAfter = r]
  <2>1. r \in Nat /\ sender[a] \in Sender
    BY ParametersAssumption DEF AlertsInv, Typed, AlertsTypeOK
  <2>2. s \in Sender /\ s.notBefore = sender[a].notBefore /\ s.pc = "limited"
    BY <2>1 DEF Sender
  <2>3. /\ sender' = [sender EXCEPT ![a] = s]
        /\ UNCHANGED <<clock, slots, cooldown, reserved>>
    BY <1>8 DEF RateLimited
  <2> HIDE DEF s
  <2> QED
    BY <1>5, <2>2, <2>3
<1>9. ASSUME Tick
      PROVE  AlertsInv'
  <2>1. clock' = clock + 1 /\ UNCHANGED <<slots, cooldown, sender, reserved>>
    BY <1>9 DEF Tick
  <2>2. clock \in Nat /\ cooldown \in Nat /\ MaxRetry \in Nat /\ reserved \in Seq(Nat)
    BY ParametersAssumption DEF AlertsInv, Typed, AlertsTypeOK
  <2>3. CooldownCovers' /\ RetryHonoured'
    BY <2>1, <2>2 DEF AlertsInv, CooldownCovers, RetryHonoured
  <2>4. SlotsAreLatest' /\ Spaced'
    BY <2>1 DEF AlertsInv, SlotsAreLatest, Spaced
  <2>5. ASSUME NEW i \in DOMAIN reserved
        PROVE  reserved[i] <= clock' + MaxRetry + Window * ((i - 1) \div MaxSends)
    <3> DEFINE ahead == Window * ((i - 1) \div MaxSends)
    <3>1. reserved[i] <= clock + MaxRetry + ahead
      BY DEF AlertsInv, ScheduleIsBounded
    <3>2. ahead \in Int /\ reserved[i] \in Nat
      <4>1. i - 1 \in Nat
        BY <2>2
      <4>2. (i - 1) \div MaxSends \in Nat
        BY <4>1, Quotient, ParametersAssumption
      <4> QED
        BY <2>2, <4>2, ParametersAssumption
    <3> HIDE DEF ahead
    <3>3. reserved[i] <= clock' + MaxRetry + ahead
      BY <2>1, <2>2, <3>1, <3>2
    <3> QED
      BY <3>3 DEF ahead
  <2> QED
    BY <1>1, <2>1, <2>3, <2>4, <2>5 DEF AlertsInv, ScheduleIsBounded
<1>10. ASSUME UNCHANGED alertsVars
       PROVE  AlertsInv'
  BY <1>1, <1>3, <1>10 DEF alertsVars, AlertsInv, CooldownCovers, RetryHonoured
<1> QED
  BY <1>2, <1>4, <1>6, <1>7, <1>8, <1>9, <1>10 DEF AlertsNext, SenderStep

LEMMA AlertsInvariant == AlertsSpec => []AlertsInv
  BY AlertsStart, AlertsKept, PTL DEF AlertsSpec

-----------------------------------------------------------------------------
(* What follows from the invariant *)

\* A window holds at most one slot of each class, and there are MaxSends classes.
LEMMA WindowHoldsClasses == AlertsInv => WindowLimit
<1> SUFFICES ASSUME AlertsInv, NEW i \in DOMAIN reserved
             PROVE  Cardinality({j \in DOMAIN reserved : /\ reserved[i] <= reserved[j]
                                                         /\ reserved[j] < reserved[i] + Window})
                      <= MaxSends
  BY DEF WindowLimit
<1> DEFINE inside == {j \in DOMAIN reserved : /\ reserved[i] <= reserved[j]
                                              /\ reserved[j] < reserved[i] + Window}
           classes == 0..(MaxSends - 1)
           f == [j \in inside |-> j % MaxSends]
<1>1. /\ MaxSends \in Nat \ {0} /\ Window \in Nat
      /\ \A j \in DOMAIN reserved : j \in Nat /\ reserved[j] \in Nat
  BY ParametersAssumption DEF AlertsInv, Typed, AlertsTypeOK
<1>2. f \in [inside -> classes]
  <2>1. ASSUME NEW j \in inside
        PROVE  j % MaxSends \in classes
    <3>1. j \in Nat
      BY <1>1
    <3> QED
      BY <1>1, <3>1, Z3
  <2> QED
    BY <2>1
<1>3. ASSUME NEW j \in inside, NEW l \in inside, f[j] = f[l]
      PROVE  j = l
  <2>1. /\ j \in DOMAIN reserved /\ l \in DOMAIN reserved /\ j \in Nat /\ l \in Nat
        /\ j % MaxSends = l % MaxSends
    BY <1>1, <1>3
  <2>2. ~ (reserved[j] + Window <= reserved[l]) /\ ~ (reserved[l] + Window <= reserved[j])
    BY <1>1, <2>1
  <2>3. ~ (j < l) /\ ~ (l < j)
    BY <2>1, <2>2 DEF AlertsInv, Spaced
  <2> QED
    BY <2>1, <2>3
<1>4. f \in Injection(inside, classes)
  BY <1>2, <1>3 DEF Injection, IsInjective
<1> HIDE DEF f, inside
<1>5. IsFiniteSet(classes) /\ Cardinality(classes) = MaxSends
  <2>1. 0 \in Int /\ MaxSends - 1 \in Int /\ ~ (0 > MaxSends - 1) /\ (MaxSends - 1) - 0 + 1 = MaxSends
    BY <1>1
  <2>2. IsFiniteSet(classes) /\ Cardinality(classes) = (MaxSends - 1) - 0 + 1
    BY <2>1, FS_Interval
  <2> QED
    BY <2>1, <2>2
<1> HIDE DEF classes
<1>6. Cardinality(inside) <= Cardinality(classes)
  BY <1>4, <1>5, FS_Injection
<1> QED
  BY <1>5, <1>6 DEF inside

\* The variables keep their types: whatever the provider asks for, and however
\* late a thread gets the lock, no delay is negative.
THEOREM AlertsTyped == AlertsSpec => []AlertsTypeOK
<1>1. AlertsInv => AlertsTypeOK
  BY DEF AlertsInv, Typed
<1> QED
  BY <1>1, AlertsInvariant, PTL

\* No window contains more than MaxSends slots, for any number of threads and
\* whatever the order in which they get the lock.
THEOREM LimitIsKept == AlertsSpec => []WindowLimit
  BY WindowHoldsClasses, AlertsInvariant, PTL

\* A sender never tries again before the time the provider gave it.
THEOREM RetriesAreHonoured == AlertsSpec => []RetryHonoured
<1>1. AlertsInv => RetryHonoured
  BY DEF AlertsInv
<1> QED
  BY <1>1, AlertsInvariant, PTL

\* The schedule never runs further ahead than the longest cooldown and the slots
\* reserved before.
THEOREM ScheduleBounded == AlertsSpec => []ScheduleIsBounded
<1>1. AlertsInv => ScheduleIsBounded
  BY DEF AlertsInv
<1> QED
  BY <1>1, AlertsInvariant, PTL
=============================================================================
