------------------------------ MODULE ApiKeys ------------------------------
(***************************************************************************)
(* The API keys of an account (app/modules/api_keys) and the gate in front *)
(* of them (app/core/tier_gating.py).  A call is a request handler in a    *)
(* thread of its own: it reads rows, then writes and commits, and other    *)
(* calls act between its statements.  An UPDATE contains the columns that  *)
(* the handler has changed, no others.  "use" is the dependency            *)
(* get_api_key_user, for endpoints that are called with a key.             *)
(***************************************************************************)
EXTENDS Integers, FiniteSets

CONSTANTS
  Calls,      \* the handlers that may run
  MaxKeys,    \* bound: the keys that are ever generated
  TiersSeen   \* bound: the tiers the account may have

VARIABLES
  key,        \* the rows of api_key
  tier,       \* the column tier of the account
  call        \* the calls

vars == <<key, tier, call>>

Keys == 1..MaxKeys
Row == [stored : {"never", "yes", "deleted"}, is_active : BOOLEAN,
        usage_count : Nat, expired : BOOLEAN]
Unused == [stored |-> "never", is_active |-> FALSE, usage_count |-> 0, expired |-> FALSE]
Managing == {"list", "create", "revoke", "delete"}
Results == {"fine", "unauthorized", "forbidden", "not_found", "crash"}

\* The limits of the tiers that are switches; max_projects is a number, which no handler
\* asks for.
Switches == {"full_asset_downloads", "website_export", "api_access", "white_label"}
FeaturesOf ==
  [free |-> {}, starter |-> {"full_asset_downloads", "website_export"},
   pro |-> {"full_asset_downloads", "website_export"}, agency |-> Switches]

\* check_feature: a tier that nobody knows is free, a limit that nobody knows is None,
\* and None is unlimited.
CheckFeature(t, feature) ==
  LET known == IF t \in DOMAIN FeaturesOf THEN t ELSE "free"
  IN feature \in Switches => feature \in FeaturesOf[known]

\* k: the key it is about; row, may: the key and the right as it has read them.
Call == [at : {"idle", "gate", "read", "insert", "refresh", "revoke", "delete", "stamp", "end"},
         op : Managing \cup {"use"}, k : Keys, row : Row, may : BOOLEAN,
         result : Results]
Idle == [at |-> "idle", op |-> "list", k |-> 1, row |-> Unused,
         may |-> FALSE, result |-> "fine"]

\* Keys that were generated and not used before.
Init ==
  /\ \E n \in 0..MaxKeys :
       key = [k \in Keys |-> IF k <= n THEN [Unused EXCEPT !.stored = "yes", !.is_active = TRUE]
                             ELSE Unused]
  /\ tier \in TiersSeen
  /\ call = [c \in Calls |-> Idle]

-----------------------------------------------------------------------------
\* The row that the next INSERT makes.
Fresh == {k \in Keys : key[k].stored = "never" /\ \A i \in 1..k - 1 : key[i].stored # "never"}
Stored(k) == key[k].stored = "yes"
Dead(k) == key[k].stored = "deleted" \/ (Stored(k) /\ ~key[k].is_active)

At(c, step) == call[c].at = step
Goes(c, step) == call' = [call EXCEPT ![c].at = step]
Ends(c, result) ==
  call' = [call EXCEPT ![c].at = "end", ![c].result = result, ![c].row = Unused, ![c].may = FALSE]

\* A request for one of the endpoints reaches its handler.
Begin(c) ==
  /\ At(c, "idle")
  /\ \E op \in Managing \cup {"use"}, k \in Keys :
       call' = [call EXCEPT ![c] =
                  [Idle EXCEPT !.at = IF op = "use" THEN "read" ELSE "gate", !.op = op, !.k = k]]
  /\ UNCHANGED <<key, tier>>

\* require_feature("api_access") loads the user and looks at the tier.
Gate(c) ==
  /\ At(c, "gate")
  /\ IF CheckFeature(tier, "api_access")
     THEN Goes(c, IF call[c].op = "create" THEN "insert" ELSE "read")
     ELSE Ends(c, "forbidden")
  /\ UNCHANGED <<key, tier>>

\* generate_api_key: the INSERT and its commit.
Insert(c) ==
  /\ At(c, "insert")
  /\ \E k \in Fresh :
       /\ key' = [key EXCEPT ![k].stored = "yes", ![k].is_active = TRUE]
       /\ call' = [call EXCEPT ![c].at = "refresh", ![c].k = k]
  /\ UNCHANGED tier

\* db.refresh finds the row, unless it was deleted meanwhile.
Refresh(c) ==
  /\ At(c, "refresh")
  /\ Ends(c, IF Stored(call[c].k) THEN "fine" ELSE "crash")
  /\ UNCHANGED <<key, tier>>

\* list_api_keys.
List(c) ==
  /\ At(c, "read") /\ call[c].op = "list"
  /\ Ends(c, "fine")
  /\ UNCHANGED <<key, tier>>

\* revoke_api_key and delete_api_key look the row up.
Find(c) ==
  /\ At(c, "read") /\ call[c].op \in {"revoke", "delete"}
  /\ IF Stored(call[c].k)
     THEN call' = [call EXCEPT ![c].at = call[c].op, ![c].row = key[call[c].k]]
     ELSE Ends(c, "not_found")
  /\ UNCHANGED <<key, tier>>

\* is_active = False and the commit: no UPDATE when it was False already, an error
\* when the UPDATE meets no row.
Revoke(c) ==
  /\ At(c, "revoke")
  /\ \/ /\ ~call[c].row.is_active
        /\ Ends(c, "fine") /\ UNCHANGED key
     \/ /\ call[c].row.is_active /\ Stored(call[c].k)
        /\ key' = [key EXCEPT ![call[c].k].is_active = FALSE]
        /\ Ends(c, "fine")
     \/ /\ call[c].row.is_active /\ ~Stored(call[c].k)
        /\ Ends(c, "crash") /\ UNCHANGED key
  /\ UNCHANGED tier

\* db.delete and the commit; a DELETE that meets no row is only logged.
Delete(c) ==
  /\ At(c, "delete")
  /\ key' = [key EXCEPT ![call[c].k].stored = "deleted"]
  /\ Ends(c, "fine")
  /\ UNCHANGED tier

\* The key that validate_api_key accepts.
Valid(k) == Stored(k) /\ key[k].is_active /\ ~key[k].expired

\* validate_api_key reads the key together with its user.
LookUp(c) ==
  /\ At(c, "read") /\ call[c].op = "use"
  /\ IF Valid(call[c].k)
     THEN call' = [call EXCEPT ![c].at = "stamp", ![c].row = key[call[c].k],
                               ![c].may = CheckFeature(tier, "api_access")]
     ELSE Ends(c, "unauthorized")
  /\ UNCHANGED <<key, tier>>

\* Mutant of Stamped: the UPDATE writes the row as it was read.
StampedWhole(row, seen) == [seen EXCEPT !.usage_count = @ + 1]

\* The row after the UPDATE of last_used_at and usage_count.
Stamped(row, seen) == [row EXCEPT !.usage_count = seen.usage_count + 1]

\* The use is counted and committed; then get_api_key_user looks at the tier that
\* came with the key.
Stamp(c) ==
  /\ At(c, "stamp")
  /\ IF Stored(call[c].k)
     THEN /\ key' = [key EXCEPT ![call[c].k] = Stamped(@, call[c].row)]
          /\ Ends(c, IF call[c].may THEN "fine" ELSE "forbidden")
     ELSE Ends(c, "crash") /\ UNCHANGED key
  /\ UNCHANGED tier

\* expires_at passes, or the tier of the account changes (app/modules/billing).
Expire == \E k \in Keys :
  /\ Stored(k) /\ ~key[k].expired
  /\ key' = [key EXCEPT ![k].expired = TRUE]
  /\ UNCHANGED <<tier, call>>
ChangeTier ==
  /\ tier' \in TiersSeen \ {tier}
  /\ UNCHANGED <<key, call>>

Step(c) ==
  \/ Gate(c) \/ Insert(c) \/ Refresh(c) \/ List(c) \/ Find(c) \/ Revoke(c)
  \/ Delete(c) \/ LookUp(c) \/ Stamp(c)

Next == Expire \/ ChangeTier \/ \E c \in Calls : Begin(c) \/ Step(c)

Spec == Init /\ [][Next]_vars

-----------------------------------------------------------------------------
(* Properties *)

TypeOK == key \in [Keys -> Row] /\ tier \in TiersSeen /\ call \in [Calls -> Call]

\* A key that was revoked, deleted or had expired stays so, whatever calls that read
\* it before write it afterwards (services.py:73-76, 100-101).
DeadKeysStayDead ==
  \A k \in Keys : (Dead(k) => Dead(k)') /\ (key[k].expired => key[k].expired')

\* Overlapping uses may be counted once, but a use is never counted twice, and the
\* count of a key that has served is not zero (usage_count, services.py:75).
UsesOf(k) == {c \in Calls : /\ call[c].op = "use" /\ call[c].k = k
                            /\ At(c, "end") /\ call[c].result \in {"fine", "forbidden"}}
CountsAreUses == \A k \in Keys :
  /\ key[k].usage_count <= Cardinality(UsesOf(k))
  /\ UsesOf(k) # {} => key[k].usage_count > 0
=============================================================================
