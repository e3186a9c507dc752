------------------------------- MODULE Billing -------------------------------
(***************************************************************************)
(* Subscriptions (app/modules/billing).  A user starts a checkout or opens *)
(* the billing portal, both in threads of the request pool; Stripe keeps   *)
(* customers and subscriptions and reports their changes to the webhook,   *)
(* in any order and more than once; the webhook sets the tier.             *)
(*                                                                         *)
(* A database session holds the row of the user as it was read and writes  *)
(* the columns that it has changed (expire_on_commit=False).               *)
(***************************************************************************)
EXTENDS Integers, Sequences

CONSTANTS
  Users,
  Clients,        \* bound: requests for a checkout or a portal
  Hooks,          \* webhook handlers that run at the same time
  PaidTiers,      \* VALID_TIERS without "free"
  MaxChanges      \* bound: changes of subscriptions at Stripe

ASSUME TiersAssumption == "free" \notin PaidTiers /\ PaidTiers # {}

VARIABLES
  user,           \* the billing columns of each user
  owner,          \* Stripe: the user that each customer was created for
  subs,           \* Stripe: the subscriptions
  open,           \* Stripe: checkouts that may still be paid
  portals,        \* Stripe: the customers that have opened a portal
  events,         \* Stripe: the events sent so far
  changes,        \* Stripe: the number of changes of subscriptions
  handled,        \* history: the events that were answered with 200
  req,            \* the requests
  hook            \* the webhook handlers

stripe == <<owner, subs, open, portals, events, changes>>
vars == <<user, stripe, handled, req, hook>>

None == 0         \* no customer, no subscription

Tiers == PaidTiers \cup {"free"}

\* The columns tier, stripe_customer_id and stripe_subscription_id.
Row == [tier : Tiers, customer : Nat, subscription : Nat]

\* `at` is the next step of get_or_create_stripe_customer or of its caller.
Request ==
  [at : {"load", "create", "save", "session"},
   op : {"checkout", "portal"}, user : Users, tier : PaidTiers, customer : Nat]

NoRequest == {[at |-> "idle"], [at |-> "done"]}

Checkout == [user : Users, customer : Nat, tier : PaidTiers]

Status == {"active", "past_due", "unpaid", "canceled"}
Ended == {"unpaid", "canceled"}

\* `user` and `tier` are the metadata of the checkout, which Stripe never
\* changes; `plan` is what is paid for now, `plans` (history) what ever was.
Subscription ==
  [user : Users, customer : Nat, tier : PaidTiers, plan : PaidTiers,
   plans : SUBSET PaidTiers, status : Status]

\* An event carries the subscription as it was when the event was sent.
Event ==
  [kind : {"completed", "updated", "deleted"}, sub : Nat \ {None},
   status : Status, plan : PaidTiers]

\* `seen` is the row of the user as the session of the handler holds it.
Handler == [at : {"tier"}, event : Event, user : Users, seen : Row]

Waiting == [at |-> "idle"]

Init ==
  /\ user = [u \in Users |-> [tier |-> "free", customer |-> None, subscription |-> None]]
  /\ owner = <<>> /\ subs = <<>>
  /\ open = {} /\ portals = {} /\ events = {} /\ changes = 0 /\ handled = {}
  /\ req = [c \in Clients |-> [at |-> "idle"]]
  /\ hook = [h \in Hooks |-> Waiting]

-----------------------------------------------------------------------------
(* Checkout and portal. *)

\* Mutant of Offered: the test of the tier is missing.
OfferedAny == Tiers

\* The tiers that create_checkout and create_checkout_session accept.
Offered == Tiers \ {"free"}

\* POST /checkout, POST /portal.  A portal request has no tier.
StartRequest(c, op, u, tier) ==
  /\ req[c].at = "idle"
  /\ req' = [req EXCEPT ![c] =
               [at |-> "load", op |-> op, user |-> u, tier |-> tier, customer |-> None]]
  /\ UNCHANGED <<user, stripe, handled, hook>>

\* get_or_create_stripe_customer reads the user ...
LoadCustomer(c) ==
  /\ req[c].at = "load"
  /\ LET customer == user[req[c].user].customer
     IN  req' = [req EXCEPT ![c] =
                   [@ EXCEPT !.customer = customer,
                             !.at = IF customer = None THEN "create" ELSE "session"]]
  /\ UNCHANGED <<user, stripe, handled, hook>>

\* ... asks Stripe for a customer if there is none ...
CreateCustomer(c) ==
  /\ req[c].at = "create"
  /\ owner' = Append(owner, req[c].user)
  /\ req' = [req EXCEPT ![c] = [@ EXCEPT !.at = "save", !.customer = Len(owner) + 1]]
  /\ UNCHANGED <<user, subs, open, portals, events, changes, handled, hook>>

\* ... and commits it, over one that another request may have saved.
SaveCustomer(c) ==
  /\ req[c].at = "save"
  /\ user' = [user EXCEPT ![req[c].user] = [@ EXCEPT !.customer = req[c].customer]]
  /\ req' = [req EXCEPT ![c] = [@ EXCEPT !.at = "session"]]
  /\ UNCHANGED <<stripe, handled, hook>>

\* Mutant of CreateCheckout: the tier is set before anything is paid.
CreateCheckoutEagerly(c) ==
  /\ req[c].at = "session" /\ req[c].op = "checkout"
  /\ open' = open \cup
       {[user |-> req[c].user, customer |-> req[c].customer, tier |-> req[c].tier]}
  /\ user' = [user EXCEPT ![req[c].user] = [@ EXCEPT !.tier = req[c].tier]]
  /\ req' = [req EXCEPT ![c] = [at |-> "done"]]
  /\ UNCHANGED <<owner, subs, portals, events, changes, handled, hook>>

\* create_checkout_session: user and tier go into the metadata.
CreateCheckout(c) ==
  /\ req[c].at = "session" /\ req[c].op = "checkout"
  /\ open' = open \cup
       {[user |-> req[c].user, customer |-> req[c].customer, tier |-> req[c].tier]}
  /\ req' = [req EXCEPT ![c] = [at |-> "done"]]
  /\ UNCHANGED <<user, owner, subs, portals, events, changes, handled, hook>>

\* create_billing_portal_session
CreatePortal(c) ==
  /\ req[c].at = "session" /\ req[c].op = "portal"
  /\ portals' = portals \cup {req[c].customer}
  /\ req' = [req EXCEPT ![c] = [at |-> "done"]]
  /\ UNCHANGED <<user, owner, subs, open, events, changes, handled, hook>>

\* Stripe or the database raises, or the process ends: what is committed stays.
RequestFails(c) ==
  /\ req[c].at \notin {"idle", "done"}
  /\ req' = [req EXCEPT ![c] = [at |-> "done"]]
  /\ UNCHANGED <<user, stripe, handled, hook>>

ClientStep(c) ==
  \/ \E u \in Users :
       \/ \E tier \in Offered : StartRequest(c, "checkout", u, tier)
       \/ StartRequest(c, "portal", u, CHOOSE tier \in PaidTiers : TRUE)
  \/ LoadCustomer(c) \/ CreateCustomer(c) \/ SaveCustomer(c)
  \/ CreateCheckout(c) \/ CreatePortal(c) \/ RequestFails(c)

-----------------------------------------------------------------------------
(* Stripe. *)

Send(kind, s) ==
  events' = events \cup
    {[kind |-> kind, sub |-> s, status |-> subs'[s].status, plan |-> subs'[s].plan]}

\* The user pays an open checkout.
Pay(checkout) ==
  /\ checkout \in open
  /\ open' = open \ {checkout}
  /\ subs' = Append(subs, [user |-> checkout.user, customer |-> checkout.customer,
                           tier |-> checkout.tier, plan |-> checkout.tier,
                           plans |-> {checkout.tier}, status |-> "active"])
  /\ Send("completed", Len(subs'))
  /\ UNCHANGED <<user, owner, portals, changes, handled, req, hook>>

Change(s, subscription) ==
  /\ changes < MaxChanges
  /\ changes' = changes + 1
  /\ subs[s].status \notin Ended
  /\ subs' = [subs EXCEPT ![s] = subscription]
  /\ UNCHANGED <<user, owner, open, portals, handled, req, hook>>

\* A payment fails, is made after all, or is given up.
ChangeStatus(s, status) ==
  /\ status \in {"active", "past_due", "unpaid"}
  /\ Change(s, [subs[s] EXCEPT !.status = status])
  /\ Send("updated", s)

\* The user buys another plan in the portal; the metadata keep the old one.
ChangePlan(s, plan) ==
  /\ subs[s].customer \in portals
  /\ Change(s, [subs[s] EXCEPT !.plan = plan, !.plans = @ \cup {plan}])
  /\ Send("updated", s)

\* The user cancels in the portal, or Stripe gives up.
Cancel(s) ==
  /\ Change(s, [subs[s] EXCEPT !.status = "canceled"])
  /\ Send("deleted", s)

StripeStep ==
  \/ \E checkout \in open : Pay(checkout)
  \/ \E s \in DOMAIN subs :
       \/ \E status \in Status : ChangeStatus(s, status)
       \/ \E plan \in PaidTiers \ {subs[s].plan} : ChangePlan(s, plan)
       \/ Cancel(s)

-----------------------------------------------------------------------------
(* The webhook. *)

\* _find_user_by_customer_id
ByCustomer(customer) == {u \in Users : user[u].customer = customer}

\* Mutant of Recipients: the metadata are not tried.
RecipientsByCustomer(event) == ByCustomer(subs[event.sub].customer)

\* The user of an event, by metadata first when a checkout is completed and by
\* customer first otherwise; empty if there is none.
Recipients(event) ==
  LET sub == subs[event.sub]
  IN  IF event.kind = "completed" \/ ByCustomer(sub.customer) = {}
        THEN {sub.user}
        ELSE ByCustomer(sub.customer)

\* A handler receives an event, for the first time or again, and reads the user.
\* (A completed checkout sets the customer of a user who has none: that never
\* happens, as the second part of EventsFindTheirUser says.)
Receive(h, event, u) ==
  /\ hook[h].at = "idle"
  /\ u \in Recipients(event)
  /\ hook' = [hook EXCEPT ![h] =
               [at |-> "tier", event |-> event, user |-> u, seen |-> user[u]]]
  /\ UNCHANGED <<user, stripe, handled, req>>

\* _resolve_tier_from_subscription: the metadata come before the price.
Resolve(event) == subs[event.sub].tier

\* Mutant of Downgrades: a late payment ends the tier at once.
DowngradesOnFailure(event) ==
  event.kind = "deleted" \/ (event.kind = "updated" /\ event.status # "active")

Upgrades(event) ==
  event.kind = "completed" \/ (event.kind = "updated" /\ event.status = "active")

Downgrades(event) ==
  event.kind = "deleted" \/ (event.kind = "updated" /\ event.status \in Ended)

\* update_user_tier, downgrade_to_free: the columns as the handler assigns them.
Assigned(event, seen) ==
  IF Upgrades(event)
    THEN [seen EXCEPT !.tier = Resolve(event), !.subscription = event.sub]
    ELSE IF Downgrades(event)
           THEN [seen EXCEPT !.tier = "free", !.subscription = None]
           ELSE seen

\* Only a column whose value differs from the one in the session is written.
Flush(u, seen, new) ==
  [tier |-> IF new.tier = seen.tier THEN user[u].tier ELSE new.tier,
   customer |-> user[u].customer,
   subscription |-> IF new.subscription = seen.subscription
                      THEN user[u].subscription ELSE new.subscription]

\* The commit of the tier; Stripe gets its 200.
CommitTier(h) ==
  /\ hook[h].at = "tier"
  /\ user' = [user EXCEPT ![hook[h].user] =
       Flush(hook[h].user, hook[h].seen, Assigned(hook[h].event, hook[h].seen))]
  /\ handled' = handled \cup {hook[h].event}
  /\ hook' = [hook EXCEPT ![h] = Waiting]
  /\ UNCHANGED <<stripe, req>>

\* The handler raises or its process ends; Stripe will send the event again.
HookFails(h) ==
  /\ hook[h] # Waiting
  /\ hook' = [hook EXCEPT ![h] = Waiting]
  /\ UNCHANGED <<user, stripe, handled, req>>

HookStep(h) ==
  \/ \E event \in events, u \in Users : Receive(h, event, u)
  \/ CommitTier(h) \/ HookFails(h)

Next ==
  \/ StripeStep
  \/ \E c \in Clients : ClientStep(c)
  \/ \E h \in Hooks : HookStep(h)

Spec == Init /\ [][Next]_vars

-----------------------------------------------------------------------------
(* Properties *)

SubsOf(u) == {s \in DOMAIN subs : subs[s].user = u}

TypeOK ==
  /\ user \in [Users -> Row]
  /\ owner \in Seq(Users)
  /\ subs \in Seq(Subscription)
  /\ open \subseteq Checkout
  /\ portals \subseteq Nat
  /\ events \subseteq Event /\ handled \subseteq events
  /\ changes \in Nat
  /\ req \in [Clients -> Request \cup NoRequest]
  /\ hook \in [Hooks -> Handler \cup {Waiting}]

\* An event reaches the user who pays, and no other, also when two checkouts
\* have created two customers of which the user's row keeps one; and that user
\* has a customer by then.
EventsFindTheirUser ==
  \A event \in events :
    /\ Recipients(event) = {subs[event.sub].user}
    /\ user[subs[event.sub].user].customer # None

\* Nobody has a tier without having subscribed to it, and the subscription a
\* user has is the user's own.
TierWasBought ==
  \A u \in Users :
    /\ user[u].tier # "free" => \E s \in SubsOf(u) : user[u].tier \in subs[s].plans
    /\ user[u].subscription # None => user[u].subscription \in SubsOf(u)

\* A user who has paid, whose subscriptions were never given up or canceled and
\* whose events have arrived has a paid tier: in whatever order the events of
\* several subscriptions come, how often, and whichever handlers overlap.
PayingUserHasTier ==
  \A u \in Users :
    LET mine == {event \in events : event.sub \in SubsOf(u)}
    IN  (/\ SubsOf(u) # {}
         /\ \A s \in SubsOf(u) : subs[s].status \notin Ended
         /\ mine \subseteq handled) => user[u].tier # "free"

=============================================================================
