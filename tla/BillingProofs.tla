---------------------------- MODULE BillingProofs ----------------------------
(***************************************************************************)
(* Who an event reaches and what a tier rests on, for any number of users, *)
(* requests, handlers, tiers and changes.                                  *)
(***************************************************************************)
EXTENDS Billing, SequenceTheorems, TLAPS

\* A customer was created for u, and u has one, if not the same.
Customer(u, customer) ==
  customer \in DOMAIN owner /\ owner[customer] = u

CustomerInv ==
  /\ \A u \in Users : user[u].customer # None => Customer(u, user[u].customer)
  /\ \A c \in Clients :
       /\ req[c].at \in {"save", "session"} => Customer(req[c].user, req[c].customer)
       /\ req[c].at = "session" => user[req[c].user].customer # None
  /\ \A checkout \in open :
       Customer(checkout.user, checkout.customer) /\ user[checkout.user].customer # None
  /\ \A s \in DOMAIN subs :
       Customer(subs[s].user, subs[s].customer) /\ user[subs[s].user].customer # None

EventInv ==
  /\ \A s \in DOMAIN subs : subs[s].tier \in subs[s].plans
  /\ \A event \in events : event.sub \in DOMAIN subs
  /\ \A h \in Hooks :
       hook[h].at = "tier" =>
         hook[h].event \in events /\ hook[h].user = subs[hook[h].event.sub].user

Inv == TypeOK /\ CustomerInv /\ EventInv /\ TierWasBought

-----------------------------------------------------------------------------
(* Types *)

\* The step of a request, a handler or Stripe, as one disjunction.
LEMMA NextCases ==
  ASSUME Next
  PROVE  \/ \E c \in Clients, u \in Users, tier \in PaidTiers, op \in {"checkout", "portal"} :
              StartRequest(c, op, u, tier)
         \/ \E c \in Clients :
              LoadCustomer(c) \/ CreateCustomer(c) \/ SaveCustomer(c)
                \/ CreateCheckout(c) \/ CreatePortal(c) \/ RequestFails(c)
         \/ \E checkout \in open : Pay(checkout)
         \/ \E s \in DOMAIN subs, status \in Status : ChangeStatus(s, status)
         \/ \E s \in DOMAIN subs, plan \in PaidTiers : ChangePlan(s, plan)
         \/ \E s \in DOMAIN subs : Cancel(s)
         \/ \E h \in Hooks, event \in events, u \in Users : Receive(h, event, u)
         \/ \E h \in Hooks : CommitTier(h) \/ HookFails(h)
<1>1. (CHOOSE tier \in PaidTiers : TRUE) \in PaidTiers
  BY TiersAssumption
<1>2. Offered = PaidTiers
  BY TiersAssumption DEF Offered, Tiers
<1>3. CASE StripeStep
  BY <1>3 DEF StripeStep
<1>4. CASE \E c \in Clients : ClientStep(c)
  BY <1>1, <1>2, <1>4 DEF ClientStep
<1>5. CASE \E h \in Hooks : HookStep(h)
  BY <1>5 DEF HookStep
<1> QED
  BY <1>3, <1>4, <1>5 DEF Next

\* What is in the sequence is a subscription.
LEMMA SubTyped ==
  ASSUME TypeOK, NEW s \in DOMAIN subs
  PROVE  subs[s] \in Subscription
BY DEF TypeOK

\* A subscription that Stripe changes stays one, and so do the others.
LEMMA ChangeTyped ==
  ASSUME TypeOK, NEW s \in DOMAIN subs, NEW new \in Subscription, Change(s, new),
         NEW kind \in {"completed", "updated", "deleted"}, Send(kind, s)
  PROVE  TypeOK'
<1>1. subs' \in Seq(Subscription) /\ s \in 1..Len(subs) /\ subs'[s] = new
  BY DEF TypeOK, Change
<1>2. events' \subseteq Event
  BY <1>1 DEF TypeOK, Send, Event, Subscription, None
<1> QED
  BY <1>1, <1>2 DEF TypeOK, Change, Send

LEMMA StepTypes ==
  ASSUME TypeOK, EventInv, Next
  PROVE  TypeOK'
<1> USE TiersAssumption
<1>1. ASSUME NEW c \in Clients, NEW u \in Users, NEW tier \in PaidTiers,
             NEW op \in {"checkout", "portal"}, StartRequest(c, op, u, tier)
      PROVE  TypeOK'
  <2>1. [at |-> "load", op |-> op, user |-> u, tier |-> tier, customer |-> None] \in Request
    BY DEF Request, None
  <2> QED
    BY <1>1, <2>1 DEF TypeOK, StartRequest, stripe
<1>2. ASSUME NEW c \in Clients, LoadCustomer(c)
      PROVE  TypeOK'
  <2>1. req[c] \in Request
    BY <1>2 DEF TypeOK, LoadCustomer, NoRequest
  <2>2. user[req[c].user].customer \in Nat
    BY <2>1 DEF TypeOK, Request, Row
  <2>3. [req[c] EXCEPT !.customer = user[req[c].user].customer,
                       !.at = IF user[req[c].user].customer = None
                                THEN "create" ELSE "session"] \in Request
    BY <2>1, <2>2 DEF Request
  <2> QED
    BY <1>2, <2>3 DEF TypeOK, LoadCustomer, stripe
<1>3. ASSUME NEW c \in Clients, CreateCustomer(c)
      PROVE  TypeOK'
  <2>1. req[c] \in Request
    BY <1>3 DEF TypeOK, CreateCustomer, NoRequest
  <2>2. owner' \in Seq(Users) /\ Len(owner) + 1 \in Nat
    BY <1>3, <2>1 DEF TypeOK, CreateCustomer, Request
  <2>3. [req[c] EXCEPT !.at = "save", !.customer = Len(owner) + 1] \in Request
    BY <2>1, <2>2 DEF Request
  <2> QED
    BY <1>3, <2>2, <2>3 DEF TypeOK, CreateCustomer
<1>4. ASSUME NEW c \in Clients, SaveCustomer(c)
      PROVE  TypeOK'
  <2>1. req[c] \in Request
    BY <1>4 DEF TypeOK, SaveCustomer, NoRequest
  <2>2. [req[c] EXCEPT !.at = "session"] \in Request
    BY <2>1 DEF Request
  <2>3. [user[req[c].user] EXCEPT !.customer = req[c].customer] \in Row
    BY <2>1 DEF TypeOK, Request, Row
  <2> QED
    BY <1>4, <2>2, <2>3 DEF TypeOK, SaveCustomer, stripe
<1>5. ASSUME NEW c \in Clients, CreateCheckout(c)
      PROVE  TypeOK'
  <2>1. req[c] \in Request
    BY <1>5 DEF TypeOK, CreateCheckout, NoRequest
  <2> QED
    BY <1>5, <2>1 DEF TypeOK, CreateCheckout, NoRequest, Request, Checkout
<1>6. ASSUME NEW c \in Clients, CreatePortal(c)
      PROVE  TypeOK'
  <2>1. req[c] \in Request
    BY <1>6 DEF TypeOK, CreatePortal, NoRequest
  <2> QED
    BY <1>6, <2>1 DEF TypeOK, CreatePortal, NoRequest, Request
<1>7. ASSUME NEW c \in Clients, RequestFails(c)
      PROVE  TypeOK'
  BY <1>7 DEF TypeOK, RequestFails, NoRequest, stripe
<1>8. ASSUME NEW checkout \in open, Pay(checkout)
      PROVE  TypeOK'
  <2> DEFINE new == [user |-> checkout.user, customer |-> checkout.customer,
                     tier |-> checkout.tier, plan |-> checkout.tier,
                     plans |-> {checkout.tier}, status |-> "active"]
  <2>1. new \in Subscription
    BY DEF TypeOK, Checkout, Subscription, Status
  <2>2. subs' = Append(subs, new) /\ subs \in Seq(Subscription)
    BY <1>8 DEF TypeOK, Pay
  <2> HIDE DEF new
  <2>3. subs' \in Seq(Subscription) /\ Len(subs') \in Nat \ {0} /\ subs'[Len(subs')] = new
    BY <2>1, <2>2
  <2>4. events' \subseteq Event
    BY <1>8, <2>1, <2>3 DEF TypeOK, Pay, Send, Event, Subscription, None
  <2> QED
    BY <1>8, <2>3, <2>4 DEF TypeOK, Pay, Send
<1>9. ASSUME NEW s \in DOMAIN subs, NEW status \in Status, ChangeStatus(s, status)
      PROVE  TypeOK'
  <2>1. [subs[s] EXCEPT !.status = status] \in Subscription
    BY SubTyped DEF Subscription
  <2> QED
    BY <1>9, <2>1, ChangeTyped DEF ChangeStatus
<1>10. ASSUME NEW s \in DOMAIN subs, NEW plan \in PaidTiers, ChangePlan(s, plan)
       PROVE  TypeOK'
  <2>1. [subs[s] EXCEPT !.plan = plan, !.plans = subs[s].plans \cup {plan}] \in Subscription
    BY SubTyped DEF Subscription
  <2> QED
    BY <1>10, <2>1, ChangeTyped DEF ChangePlan
<1>11. ASSUME NEW s \in DOMAIN subs, Cancel(s)
       PROVE  TypeOK'
  <2>1. [subs[s] EXCEPT !.status = "canceled"] \in Subscription
    BY SubTyped DEF Subscription, Status
  <2> QED
    BY <1>11, <2>1, ChangeTyped DEF Cancel
<1>12. ASSUME NEW h \in Hooks, NEW event \in events, NEW u \in Users, Receive(h, event, u)
       PROVE  TypeOK'
  <2>1. [at |-> "tier", event |-> event, user |-> u, seen |-> user[u]] \in Handler
    BY DEF TypeOK, Handler
  <2> QED
    BY <1>12, <2>1 DEF TypeOK, Receive, stripe
<1>13. ASSUME NEW h \in Hooks, CommitTier(h), EventInv
       PROVE  TypeOK'
  <2>1. hook[h] \in Handler
    BY <1>13 DEF TypeOK, CommitTier, Waiting
  <2>2. hook[h].event \in events /\ hook[h].event.sub \in DOMAIN subs
    BY <1>13 DEF CommitTier, EventInv
  <2>3. Resolve(hook[h].event) \in PaidTiers
    BY <2>2, SubTyped DEF Resolve, Subscription
  <2>4. Assigned(hook[h].event, hook[h].seen) \in Row
    BY <2>1, <2>3 DEF Assigned, Handler, Event, Row, Tiers, None
  <2>5. Flush(hook[h].user, hook[h].seen, Assigned(hook[h].event, hook[h].seen)) \in Row
    BY <2>1, <2>4 DEF TypeOK, Flush, Handler, Row
  <2> QED
    BY <1>13, <2>1, <2>2, <2>5 DEF TypeOK, CommitTier, stripe, Waiting, Handler
<1>14. ASSUME NEW h \in Hooks, HookFails(h)
       PROVE  TypeOK'
  BY <1>14 DEF TypeOK, HookFails, stripe
<1> QED
  BY <1>1, <1>2, <1>3, <1>4, <1>5, <1>6, <1>7, <1>8, <1>9, <1>10, <1>11, <1>12, <1>13, <1>14,
     NextCases

-----------------------------------------------------------------------------
(* What Stripe and the database never take back *)

\* A customer keeps its user, a subscription its metadata, its customer and the
\* plans it ever had, and a user who has a customer keeps one.
Grows ==
  /\ \A i \in DOMAIN owner : i \in DOMAIN owner' /\ owner'[i] = owner[i]
  /\ \A s \in DOMAIN subs :
       /\ s \in DOMAIN subs'
       /\ subs'[s].user = subs[s].user /\ subs'[s].customer = subs[s].customer
       /\ subs'[s].tier = subs[s].tier /\ subs[s].plans \subseteq subs'[s].plans
  /\ events \subseteq events'
  /\ \A u \in Users : user[u].customer # None => user'[u].customer # None

LEMMA ChangeGrows ==
  ASSUME TypeOK, NEW s \in DOMAIN subs, NEW new \in Subscription, Change(s, new),
         NEW kind, Send(kind, s),
         new.user = subs[s].user, new.customer = subs[s].customer,
         new.tier = subs[s].tier, subs[s].plans \subseteq new.plans
  PROVE  Grows
<1>1. DOMAIN subs' = DOMAIN subs /\ \A i \in DOMAIN subs : subs'[i] = IF i = s THEN new ELSE subs[i]
  BY DEF Change, TypeOK
<1> QED
  BY <1>1 DEF Change, Send, Grows

LEMMA StepGrows ==
  ASSUME TypeOK, CustomerInv, Next
  PROVE  Grows
<1>1. ASSUME NEW c \in Clients, NEW u \in Users, NEW tier \in PaidTiers,
             NEW op \in {"checkout", "portal"}, StartRequest(c, op, u, tier)
      PROVE  Grows
  BY <1>1 DEF StartRequest, stripe, Grows
<1>2. ASSUME NEW c \in Clients,
             LoadCustomer(c) \/ CreateCheckout(c) \/ CreatePortal(c) \/ RequestFails(c)
      PROVE  Grows
  BY <1>2 DEF LoadCustomer, CreateCheckout, CreatePortal, RequestFails, stripe, Grows
<1>3. ASSUME NEW c \in Clients, CreateCustomer(c)
      PROVE  Grows
  <2>1. req[c] \in Request
    BY <1>3 DEF TypeOK, CreateCustomer, NoRequest
  <2>2. owner \in Seq(Users) /\ req[c].user \in Users
    BY <2>1 DEF TypeOK, Request
  <2> QED
    BY <1>3, <2>2 DEF CreateCustomer, Grows
<1>4. ASSUME NEW c \in Clients, SaveCustomer(c)
      PROVE  Grows
  <2>1. req[c] \in Request
    BY <1>4 DEF TypeOK, SaveCustomer, NoRequest
  <2>2. req[c].customer # None
    BY <1>4 DEF TypeOK, CustomerInv, Customer, SaveCustomer, None
  <2>3. \A u \in Users : user'[u].customer =
          IF u = req[c].user THEN req[c].customer ELSE user[u].customer
    BY <1>4, <2>1 DEF TypeOK, SaveCustomer, Request, Row
  <2> QED
    BY <1>4, <2>2, <2>3 DEF SaveCustomer, stripe, Grows
<1>5. ASSUME NEW checkout \in open, Pay(checkout)
      PROVE  Grows
  <2> DEFINE new == [user |-> checkout.user, customer |-> checkout.customer,
                     tier |-> checkout.tier, plan |-> checkout.tier,
                     plans |-> {checkout.tier}, status |-> "active"]
  <2>1. new \in Subscription
    BY DEF TypeOK, Checkout, Subscription, Status
  <2>2. subs' = Append(subs, new) /\ subs \in Seq(Subscription)
    BY <1>5 DEF TypeOK, Pay
  <2> HIDE DEF new
  <2>3. \A s \in DOMAIN subs : s \in DOMAIN subs' /\ subs'[s] = subs[s]
    BY <2>1, <2>2
  <2> QED
    BY <1>5, <2>3 DEF Pay, Send, Grows
<1>6. ASSUME NEW s \in DOMAIN subs, NEW status \in Status, ChangeStatus(s, status)
      PROVE  Grows
  <2>1. [subs[s] EXCEPT !.status = status] \in Subscription
    BY SubTyped DEF Subscription
  <2> QED
    BY <1>6, <2>1, SubTyped, ChangeGrows DEF ChangeStatus, Subscription
<1>7. ASSUME NEW s \in DOMAIN subs, NEW plan \in PaidTiers, ChangePlan(s, plan)
      PROVE  Grows
  <2>1. [subs[s] EXCEPT !.plan = plan, !.plans = subs[s].plans \cup {plan}] \in Subscription
    BY SubTyped DEF Subscription
  <2> QED
    BY <1>7, <2>1, SubTyped, ChangeGrows DEF ChangePlan, Subscription
<1>8. ASSUME NEW s \in DOMAIN subs, Cancel(s)
      PROVE  Grows
  <2>1. [subs[s] EXCEPT !.status = "canceled"] \in Subscription
    BY SubTyped DEF Subscription, Status
  <2> QED
    BY <1>8, <2>1, SubTyped, ChangeGrows DEF Cancel, Subscription
<1>9. ASSUME NEW h \in Hooks, NEW event \in events, NEW u \in Users, Receive(h, event, u)
      PROVE  Grows
  BY <1>9 DEF Receive, stripe, Grows
<1>10. ASSUME NEW h \in Hooks, CommitTier(h)
       PROVE  Grows
  BY <1>10 DEF TypeOK, CommitTier, Flush, stripe, Grows
<1>11. ASSUME NEW h \in Hooks, HookFails(h)
       PROVE  Grows
  BY <1>11 DEF HookFails, stripe, Grows
<1> QED
  BY <1>1, <1>2, <1>3, <1>4, <1>5, <1>6, <1>7, <1>8, <1>9, <1>10, <1>11, NextCases

-----------------------------------------------------------------------------
(* Customers belong to the user they were created for *)

LEMMA CustomerStays ==
  ASSUME Grows, NEW u, NEW customer, Customer(u, customer)
  PROVE  Customer(u, customer)'
BY DEF Grows, Customer

\* Only SaveCustomer writes the column.
LEMMA CustomerWritten ==
  ASSUME TypeOK, EventInv, Next, NEW u \in Users
  PROVE  \/ user'[u].customer = user[u].customer
         \/ \E c \in Clients : /\ req[c].at = "save" /\ req[c].user = u
                               /\ user'[u].customer = req[c].customer
<1>1. ASSUME NEW c \in Clients, SaveCustomer(c)
      PROVE  user'[u].customer = IF u = req[c].user THEN req[c].customer ELSE user[u].customer
  <2>1. req[c] \in Request
    BY <1>1 DEF TypeOK, SaveCustomer, NoRequest
  <2> QED
    BY <1>1, <2>1 DEF TypeOK, SaveCustomer, Request, Row
<1>2. ASSUME NEW h \in Hooks, CommitTier(h)
      PROVE  user'[u].customer = user[u].customer
  BY <1>2 DEF TypeOK, CommitTier, Flush
<1>3. CASE user' = user
  BY <1>3
<1>4. (\E c \in Clients : SaveCustomer(c)) \/ (\E h \in Hooks : CommitTier(h)) \/ user' = user
  BY NextCases DEF StartRequest, LoadCustomer, CreateCustomer, CreateCheckout, CreatePortal,
     RequestFails, Pay, ChangeStatus, ChangePlan, Cancel, Change, Receive, HookFails
<1> QED
  BY <1>1, <1>2, <1>3, <1>4 DEF SaveCustomer

\* A subscription is an old one, or the one that was just paid for.
LEMMA SubOrigin ==
  ASSUME TypeOK, CustomerInv, Next, NEW s \in DOMAIN subs'
  PROVE  \/ s \in DOMAIN subs
         \/ \E checkout \in open : /\ subs'[s].user = checkout.user
                                   /\ subs'[s].customer = checkout.customer
                                   /\ subs'[s].tier \in subs'[s].plans
<1>1. ASSUME NEW checkout \in open, Pay(checkout), s \notin DOMAIN subs
      PROVE  /\ subs'[s].user = checkout.user /\ subs'[s].customer = checkout.customer
             /\ subs'[s].tier \in subs'[s].plans
  <2> DEFINE new == [user |-> checkout.user, customer |-> checkout.customer,
                     tier |-> checkout.tier, plan |-> checkout.tier,
                     plans |-> {checkout.tier}, status |-> "active"]
  <2>1. new \in Subscription /\ new.user = checkout.user /\ new.customer = checkout.customer
          /\ new.tier \in new.plans
    BY DEF TypeOK, Checkout, Subscription, Status
  <2>2. subs' = Append(subs, new) /\ subs \in Seq(Subscription)
    BY <1>1 DEF TypeOK, Pay
  <2> HIDE DEF new
  <2>3. subs'[s] = new
    BY <1>1, <2>1, <2>2
  <2> QED
    BY <2>1, <2>3
<1>2. ASSUME NEW i \in DOMAIN subs, NEW new, Change(i, new)
      PROVE  s \in DOMAIN subs
  BY <1>2 DEF Change, TypeOK
<1>3. CASE subs' = subs
  BY <1>3
<1>4. \/ \E checkout \in open : Pay(checkout)
      \/ \E i \in DOMAIN subs : \E new : Change(i, new)
      \/ subs' = subs
  BY NextCases DEF StartRequest, LoadCustomer, CreateCustomer, SaveCustomer, CreateCheckout,
     CreatePortal, RequestFails, ChangeStatus, ChangePlan, Cancel, Receive, CommitTier,
     HookFails, stripe
<1> QED
  BY <1>1, <1>2, <1>3, <1>4

LEMMA StepCustomers ==
  ASSUME Inv, Next
  PROVE  CustomerInv'
<1> USE DEF Inv
<1>g. Grows
  BY StepGrows
<1>t. TypeOK'
  BY StepTypes
<1>1. (\A u \in Users : user[u].customer # None => Customer(u, user[u].customer))'
  BY <1>g, CustomerWritten, CustomerStays DEF CustomerInv
<1>2. (\A c \in Clients :
         /\ req[c].at \in {"save", "session"} => Customer(req[c].user, req[c].customer)
         /\ req[c].at = "session" => user[req[c].user].customer # None)'
  <2> SUFFICES ASSUME NEW c \in Clients, req'[c].at \in {"save", "session"}
               PROVE  /\ Customer(req[c].user, req[c].customer)'
                      /\ req'[c].at = "session" => user'[req'[c].user].customer # None
    OBVIOUS
  <2>1. CASE req'[c] = req[c]
    <3>1. req[c] \in Request
      BY <2>1 DEF TypeOK, NoRequest
    <3> QED
      BY <1>g, <2>1, <3>1, CustomerStays DEF CustomerInv, Grows, Request
  <2>2. CASE LoadCustomer(c)
    <3>1. req[c] \in Request
      BY <2>2 DEF TypeOK, LoadCustomer, NoRequest
    <3>2. /\ req'[c].user = req[c].user /\ req'[c].customer = user[req[c].user].customer
          /\ req'[c].customer # None /\ user' = user
      BY <2>2, <3>1 DEF TypeOK, LoadCustomer, Request
    <3>3. Customer(req'[c].user, req'[c].customer)
      BY <3>1, <3>2 DEF CustomerInv, Request
    <3> QED
      BY <1>g, <3>2, <3>3, CustomerStays DEF Customer, Grows
  <2>3. CASE CreateCustomer(c)
    <3>1. req[c] \in Request
      BY <2>3 DEF TypeOK, CreateCustomer, NoRequest
    <3>2. /\ req'[c].user = req[c].user /\ req'[c].customer = Len(owner) + 1
          /\ req'[c].at = "save"
      BY <2>3, <3>1 DEF TypeOK, CreateCustomer, Request
    <3>3. owner' = Append(owner, req[c].user) /\ owner \in Seq(Users) /\ req[c].user \in Users
      BY <2>3, <3>1 DEF TypeOK, CreateCustomer, Request
    <3>4. Len(owner) + 1 \in DOMAIN owner' /\ owner'[Len(owner) + 1] = req[c].user
      BY <3>3
    <3> QED
      BY <3>2, <3>4 DEF Customer
  <2>4. CASE SaveCustomer(c)
    <3>1. req[c] \in Request
      BY <2>4 DEF TypeOK, SaveCustomer, NoRequest
    <3>2. req'[c].user = req[c].user /\ req'[c].customer = req[c].customer
      BY <2>4, <3>1 DEF TypeOK, SaveCustomer, Request
    <3>3. Customer(req[c].user, req[c].customer)
      BY <2>4 DEF SaveCustomer, CustomerInv
    <3>4. user'[req[c].user].customer = req[c].customer
      BY <2>4, <3>1 DEF TypeOK, SaveCustomer, Request, Row
    <3>5. req[c].customer # None
      BY <3>3 DEF TypeOK, Customer, None
    <3> QED
      BY <1>g, <3>2, <3>3, <3>4, <3>5, CustomerStays DEF Customer
  <2>5. \/ req'[c] = req[c] \/ req'[c].at \in {"load", "done"}
        \/ LoadCustomer(c) \/ CreateCustomer(c) \/ SaveCustomer(c)
    <3>1. ASSUME NEW d \in Clients, LoadCustomer(d) \/ CreateCustomer(d) \/ SaveCustomer(d)
          PROVE  d = c \/ req'[c] = req[c]
      BY <3>1 DEF TypeOK, LoadCustomer, CreateCustomer, SaveCustomer
    <3>2. ASSUME NEW d \in Clients, CreateCheckout(d) \/ CreatePortal(d) \/ RequestFails(d)
          PROVE  req'[c] = req[c] \/ req'[c].at = "done"
      BY <3>2 DEF TypeOK, CreateCheckout, CreatePortal, RequestFails
    <3>3. ASSUME NEW d \in Clients, NEW op, NEW u, NEW tier, StartRequest(d, op, u, tier)
          PROVE  req'[c] = req[c] \/ req'[c].at = "load"
      BY <3>3 DEF TypeOK, StartRequest
    <3>4. \/ \E d \in Clients : LoadCustomer(d) \/ CreateCustomer(d) \/ SaveCustomer(d)
          \/ \E d \in Clients : CreateCheckout(d) \/ CreatePortal(d) \/ RequestFails(d)
          \/ \E d \in Clients : \E op, u, tier : StartRequest(d, op, u, tier)
          \/ req' = req
      BY NextCases DEF Pay, ChangeStatus, ChangePlan, Cancel, Change, Receive, CommitTier, HookFails
    <3> QED
      BY <3>1, <3>2, <3>3, <3>4
  <2> QED
    BY <2>1, <2>2, <2>3, <2>4, <2>5
<1>3. (\A checkout \in open :
         Customer(checkout.user, checkout.customer) /\ user[checkout.user].customer # None)'
  <2> SUFFICES ASSUME NEW checkout \in open'
               PROVE  Customer(checkout.user, checkout.customer)'
                        /\ user'[checkout.user].customer # None
    OBVIOUS
  <2>1. CASE checkout \in open
    BY <1>g, <2>1, CustomerStays DEF CustomerInv, Grows, TypeOK, Checkout
  <2>2. ASSUME NEW c \in Clients, CreateCheckout(c), checkout \notin open
        PROVE  Customer(checkout.user, checkout.customer)'
                 /\ user'[checkout.user].customer # None
    <3>1. req[c] \in Request
      BY <2>2 DEF TypeOK, CreateCheckout, NoRequest
    <3>2. checkout.user = req[c].user /\ checkout.customer = req[c].customer
      BY <2>2 DEF CreateCheckout
    <3> QED
      BY <1>g, <2>2, <3>1, <3>2, CustomerStays DEF CreateCheckout, CustomerInv, Grows, Request
  <2>3. open' \subseteq open \/ \E c \in Clients : CreateCheckout(c)
    BY NextCases DEF StartRequest, LoadCustomer, CreateCustomer, SaveCustomer, CreatePortal,
       RequestFails, Pay, ChangeStatus, ChangePlan, Cancel, Change, Receive, CommitTier,
       HookFails, stripe
  <2> QED
    BY <2>1, <2>2, <2>3
<1>4. (\A s \in DOMAIN subs :
         Customer(subs[s].user, subs[s].customer) /\ user[subs[s].user].customer # None)'
  <2> SUFFICES ASSUME NEW s \in DOMAIN subs'
               PROVE  Customer(subs[s].user, subs[s].customer)'
                        /\ user'[subs'[s].user].customer # None
    OBVIOUS
  <2>1. CASE s \in DOMAIN subs
    BY <1>g, <2>1, SubTyped, CustomerStays DEF CustomerInv, Grows, Subscription, Customer
  <2>2. ASSUME NEW checkout \in open, subs'[s].user = checkout.user,
               subs'[s].customer = checkout.customer
        PROVE  Customer(subs[s].user, subs[s].customer)'
                 /\ user'[subs'[s].user].customer # None
    BY <1>g, <2>2, CustomerStays DEF CustomerInv, Grows, TypeOK, Checkout, Customer
  <2> QED
    BY <2>1, <2>2, SubOrigin
<1> QED
  BY <1>1, <1>2, <1>3, <1>4 DEF CustomerInv

-----------------------------------------------------------------------------
(* Events and tiers *)

\* The user of an event is the one in the metadata, whichever way it is found.
LEMMA EventsReachUser ==
  ASSUME TypeOK, CustomerInv, EventInv
  PROVE  EventsFindTheirUser
<1> SUFFICES ASSUME NEW event \in events
             PROVE  /\ Recipients(event) = {subs[event.sub].user}
                    /\ user[subs[event.sub].user].customer # None
  BY DEF EventsFindTheirUser
<1>1. event.sub \in DOMAIN subs /\ subs[event.sub] \in Subscription
  BY SubTyped DEF EventInv
<1>2. ASSUME NEW u \in ByCustomer(subs[event.sub].customer)
      PROVE  u = subs[event.sub].user
  <2>1. subs[event.sub].customer \in DOMAIN owner
        /\ owner[subs[event.sub].customer] = subs[event.sub].user
    BY <1>1 DEF CustomerInv, Customer
  <2>2. subs[event.sub].customer # None
    BY <2>1 DEF TypeOK, None
  <2>3. u \in Users /\ user[u].customer = subs[event.sub].customer
    BY DEF ByCustomer
  <2>4. owner[user[u].customer] = u
    BY <2>2, <2>3 DEF CustomerInv, Customer
  <2> QED
    BY <2>1, <2>3, <2>4
<1>3. \/ ByCustomer(subs[event.sub].customer) = {}
      \/ ByCustomer(subs[event.sub].customer) = {subs[event.sub].user}
  BY <1>2
<1>4. Recipients(event) = {subs[event.sub].user}
  BY <1>3 DEF Recipients
<1>5. user[subs[event.sub].user].customer # None
  BY <1>1 DEF CustomerInv
<1> QED
  BY <1>4, <1>5

LEMMA StepEvents ==
  ASSUME Inv, Next
  PROVE  EventInv'
<1> USE DEF Inv
<1>g. Grows
  BY StepGrows
<1>t. TypeOK'
  BY StepTypes
<1>1. (\A s \in DOMAIN subs : subs[s].tier \in subs[s].plans)'
  BY <1>g, SubOrigin DEF EventInv, Grows
<1>2. (\A event \in events : event.sub \in DOMAIN subs)'
  <2>1. ASSUME NEW checkout \in open, Pay(checkout)
        PROVE  \A event \in events' : event \in events \/ event.sub \in DOMAIN subs'
    <3>1. subs' \in Seq(Subscription) /\ Len(subs') = Len(subs) + 1
      BY <1>t, <2>1 DEF TypeOK, Pay
    <3> QED
      BY <2>1, <3>1 DEF Pay, Send, TypeOK
  <2>2. ASSUME NEW s \in DOMAIN subs, NEW kind, Send(kind, s)
        PROVE  \A event \in events' : event \in events \/ event.sub \in DOMAIN subs'
    BY <1>g, <2>2 DEF Send, Grows
  <2>3. \/ \E checkout \in open : Pay(checkout)
        \/ \E s \in DOMAIN subs : \E kind : Send(kind, s)
        \/ events' = events
    BY NextCases DEF StartRequest, LoadCustomer, CreateCustomer, SaveCustomer, CreateCheckout,
       CreatePortal, RequestFails, ChangeStatus, ChangePlan, Cancel, Receive, CommitTier,
       HookFails, stripe
  <2> QED
    BY <1>g, <2>1, <2>2, <2>3 DEF EventInv, Grows
<1>3. (\A h \in Hooks :
         hook[h].at = "tier" =>
           hook[h].event \in events /\ hook[h].user = subs[hook[h].event.sub].user)'
  <2> SUFFICES ASSUME NEW h \in Hooks, hook'[h].at = "tier"
               PROVE  /\ hook'[h].event \in events'
                      /\ hook'[h].user = subs'[hook'[h].event.sub].user
    OBVIOUS
  <2>1. CASE hook'[h] = hook[h]
    BY <1>g, <2>1 DEF EventInv, Grows
  <2>2. ASSUME NEW event \in events, NEW u \in Users, Receive(h, event, u)
        PROVE  hook'[h].event \in events' /\ hook'[h].user = subs'[hook'[h].event.sub].user
    <3>1. hook'[h].event = event /\ hook'[h].user = u
      BY <2>2 DEF TypeOK, Receive
    <3>2. u = subs[event.sub].user
      BY <2>2, EventsReachUser DEF EventsFindTheirUser, Receive
    <3> QED
      BY <1>g, <3>1, <3>2 DEF EventInv, Grows
  <2>3. \/ hook'[h] = hook[h] \/ hook'[h] = Waiting
        \/ \E event \in events, u \in Users : Receive(h, event, u)
    <3>1. ASSUME NEW d \in Hooks, NEW event \in events, NEW u \in Users, Receive(d, event, u)
          PROVE  d = h \/ hook'[h] = hook[h]
      BY <3>1 DEF TypeOK, Receive
    <3>2. ASSUME NEW d \in Hooks, CommitTier(d) \/ HookFails(d)
          PROVE  hook'[h] = hook[h] \/ hook'[h] = Waiting
      BY <3>2 DEF TypeOK, CommitTier, HookFails
    <3>3. \/ \E d \in Hooks, event \in events, u \in Users : Receive(d, event, u)
          \/ \E d \in Hooks : CommitTier(d) \/ HookFails(d)
          \/ hook' = hook
      BY NextCases DEF StartRequest, LoadCustomer, CreateCustomer, SaveCustomer, CreateCheckout,
         CreatePortal, RequestFails, Pay, ChangeStatus, ChangePlan, Cancel, Change
    <3> QED
      BY <3>1, <3>2, <3>3
  <2> QED
    BY <2>1, <2>2, <2>3 DEF Waiting
<1> QED
  BY <1>1, <1>2, <1>3 DEF EventInv

\* A tier is written by a handler, which takes it from the metadata of a
\* subscription of the user it writes to; what was bought once stays bought.
LEMMA StepBought ==
  ASSUME Inv, Next
  PROVE  TierWasBought'
<1> USE DEF Inv
<1>g. Grows
  BY StepGrows
<1>s. \A u : SubsOf(u) \subseteq SubsOf(u)'
  BY <1>g DEF SubsOf, Grows
<1>1. ASSUME NEW u \in Users,
             user[u].tier # "free" => \E s \in SubsOf(u) : user[u].tier \in subs[s].plans,
             user[u].subscription # None => user[u].subscription \in SubsOf(u),
             user'[u].tier = user[u].tier \/ user'[u].tier = "free"
               \/ \E s \in SubsOf(u) : user'[u].tier \in subs[s].plans,
             user'[u].subscription \in {user[u].subscription, None} \cup SubsOf(u)
      PROVE  /\ user'[u].tier # "free" => \E s \in SubsOf(u)' : user'[u].tier \in subs'[s].plans
             /\ user'[u].subscription # None => user'[u].subscription \in SubsOf(u)'
  BY <1>g, <1>s, <1>1 DEF Grows, SubsOf
<1>2. ASSUME NEW u \in Users
      PROVE  /\ user'[u].tier = user[u].tier \/ user'[u].tier = "free"
                  \/ \E s \in SubsOf(u) : user'[u].tier \in subs[s].plans
             /\ user'[u].subscription \in {user[u].subscription, None} \cup SubsOf(u)
  <2>1. ASSUME NEW h \in Hooks, CommitTier(h), u = hook[h].user
        PROVE  /\ user'[u].tier = user[u].tier \/ user'[u].tier = "free"
                    \/ \E s \in SubsOf(u) : user'[u].tier \in subs[s].plans
               /\ user'[u].subscription \in {user[u].subscription, None} \cup SubsOf(u)
    <3> DEFINE event == hook[h].event
    <3> DEFINE new == Assigned(event, hook[h].seen)
    <3>1. hook[h] \in Handler
      BY <2>1 DEF TypeOK, CommitTier, Waiting
    <3>2. event.sub \in SubsOf(u) /\ subs[event.sub].tier \in subs[event.sub].plans
      BY <2>1 DEF CommitTier, EventInv, SubsOf
    <3>3. /\ new.tier \in {hook[h].seen.tier, "free", subs[event.sub].tier}
          /\ new.subscription \in {hook[h].seen.subscription, None, event.sub}
      BY <3>1 DEF Assigned, Resolve, Handler, Row
    <3> HIDE DEF new
    <3>4. user'[u] = Flush(u, hook[h].seen, new)
      BY <2>1 DEF CommitTier, TypeOK, new
    <3> QED
      BY <3>2, <3>3, <3>4 DEF Flush
  <2>2. ASSUME NEW h \in Hooks, CommitTier(h), u # hook[h].user
        PROVE  user'[u] = user[u]
    BY <2>2 DEF CommitTier, TypeOK
  <2>3. ASSUME NEW c \in Clients, SaveCustomer(c)
        PROVE  user'[u].tier = user[u].tier /\ user'[u].subscription = user[u].subscription
    <3>1. req[c] \in Request
      BY <2>3 DEF TypeOK, SaveCustomer, NoRequest
    <3> QED
      BY <2>3, <3>1 DEF TypeOK, SaveCustomer, Request, Row
  <2>4. \/ \E h \in Hooks : CommitTier(h)
        \/ \E c \in Clients : SaveCustomer(c)
        \/ user' = user
    BY NextCases DEF StartRequest, LoadCustomer, CreateCustomer, CreateCheckout, CreatePortal,
       RequestFails, Pay, ChangeStatus, ChangePlan, Cancel, Change, Receive, HookFails
  <2> QED
    BY <2>1, <2>2, <2>3, <2>4
<1> QED
  BY <1>1, <1>2 DEF TierWasBought

-----------------------------------------------------------------------------
(* Who pays has a tier *)

\* A subscription that has ended stays so, and only its events take a tier away.  Of a user
\* none of whose subscriptions has ended: no handler thinks of a tier that the row has lost,
\* and the payment of a checkout has been taken note of once its event is handled.
Paying == {u \in Users : \A s \in SubsOf(u) : subs[s].status \notin Ended}

PaidInv ==
  /\ \A event \in events : Downgrades(event) => subs[event.sub].status \in Ended
  /\ \A s \in DOMAIN subs : \E event \in events : event.sub = s /\ event.kind = "completed"
  /\ \A h \in Hooks :
       hook[h].at = "tier" /\ hook[h].user \in Paying /\ hook[h].seen.tier # "free" =>
         user[hook[h].user].tier # "free"
  /\ \A event \in handled :
       event.kind = "completed" /\ subs[event.sub].user \in Paying =>
         user[subs[event.sub].user].tier # "free"

\* A step of Stripe pays a checkout, changes one subscription or leaves them all alone.
StripeCases ==
  \/ \E checkout \in open : Pay(checkout)
  \/ \E s \in DOMAIN subs, new \in Subscription :
       /\ Change(s, new)
       /\ new.user = subs[s].user
       /\ \/ Send("updated", s)
          \/ Send("deleted", s) /\ new.status = "canceled"
  \/ UNCHANGED <<subs, events>>

LEMMA NextStripe ==
  ASSUME TypeOK, Next
  PROVE  StripeCases
<1>1. ASSUME NEW s \in DOMAIN subs, NEW status \in Status, ChangeStatus(s, status)
      PROVE  StripeCases
  <2>1. [subs[s] EXCEPT !.status = status] \in Subscription
    BY SubTyped DEF Subscription
  <2> QED
    BY <1>1, <2>1, SubTyped DEF ChangeStatus, StripeCases, Subscription
<1>2. ASSUME NEW s \in DOMAIN subs, NEW plan \in PaidTiers, ChangePlan(s, plan)
      PROVE  StripeCases
  <2> DEFINE new == [subs[s] EXCEPT !.plan = plan, !.plans = @ \cup {plan}]
  <2>1. new \in Subscription /\ new.user = subs[s].user
    BY SubTyped DEF Subscription
  <2>2. Change(s, new) /\ Send("updated", s)
    BY <1>2 DEF ChangePlan
  <2> HIDE DEF new
  <2> QED
    BY <2>1, <2>2 DEF StripeCases
<1>3. ASSUME NEW s \in DOMAIN subs, Cancel(s)
      PROVE  StripeCases
  <2> DEFINE new == [subs[s] EXCEPT !.status = "canceled"]
  <2>1. new \in Subscription /\ new.user = subs[s].user /\ new.status = "canceled"
    BY SubTyped DEF Subscription, Status
  <2>2. Change(s, new) /\ Send("deleted", s)
    BY <1>3 DEF Cancel
  <2> HIDE DEF new
  <2> QED
    BY <2>1, <2>2 DEF StripeCases
<1>4. \/ \E checkout \in open : Pay(checkout)
      \/ \E s \in DOMAIN subs, status \in Status : ChangeStatus(s, status)
      \/ \E s \in DOMAIN subs, plan \in PaidTiers : ChangePlan(s, plan)
      \/ \E s \in DOMAIN subs : Cancel(s)
      \/ UNCHANGED <<subs, events>>
  BY NextCases DEF StartRequest, LoadCustomer, CreateCustomer, SaveCustomer, CreateCheckout,
     CreatePortal, RequestFails, Receive, CommitTier, HookFails, stripe
<1> QED
  BY <1>1, <1>2, <1>3, <1>4 DEF StripeCases

\* What ended stays so; who pays paid before, if there was a subscription then; and the
\* first two parts of PaidInv.
LEMMA StepStripe ==
  ASSUME Inv, PaidInv, Next
  PROVE  /\ Paying' \subseteq Paying
         /\ \A event \in events' : Downgrades(event) => subs'[event.sub].status \in Ended
         /\ \A s \in DOMAIN subs' :
              \E event \in events' : event.sub = s /\ event.kind = "completed"
<1>t. TypeOK /\ TypeOK'
  BY StepTypes DEF Inv
<1>1. ASSUME NEW checkout \in open, Pay(checkout)
      PROVE  /\ \A s \in DOMAIN subs : s \in DOMAIN subs' /\ subs'[s] = subs[s]
             /\ DOMAIN subs' = DOMAIN subs \cup {Len(subs')}
             /\ \E sent : /\ events' = events \cup {sent} /\ sent.sub = Len(subs')
                          /\ sent.kind = "completed"
  <2> DEFINE sub == [user |-> checkout.user, customer |-> checkout.customer,
                     tier |-> checkout.tier, plan |-> checkout.tier,
                     plans |-> {checkout.tier}, status |-> "active"]
  <2>1. subs' = Append(subs, sub) /\ subs \in Seq(Subscription) /\ sub \in Subscription
    BY <1>1, <1>t DEF Pay, TypeOK, Checkout, Subscription, Status
  <2> HIDE DEF sub
  <2>2. /\ Len(subs') = Len(subs) + 1 /\ DOMAIN subs' = 1..Len(subs) + 1
        /\ \A s \in 1..Len(subs) : subs'[s] = subs[s]
        /\ DOMAIN subs = 1..Len(subs) /\ Len(subs) \in Nat
    BY <2>1
  <2>3. Send("completed", Len(subs'))
    BY <1>1 DEF Pay
  <2> DEFINE sent == [kind |-> "completed", sub |-> Len(subs'),
                      status |-> subs'[Len(subs')].status, plan |-> subs'[Len(subs')].plan]
  <2>4. events' = events \cup {sent} /\ sent.sub = Len(subs') /\ sent.kind = "completed"
    BY <2>3 DEF Send
  <2> HIDE DEF sent
  <2> QED
    BY <2>2, <2>4
<1>2. ASSUME NEW s \in DOMAIN subs, NEW new \in Subscription, Change(s, new),
             new.user = subs[s].user,
             Send("updated", s) \/ (Send("deleted", s) /\ new.status = "canceled")
      PROVE  /\ DOMAIN subs' = DOMAIN subs
             /\ \A i \in DOMAIN subs : subs'[i] = IF i = s THEN new ELSE subs[i]
             /\ \E sent : /\ events' = events \cup {sent} /\ sent.sub = s
                          /\ Downgrades(sent) => subs'[s].status \in Ended
    <2>1. DOMAIN subs' = DOMAIN subs /\
          \A i \in DOMAIN subs : subs'[i] = IF i = s THEN new ELSE subs[i]
      BY <1>2, <1>t DEF Change, TypeOK
    <2> DEFINE sent(kind) ==
          [kind |-> kind, sub |-> s, status |-> subs'[s].status, plan |-> subs'[s].plan]
    <2>2. \A kind : /\ sent(kind).sub = s /\ sent(kind).kind = kind
                    /\ sent(kind).status = subs'[s].status
      OBVIOUS
    <2>3. PICK kind : /\ events' = events \cup {sent(kind)}
                      /\ kind = "updated" \/ (kind = "deleted" /\ new.status = "canceled")
      BY <1>2 DEF Send
    <2>4. subs'[s] = new
      BY <2>1
    <2>5. Downgrades(sent(kind)) => subs'[s].status \in Ended
      BY <2>2, <2>3, <2>4 DEF Downgrades, Ended
    <2> HIDE DEF sent
    <2> QED
      BY <2>1, <2>2, <2>3, <2>5
<1>3. CASE \E checkout \in open : Pay(checkout)
  BY <1>1, <1>3 DEF Inv, EventInv, PaidInv, Paying, SubsOf, Downgrades
<1>4. CASE \E s \in DOMAIN subs, new \in Subscription :
             /\ Change(s, new)
             /\ new.user = subs[s].user
             /\ \/ Send("updated", s)
                \/ Send("deleted", s) /\ new.status = "canceled"
  <2> PICK s \in DOMAIN subs, new \in Subscription :
             /\ Change(s, new)
             /\ new.user = subs[s].user
             /\ \/ Send("updated", s)
                \/ Send("deleted", s) /\ new.status = "canceled"
    BY <1>4
  <2>1. subs[s].status \notin Ended
    BY DEF Change
  <2>2. PICK sent : /\ events' = events \cup {sent} /\ sent.sub = s
                    /\ Downgrades(sent) => subs'[s].status \in Ended
    BY <1>2
  <2>3. /\ DOMAIN subs' = DOMAIN subs
        /\ \A i \in DOMAIN subs : subs'[i] = IF i = s THEN new ELSE subs[i]
    BY <1>2
  <2>4. Paying' \subseteq Paying
    BY <2>1, <2>3 DEF Paying, SubsOf
  <2>5. \A event \in events' : Downgrades(event) => subs'[event.sub].status \in Ended
    BY <2>1, <2>2, <2>3 DEF Inv, EventInv, PaidInv
  <2>6. \A i \in DOMAIN subs' : \E event \in events' : event.sub = i /\ event.kind = "completed"
    BY <2>2, <2>3 DEF PaidInv
  <2> QED
    BY <2>4, <2>5, <2>6
<1>5. CASE UNCHANGED <<subs, events>>
  BY <1>5 DEF PaidInv, Paying, SubsOf
<1> QED
  BY <1>3, <1>4, <1>5, <1>t, NextStripe DEF StripeCases

\* The tier of a user who pays is not taken away; a payment that is taken note of gives one.
LEMMA StepTier ==
  ASSUME Inv, PaidInv, Next, NEW u \in Paying
  PROVE  /\ user[u].tier # "free" => user'[u].tier # "free"
         /\ \A h \in Hooks :
              CommitTier(h) /\ hook[h].user = u /\ hook[h].event.kind = "completed" =>
                user'[u].tier # "free"
<1>u. u \in Users
  BY DEF Paying
<1>1. ASSUME NEW h \in Hooks, CommitTier(h), hook[h].user = u
      PROVE  /\ user[u].tier # "free" => user'[u].tier # "free"
             /\ hook[h].event.kind = "completed" => user'[u].tier # "free"
  <2> DEFINE event == hook[h].event
  <2> DEFINE seen == hook[h].seen
  <2> DEFINE new == Assigned(event, seen)
  <2>1. hook[h] \in Handler /\ seen \in Row /\ hook[h].at = "tier"
    BY <1>1 DEF Inv, TypeOK, CommitTier, Waiting, Handler
  <2>2. event \in events /\ event.sub \in SubsOf(u)
    BY <1>1, <2>1 DEF Inv, EventInv, SubsOf
  <2>3. ~Downgrades(event)
    BY <2>2 DEF PaidInv, Paying
  <2>4. subs[event.sub].tier # "free"
    BY <2>2, SubTyped, TiersAssumption DEF Inv, SubsOf, Subscription
  <2>5. /\ new.tier # "free" \/ new.tier = seen.tier
        /\ event.kind = "completed" => new.tier # "free"
    BY <2>1, <2>3, <2>4 DEF Assigned, Resolve, Upgrades, Row
  <2> HIDE DEF new
  <2>6. user'[u] = Flush(u, seen, new)
    BY <1>1, <1>u DEF CommitTier, Inv, TypeOK, new
  <2>7. seen.tier # "free" => user[u].tier # "free"
    BY <1>1, <2>1 DEF PaidInv
  <2> QED
    BY <2>5, <2>6, <2>7 DEF Flush
<1>2. ASSUME NEW h \in Hooks, CommitTier(h), hook[h].user # u
      PROVE  user'[u] = user[u]
  BY <1>2, <1>u DEF CommitTier, Inv, TypeOK
<1>3. ASSUME NEW c \in Clients, SaveCustomer(c)
      PROVE  user'[u].tier = user[u].tier
  BY <1>3, <1>u DEF SaveCustomer, Inv, TypeOK, Row
<1>4. \/ \E h \in Hooks : CommitTier(h)
      \/ \E c \in Clients : SaveCustomer(c)
      \/ user' = user
  BY NextCases DEF StartRequest, LoadCustomer, CreateCustomer, CreateCheckout, CreatePortal,
     RequestFails, Pay, ChangeStatus, ChangePlan, Cancel, Change, Receive, HookFails
<1> QED
  BY <1>1, <1>2, <1>3, <1>4

\* What a handler holds was read from the row, and what is handled was committed.
LEMMA StepHook ==
  ASSUME Inv, Next
  PROVE  /\ \A h \in Hooks :
              \/ hook'[h] = hook[h]
              \/ hook'[h].at # "tier"
              \/ hook'[h].seen = user[hook'[h].user] /\ user' = user
         /\ \A event \in handled' :
              \/ event \in handled
              \/ \E h \in Hooks : CommitTier(h) /\ hook[h].event = event
<1>1. ASSUME NEW h \in Hooks, NEW d \in Hooks, NEW event \in events, NEW u \in Users,
             Receive(d, event, u)
      PROVE  \/ hook'[h] = hook[h]
             \/ hook'[h].seen = user[hook'[h].user] /\ user' = user
  BY <1>1 DEF Inv, TypeOK, Receive
<1>2. ASSUME NEW h \in Hooks, NEW d \in Hooks, CommitTier(d) \/ HookFails(d)
      PROVE  hook'[h] = hook[h] \/ hook'[h].at # "tier"
  BY <1>2 DEF Inv, TypeOK, CommitTier, HookFails, Waiting
<1>3. \/ \E d \in Hooks, event \in events, u \in Users : Receive(d, event, u)
      \/ \E d \in Hooks : CommitTier(d) \/ HookFails(d)
      \/ hook' = hook
  BY NextCases DEF StartRequest, LoadCustomer, CreateCustomer, SaveCustomer, CreateCheckout,
     CreatePortal, RequestFails, Pay, ChangeStatus, ChangePlan, Cancel, Change
<1>4. \A event \in handled' :
        event \in handled \/ \E h \in Hooks : CommitTier(h) /\ hook[h].event = event
  <2>1. handled' = handled \/ \E h \in Hooks : CommitTier(h)
    BY NextCases DEF StartRequest, LoadCustomer, CreateCustomer, SaveCustomer, CreateCheckout,
       CreatePortal, RequestFails, Pay, ChangeStatus, ChangePlan, Cancel, Change, Receive,
       HookFails
  <2> QED
    BY <2>1 DEF CommitTier
<1> QED
  BY <1>1, <1>2, <1>3, <1>4

LEMMA StepPaid ==
  ASSUME Inv, PaidInv, Next
  PROVE  PaidInv'
<1>t. Inv'
  BY StepTypes, StepCustomers, StepEvents, StepBought DEF Inv
<1>g. Grows
  BY StepGrows DEF Inv
<1>1. ASSUME NEW h \in Hooks, hook'[h].at = "tier", hook'[h].user \in Paying',
             hook'[h].seen.tier # "free"
      PROVE  user'[hook'[h].user].tier # "free"
  <2>1. hook'[h].user \in Users
    BY <1>1, <1>t DEF Inv, TypeOK, Waiting, Handler
  <2>2. hook'[h].user \in Paying
    BY <1>1, StepStripe
  <2>3. CASE hook'[h] = hook[h]
    BY <1>1, <2>1, <2>2, <2>3, StepTier DEF PaidInv
  <2>4. CASE hook'[h].seen = user[hook'[h].user] /\ user' = user
    BY <1>1, <2>4
  <2> QED
    BY <1>1, <2>3, <2>4, StepHook
<1>2. ASSUME NEW event \in handled', event.kind = "completed",
             subs'[event.sub].user \in Paying'
      PROVE  user'[subs'[event.sub].user].tier # "free"
  <2>1. event \in events' /\ event.sub \in DOMAIN subs'
    BY <1>2, <1>t DEF Inv, TypeOK, EventInv
  <2>2. subs'[event.sub].user \in Users
    <3>1. subs'[event.sub] \in Subscription
      BY <1>t, <2>1 DEF Inv, TypeOK
    <3> QED
      BY <3>1 DEF Subscription
  <2>3. ASSUME event \in events
        PROVE  subs'[event.sub].user = subs[event.sub].user
    BY <1>g, <2>3 DEF Inv, EventInv, Grows
  <2>4. subs'[event.sub].user \in Paying
    BY <1>2, StepStripe
  <2>5. CASE event \in handled
    BY <1>2, <2>2, <2>3, <2>4, <2>5, StepTier DEF PaidInv, Inv, TypeOK
  <2>6. ASSUME NEW h \in Hooks, CommitTier(h), hook[h].event = event
        PROVE  user'[subs'[event.sub].user].tier # "free"
    <3>1. event \in events /\ hook[h].user = subs[event.sub].user
      BY <2>6 DEF CommitTier, Inv, EventInv
    <3> QED
      BY <1>2, <2>2, <2>3, <2>4, <2>6, <3>1, StepTier
  <2> QED
    BY <1>2, <2>5, <2>6, StepHook
<1> QED
  BY <1>1, <1>2, StepStripe DEF PaidInv, Downgrades

-----------------------------------------------------------------------------
(* The theorems *)

LEMMA Invariance == Spec => []Inv
<1>1. Init => Inv
  <2> SUFFICES ASSUME Init
               PROVE  Inv
    OBVIOUS
  <2>1. TypeOK
    BY DEF Init, TypeOK, Row, Tiers, None, NoRequest
  <2>2. CustomerInv /\ EventInv
    BY DEF Init, CustomerInv, EventInv, Customer, None, Waiting
  <2>3. TierWasBought
    BY DEF Init, TierWasBought, None
  <2> QED
    BY <2>1, <2>2, <2>3 DEF Inv
<1>2. Inv /\ [Next]_vars => Inv'
  <2>1. CASE Next
    BY <2>1, StepTypes, StepCustomers, StepEvents, StepBought DEF Inv
  <2>2. CASE UNCHANGED vars
    BY <2>2 DEF vars, stripe, Inv, TypeOK, CustomerInv, Customer, EventInv, TierWasBought, SubsOf
  <2> QED
    BY <2>1, <2>2
<1> QED
  BY <1>1, <1>2, PTL DEF Spec

\* The variables keep their types, whatever interleaves; a checkout is never for
\* the free tier, and a handled event was sent.
THEOREM BillingTyped == Spec => []TypeOK
<1>1. Inv => TypeOK
  BY DEF Inv
<1> QED
  BY <1>1, Invariance, PTL

\* Every event reaches exactly the user who pays (webhook.py:43-66), for any
\* number of customers that overlapping checkouts create for one user.
THEOREM EventsReach == Spec => []EventsFindTheirUser
<1>1. Inv => EventsFindTheirUser
  BY EventsReachUser DEF Inv
<1> QED
  BY <1>1, Invariance, PTL

\* A tier rests on a subscription of the same user (services.py:111-143).
THEOREM TiersAreBought == Spec => []TierWasBought
<1>1. Inv => TierWasBought
  BY DEF Inv
<1> QED
  BY <1>1, Invariance, PTL

\* A user who has paid, whose subscriptions have not ended and whose events were answered
\* has a tier, in whatever order handlers of several processes read and commit
\* (services.py:111-143): a column that is not written because the handler holds the same
\* value has that value, or another paid one.
THEOREM PayersHaveTiers == Spec => []PayingUserHasTier
<1>1. Init => PaidInv
  BY DEF Init, PaidInv, Waiting
<1>2. Inv /\ PaidInv /\ [Next]_vars => PaidInv'
  <2>1. CASE UNCHANGED vars
    BY <2>1 DEF vars, stripe, PaidInv, Paying, SubsOf
  <2> QED
    BY <2>1, StepPaid
<1>3. Inv /\ PaidInv => PayingUserHasTier
  <2> SUFFICES ASSUME Inv, PaidInv, NEW u \in Users, SubsOf(u) # {}, u \in Paying,
                      {event \in events : event.sub \in SubsOf(u)} \subseteq handled
               PROVE  user[u].tier # "free"
    BY DEF PayingUserHasTier, Paying
  <2> QED
    BY DEF PaidInv, SubsOf
<1> QED
  BY <1>1, <1>2, <1>3, Invariance, PTL DEF Spec

=============================================================================
