SPECIFICATION Spec
CONSTANTS
  Users = {u1, u2}
  Clients = {c1, c2}
  Hooks = {h1, h2}
  PaidTiers = {"starter", "pro"}
  MaxChanges = 2
SYMMETRY BillingSymmetry
INVARIANTS
  TypeOK
  EventsFindTheirUser
  TierWasBought
  PayingUserHasTier
\* Users may stop asking, and every event may have been handled.
CHECK_DEADLOCK FALSE
