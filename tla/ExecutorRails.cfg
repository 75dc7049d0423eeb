\* One command at a time.
SPECIFICATION RailsSpec
CONSTANTS
  Parts = {"orders", "rails"}
  o1 = o1
  o2 = o2
  e1 = e1
  e2 = e2
  p1 = p1
  p2 = p2
  c1 = c1
  Orders = {o1, o2}
  Passes = {p1}
  Clients = {c1}
  Events = {e1, e2}
  None = None
  NoAuth = NoAuth
  Rail <- X402Payout
  EventOf <- PayoutEvent
  PayoutOf <- PayoutPair
  Commands = {"retrying", "resuming", "settled", "failed"}
  MaxAttempts = 3
  Funds = 1
  Overlap = FALSE
  MaxFaults = 2
  MaxCharges = 5
  MaxOps = 1
INVARIANTS
  SettledIsJournaled
  ExtraChargesNeedACause
  EffectsFollowSettlement
PROPERTIES
  SettledStaysSettled
  StuckOrdersRecover
