\* No fault: two passes overlap.
SPECIFICATION RailsSpec
CONSTANTS
  Parts = {"orders"}
  o1 = o1
  o2 = o2
  e1 = e1
  e2 = e2
  p1 = p1
  p2 = p2
  c1 = c1
  Orders = {o1}
  Passes = {p1, p2}
  Clients = {c1}
  Events = {e1}
  None = None
  NoAuth = NoAuth
  Rail <- OneX402
  EventOf <- OneEvent
  PayoutOf <- OneHold
  Commands = {}
  MaxAttempts = 2
  Funds = 1
  Overlap = TRUE
  MaxFaults = 0
  MaxCharges = 2
  MaxOps = 0
PROPERTIES
  ExecutingIsExclusive
