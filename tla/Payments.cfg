\* Each part by itself; two processes p1 and p2 share the files, and the passes overlap
\* with a command on one x402 order.
SPECIFICATION PaymentsSpec
CONSTANTS
  Parts = {"executor", "books", "purse", "x402"}
  o1 = o1
  o2 = o2
  e1 = e1
  e2 = e2
  p1 = p1
  p2 = p2
  c1 = c1
  Orders = {o1}
  Passes = {p1, p2}
  Clients = {c1}
  Events = {e1}
  None = None
  NoAuth = NoAuth
  Rail <- OneX402
  EventOf <- OneEvent
  PayoutOf <- OneHold
  Commands = {"retrying", "settled"}
  MaxAttempts = 2
  Funds = 0
  Overlap = TRUE
  MaxFaults = 0
  MaxCharges = 2
  MaxOps = 1
  Clerks = {p1, p2}
  Bills = {1, 2}
  Price <- MCPrice
  Rate <- MCRate
  Scale = 2
  Coin <- MCCoin
  Pledges = {1, 2}
  Forged = {2}
  Phrases = {"p"}
  Files <- MCFiles
  PspAmounts <- MCPsp
  MaxCommands = 3
  Holders = {p1, p2}
  Amounts = {1}
  StartFunds = 2
  Caps = {1}
  Layouts <- MCLayouts
  LastDay = 2
  DaysPerMonth = 2
  MaxWork = 3
  MaxOpens = 2
  HttpRails = {"direct", "split", "ach", "card"}
  Amounts_ = {1, 2}
  Endpoints = {"e1", "e2"}
  MaxHttpTries = 2
INVARIANTS
  EveryBatchHasItsCharge
  BooksAreKept
  WalletIsSound
  ChargesAreGenuine
SYMMETRY PassSymmetry
CHECK_DEADLOCK FALSE
