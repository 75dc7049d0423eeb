\* Each part by itself; the channel over UDP: frames are lost, duplicated and
\* reordered, and each end rotates by itself; the window of 5 in words of 2 bits, so
\* that the last word is half used.
SPECIFICATION SessionsSpec
CONSTANTS
  Parts = {"channel", "window", "demux", "relayd", "cookies", "delegation", "trust", "agents"}
  Initiator = "i"
  Responder = "r"
  Datagrams = TRUE
  Apart = TRUE
  Window = 5
  WordBits = 2
  Seqs <- MCSeqs
  MaxMessages = 2
  MaxBytes = 3
  Lengths = {1}
  MaxEpoch = 1
  MaxFlight = 2
  MaxDup = 1
  MaxStreams = 2
  MaxAsks = 2
  Agents = {"x", "y"}
  Admins = {"a1", "a2"}
  Capacity = 1
  Refill = 2
  LastDTick = 4
  MaxAttempts = 4
  MaxOrders = 2
  Idents = {"r", "a", "b"}
  TrustedRoots = {"r"}
  Capabilities = {1, 2}
  Requests <- MCRequests
  MaxDepth = 2
  LastSecond = 1
  MaxIssued = 3
  Fps = {"s", "a", "b"}
  SeedFps = {"s"}
  Fields = {1, 2}
  Offers <- MCOffers
  MaxHops = 1
  Threshold = 2
  LastDay = 2
  MaxEndorsements = 3
  Registrants = {"a", "b", "c"}
  MaxNonce = 2
  MaxCalls = 5
  Sources = {"x", "y"}
  MaxRotations = 3
  LastInstant = 1
INVARIANTS
  MessageKeysUsedOnce
  OpenedInOrderOnce
  AnswersFindTheirStream
  AdmissionHolds
  VouchersCount
PROPERTIES
  ImplementsSlidingWindow
CHECK_DEADLOCK FALSE
