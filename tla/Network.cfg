\* Each conversation by itself; the stream's two ends rotate together while it is idle.
SPECIFICATION NetworkFairSpec
CONSTANTS
  Parts = {"channel", "watch", "session", "framing", "mailbox", "punch"}
  None = None
  Initiator = "i"
  Responder = "r"
  Datagrams = FALSE
  Apart = FALSE
  Window = 2
  MaxMessages = 2
  MaxBytes = 3
  Lengths = {1, 2}
  MaxEpoch = 1
  MaxFlight = 2
  MaxDup = 0
  MaxDialAttempts = 3
  MaxConnections = 2
  Mediums = {"tcp", "quic", "udp"}
  Tags = {2, 3}
  Owned = {2, 3}
  NamedTags = {3}
  Payloads <- MCPayloads
  Base = 4
  MaxFrameSize = 3
  MaxDatagram = 4
  MaxSends = 2
  MaxSlips = 1
  Tasks = {"t1", "t2"}
  FrameSizes = {1, 2}
  MaxFrame = 2
  InboxMessages = 2
  InboxBytes = 3
  InboxTtl = 1
  AdvertTtl = 1
  LastTick = 1
  MaxTraffic = 4
  Callers = {"b", "f", "g"}
  Profile <- MCProfile
  KeeperNet = "k"
  KeeperStun = TRUE
  MaxPolls = 1
  MaxProbes = 1
  MaxServes = 2
  MaxPunchCalls = 2
  MaxLosses = 1
INVARIANTS
  PipesAgree
  FramesArriveAsSent
  ClientsGetTheirOwn
  AnswersReachTheirAskers
PROPERTIES
  ConversationsEnd
CHECK_DEADLOCK FALSE
