\* Three connections of two peers: a peer may reconnect while its old connection
\* is still up and the other peer is being served.
CONSTANTS
  a = a
  b = b
  c1 = c1
  c2 = c2
  c3 = c3
  Peers = {a, b}
  Conns = {c1, c2, c3}
  None = None
  MaxForwardings = 1
  MaxTargets = 1
  MaxWatchers = 1
  MaxDials = 3
  MaxPairs = 1
  MaxFrames = 1
SPECIFICATION Spec
INVARIANTS
  PairsAreSound
  SubscriptionsMirrored
  PresenceIsTrue
SYMMETRY RelaySymmetry
CHECK_DEADLOCK FALSE
