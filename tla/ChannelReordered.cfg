\* UDP without rotation: two frames change places.
CONSTANTS
  Initiator = "i"
  Responder = "r"
  Datagrams = TRUE
  Apart = FALSE
  Window = 4
  MaxMessages = 2
  MaxBytes = 4
  Lengths = {1}
  MaxEpoch = 0
  MaxFlight = 2
  MaxDup = 0
SPECIFICATION Spec
PROPERTY AdmittedMessagesOpen
CHECK_DEADLOCK FALSE
