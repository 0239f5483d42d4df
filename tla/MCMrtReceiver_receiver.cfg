CONSTANTS
  NULL = NULL
  Addrs = {a1, a2}
  SenderIds = {s1, s2}
  MAX_MRT_PAYLOAD_LENGTH = 2
  WINDOW_PAYLOADS = 1
  MaxInFlight = 1
  TIMEOUT_THRESHOLD = 0
  ReceiveLens = {1}
  MaxFrag = 2
SPECIFICATION Spec
SYMMETRY Symmetry
INVARIANTS TypeOK OneOwner CheckersOutliveOnlyClose BufferIsStream OnlyHomeIsServed AnswersAreTrue
