CONSTANTS
  NULL = NULL
  Addrs = {a1}
  SenderIds = {s1}
  MAX_MRT_PAYLOAD_LENGTH = 1
  WINDOW_PAYLOADS = 1
  MaxInFlight = 1
  MAX_PAYLOADS_BUFFERABLE = 1
  RESEND_TIMEOUT_THRESHOLD = 0
  CLOSE_TIMEOUT_THRESHOLD = 0
  TIMEOUT_THRESHOLD = 1
  SendLens = {2}
  MaxBytes = 2
  ReceiveLens = {2}
SPECIFICATION Spec
INVARIANTS IInv DropIsReal
CHECK_DEADLOCK FALSE
