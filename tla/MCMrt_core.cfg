CONSTANTS
  NULL = NULL
  Addrs = {a1}
  SenderIds = {s1}
  MAX_MRT_PAYLOAD_LENGTH = 2
  WINDOW_PAYLOADS = 1
  MaxInFlight = 2
  MAX_PAYLOADS_BUFFERABLE = 2
  RESEND_TIMEOUT_THRESHOLD = 0
  CLOSE_TIMEOUT_THRESHOLD = 1
  TIMEOUT_THRESHOLD = 2
  SendLens = {1, 3}
  MaxBytes = 3
  ReceiveLens = {1}
SPECIFICATION Spec
CONSTRAINT DataPath
INVARIANTS TypeOK DeliveredInOrder ConfirmedWasReceived AckWithinBuffer SendReturnsSound RclsMeansAllReceived WindowNotOverrun
PROPERTIES ImplementsStream AcksOnlyAdvance
