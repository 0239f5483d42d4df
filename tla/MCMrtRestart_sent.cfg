CONSTANTS
  NULL = NULL
  Addrs = {a1}
  SenderIds = {s1}
  MAX_MRT_PAYLOAD_LENGTH = 1
  WINDOW_PAYLOADS = 1
  MaxInFlight = 1
  MAX_PAYLOADS_BUFFERABLE = 1
  RESEND_TIMEOUT_THRESHOLD = 0
  CLOSE_TIMEOUT_THRESHOLD = 0
  TIMEOUT_THRESHOLD = 0
  SendLens = {1}
  MaxBytes = 1
  ReceiveLens = {1}
SPECIFICATION RestartSpec
CHECK_DEADLOCK FALSE
INVARIANT RestartedSendIsReceived
