CONSTANTS
  NULL = NULL
  Addrs = {a1}
  SenderIds = {s1}
  MAX_MRT_PAYLOAD_LENGTH = 1
  WINDOW_PAYLOADS = 1
  MaxInFlight = 1
  TIMEOUT_THRESHOLD = 0
  ReceiveLens = {1}
  MaxFrag = 1
SPECIFICATION FairSpec
PROPERTY TimedOutReceiveReturns
