CONSTANTS
  NULL = NULL
  talker = talker
  visitor = visitor
  Apps = {talker, visitor}
  SendsOf <- TalkerSends
  MAX_PAYLOADS_BUFFERABLE = 1
  CLOSE_TIMEOUT_THRESHOLD = 0
SPECIFICATION Spec
INVARIANTS UsedIsValid
CHECK_DEADLOCK FALSE
