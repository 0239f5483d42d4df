CONSTANTS
  OldServers <- VoipStunt
  NewServers <- Google
  NatIp <- Translated
  ExternalPort <- Ports
  XOR <- ExclusiveOr
  Hosts <- TwoHosts
  AddressesOf <- Lookup
  num_response_expected = 3
  original_server <- Original
  num_cone_expected = 4
  Zeros <- NoWords
SPECIFICATION Spec
INVARIANTS SymmetricIsReal SymmetricIsFound ReportedIsSeen AddressesAreAttributes WaitsOnlyForLost VerdictsAreReal ConclusionHolds
CHECK_DEADLOCK FALSE
