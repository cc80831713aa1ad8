SPECIFICATION MCSpec
CONSTANTS
  AppConfigs <- MCAppConfigs
  Fds = {1}
  MinDelay = 1
  MaxDelay = 2
  LateAuth = FALSE
  MaxCalls = 3
  MaxTime = 4
  Failures = 1
  Pems <- MCPems
  Hosts <- MCHosts
  Clients <- MCClients
  CertVersions = {33, 34}
  Responses <- MCResponses
  Now = 6
  MaxChains = 2
INVARIANTS
    WipedLikeNew
    NothingLeaked
    DelayEnforced
    PeerChecked
    ServedNameIsAccepted
    PeerVerified
CHECK_DEADLOCK FALSE
