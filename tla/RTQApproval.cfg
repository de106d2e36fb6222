SPECIFICATION Spec
CONSTANTS
  read = read
  srvA = srvA
  x1 = x1
  x2 = x2
  NoMcp = NoMcp
  Capabilities = {read}
  McpBindings = {}
  Inputs = {x1}
  Strategies = {"device_verification", "biometric"}
  HostProviders = {}
  PromptConfigured = FALSE
  ChallengeTtl = 1
  TicketTtl = 1
  ExecuteTimeout = 1
  MaxVersion = 1
  MaxAuths = 2
  LastCall = 3
  MaxTime = 4
INVARIANTS
  OneRunPerAuthorization
  DeviceConsentNeeded
  PendingHasLiveChallenge
  FreshAuthorization
CHECK_DEADLOCK FALSE
