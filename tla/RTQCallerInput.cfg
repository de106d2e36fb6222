SPECIFICATION Spec
CONSTANTS
  read = read
  srvA = srvA
  x1 = x1
  x2 = x2
  NoMcp = NoMcp
  Capabilities = {read}
  McpBindings = {}
  Inputs = {x1, x2}
  Strategies = {"user_confirmation", "device_verification"}
  HostProviders = {}
  PromptConfigured = TRUE
  ChallengeTtl = 1
  TicketTtl = 1
  ExecuteTimeout = 1
  MaxVersion = 1
  MaxAuths = 1
  LastCall = 1
  MaxTime = 2
INVARIANTS
  TicketCarriesShownInput
CHECK_DEADLOCK FALSE
