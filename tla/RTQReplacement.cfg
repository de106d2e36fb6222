SPECIFICATION Spec
CONSTANTS
  read = read
  srvA = srvA
  x1 = x1
  x2 = x2
  NoMcp = NoMcp
  Capabilities = {read}
  McpBindings = {srvA}
  Inputs = {x1, x2}
  Strategies = {"automatic", "user_confirmation", "custom"}
  HostProviders = {"custom"}
  PromptConfigured = TRUE
  ChallengeTtl = 1
  TicketTtl = 1
  ExecuteTimeout = 1
  MaxVersion = 3
  MaxAuths = 1
  LastCall = 2
  MaxTime = 3
INVARIANTS
  OnlyNativeHandlersRun
  LiveStaleTicketsAreLateGrants
PROPERTIES
  ExecuteReports
CHECK_DEADLOCK FALSE
