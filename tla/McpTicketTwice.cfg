SPECIFICATION Spec
CONSTANTS
  files = files
  p1 = p1
  p2 = p2
  readFile = readFile
  h1 = h1
  h2 = h2
  Servers = {files}
  Profiles = {p1}
  Tools = {readFile}
  Schemas = {h1, h2}
  Incomplete = {h2}
  MaxEpoch = 3
  InitialTrust = {"pending"}
  OperatorTrust = {"pending"}
  TicketTtl = 0
  MaxSessions = 2
  MaxInvocations = 3
  MaxTickets = 1
  MaxTime = 1
INVARIANTS
  TicketCallsToolOnce
CHECK_DEADLOCK FALSE
