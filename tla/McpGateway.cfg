SPECIFICATION Spec
CONSTANTS
  files = files
  p1 = p1
  p2 = p2
  readFile = readFile
  h1 = h1
  h2 = h2
  Servers = {files}
  Profiles = {p1, p2}
  Tools = {readFile}
  Schemas = {h1, h2}
  Incomplete = {h2}
  MaxEpoch = 4
  InitialTrust = {"pending"}
  OperatorTrust = {"pending"}
  TicketTtl = 0
  MaxSessions = 2
  MaxInvocations = 3
  MaxTickets = 1
  MaxTime = 1
INVARIANTS
  SpentByOneCall
  ExecutableIsAsEvaluated
PROPERTIES
  RevocationCutsSessions
CHECK_DEADLOCK FALSE
