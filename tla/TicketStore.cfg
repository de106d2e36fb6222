SPECIFICATION Spec
CONSTANTS
  read = read
  srvA = srvA
  input = input
  NoMcp = NoMcp
  Capabilities = {read}
  Versions = {1, 2}
  McpBindings = {srvA}
  Payloads = {input}
  TtlMs = 0
  Held = {2}
  MaxTickets = 2
  MaxIssued = 3
  MaxTime = 1
INVARIANTS
  AtMostOnce
  RevokedNeverRedeemed
PROPERTIES
  EvictionTakesOldest
  RedeemsWhatWasSigned
  ImplementsSingleUse
