SPECIFICATION FairSpec
CONSTANTS
  c1 = c1
  c2 = c2
  h1 = h1
  h2 = h2
  p1 = p1
  p2 = p2
  Hosts = {h1, h2}
  Pins = {p1, p2}
  WeakPins = {p2}
  MaxKeys = 1
  MaxTime = 2
  Challenges <- MCChallenges
  MaxSubmits = 2
  BiometricResults = {"authenticated", "failed"}
  Pairings <- MCPairings
  MaxCalls = 2
INVARIANTS
  SignsWhatWasReviewed
  ApprovedWasAccepted
  ApprovalsForPairedHosts
PROPERTIES
  PinsOnlyConfirmedHost
  ProgressEnds
