SPECIFICATION Spec
CONSTANTS
  c1 = c1
  c2 = c2
  phone = phone
  Requests = {c1, c2}
  DeviceIds = {phone}
  ChallengeTtl = 1
  Timeout = 2
  MaxTime = 3
INVARIANTS
  ConsentUsedOnce
  GrantWithinChallengeLife
PROPERTIES
  RequestIsAnswered
  GrantNeedsAuthorizedDevice
CHECK_DEADLOCK FALSE
