SPECIFICATION Spec
CONSTANTS
  c1 = c1
  c2 = c2
  phone = phone
  Requests = {c1, c2}
  DeviceIds = {phone}
  ChallengeTtl = 1
  Timeout = 1
  MaxTime = 2
  AnyApproval = TRUE
INVARIANTS
  OneGrantPerConsent
PROPERTIES
  PresentedIsAnswered
CHECK_DEADLOCK FALSE
