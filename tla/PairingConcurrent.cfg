SPECIFICATION PairingSpec
CONSTANTS
  phone = phone
  tablet = tablet
  DeviceIds = {phone, tablet}
  Configurations = {TRUE}
  PairingTtl = 1
  MaxPairings = 2
  MaxCalls = 2
  MaxTime = 2
SYMMETRY DeviceSymmetry
INVARIANTS
  PairingSingleUse
CHECK_DEADLOCK FALSE
