--------------------------- MODULE DeviceRegistry ---------------------------
(***************************************************************************)
(* packages/approval/src/device.ts, class DeviceRegistry: which device     *)
(* keys may approve.  A device id is the fingerprint of its public key, so *)
(* a record's key is its id.  The clock the registry reads is shared by    *)
(* the modules that extend this one.                                       *)
(***************************************************************************)
EXTENDS Naturals

CONSTANTS
  DeviceIds,    \* fingerprints of the device keys that exist
  MaxTime       \* bound: last value of the clock

VARIABLES
  now,      \* options.now()
  devices   \* the Map: deviceId -> [status, expiresAt]

ASSUME RegistryAssumption == MaxTime \in Nat

(* "expiresAt" of a record without one: later than the clock ever gets.    *)
Never == MaxTime + 1
Record == [status : {"authorized", "revoked"}, expiresAt : 0..Never]

With(d, r) == [x \in DOMAIN devices \cup {d} |-> IF x = d THEN r ELSE devices[x]]

(* register() replaces whatever record the device had.                     *)
RegisterDevice(d, r) == devices' = With(d, r)

(* authorize() lifts a revocation and keeps the expiry unless given one.   *)
AuthorizeDevice(d, expiry) ==
  /\ d \in DOMAIN devices
  /\ devices' = With(d, [status |-> "authorized",
                         expiresAt |-> IF expiry = Never THEN devices[d].expiresAt ELSE expiry])

RevokeDevice(d) ==
  /\ d \in DOMAIN devices
  /\ devices' = [devices EXCEPT ![d].status = "revoked"]

DeviceExpired(d) == now > devices[d].expiresAt

(* Mutant: a revoked device is only told apart by its expiry.              *)
RejectionForExpiredOnly(d) ==
  IF d \notin DOMAIN devices THEN "unknown" ELSE IF DeviceExpired(d) THEN "expired" ELSE "none"

(* rejectionFor(): why a device is unusable, "none" for null.              *)
RejectionFor(d) ==
  IF d \notin DOMAIN devices THEN "unknown"
  ELSE IF devices[d].status = "revoked" THEN "revoked"
  ELSE IF DeviceExpired(d) THEN "expired"
  ELSE "none"

(* isAuthorized(): the same question as the host's own code asks it.       *)
IsAuthorized(d) ==
  /\ d \in DOMAIN devices
  /\ devices[d].status = "authorized"
  /\ ~DeviceExpired(d)

RegistryTypeOK ==
  /\ now \in 0..MaxTime
  /\ DOMAIN devices \subseteq DeviceIds
  /\ \A d \in DOMAIN devices : devices[d] \in Record
=============================================================================
