------------------------------ MODULE Pairing -------------------------------
(***************************************************************************)
(* packages/approval/src/device.ts, class PairingManager: how a device     *)
(* gets into the registry.  completePairing() checks the response, awaits  *)
(* the host user's confirmation when one is configured, and only then      *)
(* marks the pairing redeemed and registers the device: the two halves are *)
(* two actions, and calls interleave at the await.                         *)
(***************************************************************************)
EXTENDS DeviceRegistry, Sequences

CONSTANTS
  Configurations,         \* whether onUserConfirmation is given: TRUE, FALSE or both
  PairingTtl,
  MaxPairings,            \* bound: pairings created
  MaxCalls                \* bound: completePairing() calls that pass the checks

ASSUME PairingAssumption ==
  /\ Configurations \subseteq BOOLEAN
  /\ PairingTtl \in Nat /\ MaxPairings \in Nat /\ MaxCalls \in Nat

VARIABLES
  confirmation, \* options.onUserConfirmation is there; never changes
  pairings,   \* the Map "pending": pairingId -> [expiresAt, redeemed]
  created,    \* number of pairings created
  calls       \* completePairing() calls past the checks, in order

pairingVars == <<now, devices, confirmation, pairings, created, calls>>

(* "revokedSince" is history: the device was revoked while the prompt was  *)
(* open.                                                                   *)
Call == [pairing : 1..MaxPairings, device : DeviceIds,
         stage : {"confirming", "done", "declined"}, revokedSince : BOOLEAN]

PairingInit ==
  /\ now = 0
  /\ devices = [d \in {} |-> {}]
  /\ confirmation \in Configurations
  /\ pairings = [p \in {} |-> {}]
  /\ created = 0
  /\ calls = << >>

-----------------------------------------------------------------------------
CreatePairingChallenge ==
  LET kept == {p \in DOMAIN pairings : ~(now > pairings[p].expiresAt)}
      new == created + 1
  IN
  /\ created < MaxPairings
  /\ created' = new
  /\ pairings' = [p \in kept \cup {new} |->
                    IF p = new THEN [expiresAt |-> now + PairingTtl, redeemed |-> FALSE]
                    ELSE pairings[p]]
  /\ UNCHANGED <<now, confirmation, devices, calls>>

Known(p) == p \in DOMAIN pairings /\ ~pairings[p].redeemed
Lapsed(p) == now > pairings[p].expiresAt

PresentExpired(p) ==
  /\ Known(p) /\ Lapsed(p)
  /\ pairings' = [x \in DOMAIN pairings \ {p} |-> pairings[x]]
  /\ UNCHANGED <<now, confirmation, devices, created, calls>>

(* Mutant: completing a pairing leaves it open.                            *)
MarkNothing(p) == UNCHANGED pairings

(* The entry the call holds is marked; nothing to see if a purge has       *)
(* taken it out of the Map meanwhile.                                      *)
MarkRedeemed(p) ==
  pairings' = IF p \in DOMAIN pairings THEN [pairings EXCEPT ![p].redeemed = TRUE]
              ELSE pairings

NewRecord == [status |-> "authorized", expiresAt |-> Never]

(* Mutant: the revocation of the device is not asked about.                *)
PresentUnchecked(p, d) ==
  /\ Known(p) /\ ~Lapsed(p) /\ Len(calls) < MaxCalls /\ confirmation
  /\ calls' = Append(calls, [pairing |-> p, device |-> d, stage |-> "confirming",
                             revokedSince |-> FALSE])
  /\ UNCHANGED <<now, confirmation, devices, pairings, created>>

(* A response bound to this pairing and signed with the device's own key:  *)
(* any other is refused and changes nothing.                               *)
Present(p, d) ==
  LET call(stage) == [pairing |-> p, device |-> d, stage |-> stage,
                      revokedSince |-> FALSE]
  IN
  /\ Known(p) /\ ~Lapsed(p) /\ Len(calls) < MaxCalls
  /\ RejectionFor(d) # "revoked"
  /\ \/ /\ confirmation
        /\ calls' = Append(calls, call("confirming"))
        /\ UNCHANGED <<devices, pairings>>
     \/ /\ ~confirmation
        /\ calls' = Append(calls, call("done"))
        /\ MarkRedeemed(p)
        /\ RegisterDevice(d, NewRecord)
  /\ UNCHANGED <<now, confirmation, created>>

(* The user answers the prompt: nothing is checked again.                  *)
Confirm(k) ==
  /\ calls[k].stage = "confirming"
  /\ calls' = [calls EXCEPT ![k].stage = "done"]
  /\ MarkRedeemed(calls[k].pairing)
  /\ RegisterDevice(calls[k].device, NewRecord)
  /\ UNCHANGED <<now, confirmation, created>>

Decline(k) ==
  /\ calls[k].stage = "confirming"
  /\ calls' = [calls EXCEPT ![k].stage = "declined"]
  /\ UNCHANGED <<now, confirmation, devices, pairings, created>>

-----------------------------------------------------------------------------
Revoke(d) ==
  /\ RevokeDevice(d)
  /\ calls' = [k \in DOMAIN calls |->
                 IF calls[k].device = d /\ calls[k].stage = "confirming"
                 THEN [calls[k] EXCEPT !.revokedSince = TRUE] ELSE calls[k]]
  /\ UNCHANGED <<now, confirmation, pairings, created>>

Authorize(d, expiry) ==
  /\ AuthorizeDevice(d, expiry)
  /\ UNCHANGED <<now, confirmation, pairings, created, calls>>

PairingTick ==
  /\ now < MaxTime
  /\ now' = now + 1
  /\ UNCHANGED <<devices, confirmation, pairings, created, calls>>

PairingNext ==
  \/ CreatePairingChallenge
  \/ \E p \in DOMAIN pairings : PresentExpired(p)
  \/ \E p \in DOMAIN pairings, d \in DeviceIds : Present(p, d)
  \/ \E k \in DOMAIN calls : Confirm(k) \/ Decline(k)
  \/ \E d \in DeviceIds : Revoke(d)
  \/ \E d \in DeviceIds, expiry \in 0..Never : Authorize(d, expiry)
  \/ PairingTick

PairingSpec == PairingInit /\ [][PairingNext]_pairingVars

-----------------------------------------------------------------------------
TypeOK ==
  /\ RegistryTypeOK
  /\ confirmation \in BOOLEAN /\ created \in 0..MaxPairings
  /\ DOMAIN pairings \subseteq 1..created
  /\ \A p \in DOMAIN pairings :
       pairings[p] \in [expiresAt : 0..(MaxTime + PairingTtl), redeemed : BOOLEAN]
  /\ Len(calls) <= MaxCalls /\ \A k \in DOMAIN calls : calls[k] \in Call

Done(k) == calls[k].stage = "done"

(* A pairing that some device has completed never gets past the checks     *)
(* again, however long the prompts of other calls stay open.               *)
CompletedPairingIsClosed ==
  [][\A k \in DOMAIN calls' \ DOMAIN calls :
       \A j \in DOMAIN calls : calls[j].pairing = calls'[k].pairing => ~Done(j)]_pairingVars

(* Whoever lifts a device's revocation through pairing had passed the      *)
(* checks before the revocation: a response that arrives while the device  *)
(* is revoked never leads to its registration.                             *)
RevokedDeviceCannotPair ==
  [][\A k \in DOMAIN calls :
       /\ calls[k].stage = "confirming" /\ calls'[k].stage = "done"
       /\ RejectionFor(calls[k].device) = "revoked"
       => calls[k].revokedSince]_pairingVars

(* device.ts:244: a pairing challenge is "single-use": one completion.     *)
PairingSingleUse ==
  \A j, k \in DOMAIN calls : Done(j) /\ Done(k) /\ calls[j].pairing = calls[k].pairing => j = k
=============================================================================
