-------------------------- MODULE ApprovalVerifier --------------------------
(***************************************************************************)
(* packages/approval/src/approval-v1.ts: the host's store of the           *)
(* rtq-approval-v1 challenges it issued (ChallengeStoreV1) and the check   *)
(* of a signed approval against it (MobileApprovalVerifier).  The service  *)
(* and the provider that wait for approvals extend this module.            *)
(***************************************************************************)
EXTENDS DeviceRegistry, FiniteSets

CONSTANTS
  Requests,       \* challenge ids: one per approval request
  ChallengeTtl

ASSUME VerifierAssumption == ChallengeTtl \in Nat

VARIABLES
  challenges,  \* the Map: challengeId -> [expiresAt, redeemed]
  signed,      \* history: <<c, d>> when d's holder signed "granted" for exactly c
  verified     \* history: verified[c]: how often an approval of c was accepted

verifierVars == <<now, devices, challenges, signed, verified>>

VerifierInit ==
  /\ now = 0
  /\ devices = [d \in {} |-> {}]
  /\ challenges = [c \in {} |-> {}]
  /\ signed = {}
  /\ verified = [c \in Requests |-> 0]

(* A signed approval as it arrives: the challenge and the device it names, *)
(* whether its signing time lies before the challenge's window, whether    *)
(* the signature is that device's, its decision, and whether every bound   *)
(* field is the issued challenge's.  One that holds up throughout comes    *)
(* from a holder who signed it.                                            *)
Approvals ==
  {p \in [challenge : Requests, device : DeviceIds, predates : BOOLEAN, authentic : BOOLEAN,
          decision : {"granted", "denied"}, bound : BOOLEAN] :
     p.authentic /\ p.decision = "granted" /\ p.bound => <<p.challenge, p.device>> \in signed}

(* register(): expired challenges are purged first.                        *)
RegisterChallenge(c) ==
  LET kept == {x \in DOMAIN challenges : ~(now > challenges[x].expiresAt)}
  IN  challenges' = [x \in kept \cup {c} |->
                       IF x = c THEN [expiresAt |-> now + ChallengeTtl, redeemed |-> FALSE]
                       ELSE challenges[x]]

WithoutChallenge(c) == [x \in DOMAIN challenges \ {c} |-> challenges[x]]

(* revoke()                                                                *)
RevokeChallenge(c) == c \in DOMAIN challenges /\ challenges' = WithoutChallenge(c)

Unredeemed(c) == c \in DOMAIN challenges /\ ~challenges[c].redeemed

(* Mutant: the deadline is not looked at.                                  *)
NeverLapsed(c) == FALSE
Lapsed(c) == now > challenges[c].expiresAt

(* verify() returns ok.                                                    *)
Accepts(p) ==
  /\ Unredeemed(p.challenge) /\ ~Lapsed(p.challenge)
  /\ ~p.predates
  /\ RejectionFor(p.device) = "none"
  /\ p.authentic /\ p.decision = "granted" /\ p.bound

(* Mutant: an accepted challenge stays open.                               *)
VerifyKeepsOpen(p) ==
  /\ challenges' = IF Unredeemed(p.challenge) /\ Lapsed(p.challenge)
                   THEN WithoutChallenge(p.challenge) ELSE challenges
  /\ verified' = IF Accepts(p) THEN [verified EXCEPT ![p.challenge] = @ + 1] ELSE verified

(* verify(): an accepted challenge is consumed, one found expired is       *)
(* dropped, and any other refusal leaves it as it was.                     *)
Verify(p) ==
  \/ /\ Accepts(p)
     /\ challenges' = [challenges EXCEPT ![p.challenge].redeemed = TRUE]
     /\ verified' = [verified EXCEPT ![p.challenge] = @ + 1]
  \/ /\ Unredeemed(p.challenge) /\ Lapsed(p.challenge)
     /\ challenges' = WithoutChallenge(p.challenge)
     /\ UNCHANGED verified
  \/ /\ ~Accepts(p) /\ ~(Unredeemed(p.challenge) /\ Lapsed(p.challenge))
     /\ UNCHANGED <<challenges, verified>>

(* A device's holder reviews a registered challenge and signs "granted".   *)
Sign(c, d) ==
  /\ c \in DOMAIN challenges
  /\ signed' = signed \cup {<<c, d>>}
  /\ UNCHANGED <<now, devices, challenges, verified>>

(* The host changes its registry of devices.                               *)
HostManagesDevices ==
  /\ \E d \in DeviceIds :
       \/ RevokeDevice(d)
       \/ \E expiry \in 0..Never :
            \/ AuthorizeDevice(d, expiry)
            \/ RegisterDevice(d, [status |-> "authorized", expiresAt |-> expiry])
  /\ UNCHANGED <<now, challenges, signed, verified>>

VerifierTypeOK ==
  /\ RegistryTypeOK
  /\ DOMAIN challenges \subseteq Requests
  /\ \A c \in DOMAIN challenges :
       challenges[c] \in [expiresAt : 0..(MaxTime + ChallengeTtl), redeemed : BOOLEAN]
  /\ signed \subseteq Requests \X DeviceIds
  /\ verified \in [Requests -> Nat]

(* Consent is used once: whatever is purged, revoked, resubmitted or       *)
(* delivered to the wrong waiter, no challenge is accepted twice.          *)
ConsentUsedOnce == \A c \in Requests : verified[c] <= 1
=============================================================================
