----------------------- MODULE ApprovalVerifierProofs -----------------------
(***************************************************************************)
(* What the operations of ApprovalVerifier do to its state, for the proofs *)
(* about the two ways to wait for an approval that are built on it.        *)
(***************************************************************************)
EXTENDS ApprovalVerifier, TLAPS

(* What verify() leaves of the store, whatever it answers.                 *)
LEMMA VerifyEffect ==
  ASSUME VerifierTypeOK, NEW p \in Approvals, Verify(p)
  PROVE  /\ DOMAIN challenges' \subseteq DOMAIN challenges
         /\ \A c \in DOMAIN challenges' :
              /\ challenges'[c].expiresAt = challenges[c].expiresAt
              /\ challenges'[c] \in [expiresAt : 0..(MaxTime + ChallengeTtl), redeemed : BOOLEAN]
              /\ challenges[c].redeemed => challenges'[c].redeemed
         /\ IF Accepts(p)
            THEN /\ verified' = [verified EXCEPT ![p.challenge] = @ + 1]
                 /\ challenges'[p.challenge].redeemed
            ELSE verified' = verified
<1>1. p.challenge \in Requests
  BY DEF Approvals
<1>2. \A c \in DOMAIN challenges :
        challenges[c] \in [expiresAt : 0..(MaxTime + ChallengeTtl), redeemed : BOOLEAN]
  BY DEF VerifierTypeOK
<1>3. CASE Accepts(p)
  <2>1. /\ p.challenge \in DOMAIN challenges
        /\ challenges' = [challenges EXCEPT ![p.challenge].redeemed = TRUE]
        /\ verified' = [verified EXCEPT ![p.challenge] = @ + 1]
    BY <1>3 DEF Verify, Accepts, Unredeemed
  <2>2. challenges'[p.challenge] = [challenges[p.challenge] EXCEPT !.redeemed = TRUE]
    BY <2>1
  <2>3. challenges[p.challenge] \in [expiresAt : 0..(MaxTime + ChallengeTtl), redeemed : BOOLEAN]
    BY <1>2, <2>1
  <2>4. /\ challenges'[p.challenge] \in [expiresAt : 0..(MaxTime + ChallengeTtl), redeemed : BOOLEAN]
        /\ challenges'[p.challenge].redeemed
        /\ challenges'[p.challenge].expiresAt = challenges[p.challenge].expiresAt
    BY <2>2, <2>3
  <2>5. DOMAIN challenges' = DOMAIN challenges
        /\ \A c \in DOMAIN challenges : c # p.challenge => challenges'[c] = challenges[c]
    BY <2>1
  <2> QED
    BY <1>2, <1>3, <2>1, <2>4, <2>5
<1>4. CASE ~Accepts(p) /\ challenges' = WithoutChallenge(p.challenge) /\ UNCHANGED verified
  BY <1>2, <1>4 DEF WithoutChallenge
<1>5. CASE ~Accepts(p) /\ UNCHANGED <<challenges, verified>>
  BY <1>2, <1>5
<1> QED
  BY <1>3, <1>4, <1>5 DEF Verify, Accepts

(* register() leaves a fresh record of the challenge, and of the others    *)
(* what has not expired.                                                   *)
LEMMA RegisterEffect ==
  ASSUME VerifierTypeOK, NEW c \in Requests, RegisterChallenge(c)
  PROVE  /\ DOMAIN challenges' \subseteq DOMAIN challenges \cup {c}
         /\ \A x \in DOMAIN challenges' : x # c => challenges'[x] = challenges[x]
         /\ c \in DOMAIN challenges'
         /\ challenges'[c] = [expiresAt |-> now + ChallengeTtl, redeemed |-> FALSE]
         /\ \A x \in DOMAIN challenges' :
              challenges'[x] \in [expiresAt : 0..(MaxTime + ChallengeTtl), redeemed : BOOLEAN]
<1> DEFINE kept == {x \in DOMAIN challenges : ~(now > challenges[x].expiresAt)}
<1>1. /\ DOMAIN challenges' = kept \cup {c}
      /\ challenges'[c] = [expiresAt |-> now + ChallengeTtl, redeemed |-> FALSE]
      /\ \A x \in kept : x # c => challenges'[x] = challenges[x]
  BY DEF RegisterChallenge
<1>2. kept \subseteq DOMAIN challenges
  OBVIOUS
<1>3. now \in 0..MaxTime /\ now \in Nat
  BY RegistryAssumption DEF VerifierTypeOK, RegistryTypeOK
<1>4. challenges'[c] \in [expiresAt : 0..(MaxTime + ChallengeTtl), redeemed : BOOLEAN]
  BY <1>1, <1>3, RegistryAssumption, VerifierAssumption
<1> HIDE DEF kept
<1> QED
  BY <1>1, <1>2, <1>4 DEF VerifierTypeOK

(* An approval that is accepted was signed by the holder of its device,    *)
(* and isAuthorized() says yes of that device at that moment.              *)
LEMMA AcceptedIsAuthorized ==
  ASSUME VerifierTypeOK, NEW p \in Approvals, Accepts(p)
  PROVE  /\ <<p.challenge, p.device>> \in signed /\ p.device \in DeviceIds
         /\ IsAuthorized(p.device)
<1>1. <<p.challenge, p.device>> \in signed /\ p.device \in DeviceIds
  BY DEF Approvals, Accepts
<1>2. /\ p.device \in DOMAIN devices /\ devices[p.device].status # "revoked"
      /\ ~DeviceExpired(p.device)
  BY DEF Accepts, RejectionFor
<1>3. devices[p.device].status \in {"authorized", "revoked"}
  BY <1>2 DEF VerifierTypeOK, RegistryTypeOK, Record
<1> QED
  BY <1>1, <1>2, <1>3 DEF IsAuthorized

(* The registry keeps to its records whatever the host does with it.       *)
LEMMA DevicesKeepTypes ==
  ASSUME VerifierTypeOK, HostManagesDevices
  PROVE  VerifierTypeOK'
<1>1. UNCHANGED <<now, challenges, signed, verified>>
  BY DEF HostManagesDevices
<1>2. ASSUME NEW d \in DeviceIds, NEW r \in Record, devices' = With(d, r)
      PROVE  DOMAIN devices' \subseteq DeviceIds /\ \A x \in DOMAIN devices' : devices'[x] \in Record
  BY <1>2 DEF With, VerifierTypeOK, RegistryTypeOK
<1>3. DOMAIN devices' \subseteq DeviceIds /\ \A x \in DOMAIN devices' : devices'[x] \in Record
  <2>1. ASSUME NEW d \in DeviceIds, RevokeDevice(d)
        PROVE  DOMAIN devices' \subseteq DeviceIds /\ \A x \in DOMAIN devices' : devices'[x] \in Record
    <3>1. devices[d] \in Record /\ devices'[d] = [devices[d] EXCEPT !.status = "revoked"]
      BY <2>1 DEF RevokeDevice, VerifierTypeOK, RegistryTypeOK
    <3>2. devices'[d] \in Record
      BY <3>1 DEF Record
    <3> QED
      BY <2>1, <3>2 DEF RevokeDevice, VerifierTypeOK, RegistryTypeOK
  <2>2. ASSUME NEW d \in DeviceIds, NEW e \in 0..Never, AuthorizeDevice(d, e)
        PROVE  DOMAIN devices' \subseteq DeviceIds /\ \A x \in DOMAIN devices' : devices'[x] \in Record
    <3>1. devices[d] \in Record
      BY <2>2 DEF AuthorizeDevice, VerifierTypeOK, RegistryTypeOK
    <3>2. [status |-> "authorized",
           expiresAt |-> IF e = Never THEN devices[d].expiresAt ELSE e] \in Record
      BY <3>1 DEF Record
    <3> QED
      BY <1>2, <2>2, <3>2 DEF AuthorizeDevice
  <2>3. ASSUME NEW d \in DeviceIds, NEW e \in 0..Never,
               RegisterDevice(d, [status |-> "authorized", expiresAt |-> e])
        PROVE  DOMAIN devices' \subseteq DeviceIds /\ \A x \in DOMAIN devices' : devices'[x] \in Record
    <3>1. [status |-> "authorized", expiresAt |-> e] \in Record
      BY DEF Record
    <3> QED
      BY <1>2, <2>3, <3>1 DEF RegisterDevice
  <2> QED
    BY <2>1, <2>2, <2>3 DEF HostManagesDevices
<1> QED
  BY <1>1, <1>3 DEF VerifierTypeOK, RegistryTypeOK
=============================================================================
