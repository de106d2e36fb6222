-------------------------- MODULE ProviderV1Proofs --------------------------
(***************************************************************************)
(* ProviderV1 for any number of requests and devices, whichever approval   *)
(* the host hands over: no consent grants two requests.                    *)
(***************************************************************************)
EXTENDS ProviderV1, ApprovalVerifierProofs

(* An accepted challenge is gone or marked, and was asked for.             *)
AcceptedIsClosed ==
  \A c \in Requests : verified[c] > 0 =>
    verified[c] = 1 /\ ~Unredeemed(c) /\ requests[c].stage # "unasked"

(* A registered challenge is of a request.                                 *)
ChallengeOfItsRequest == \A c \in DOMAIN challenges : requests[c].stage # "unasked"

(* What a grant rests on was accepted by the verifier.                     *)
UsedIsAccepted == \A c, x \in Requests : x \in requests[c].used => verified[x] > 0

IInv == TypeOK /\ AcceptedIsClosed /\ ChallengeOfItsRequest /\ UsedIsAccepted
          /\ OneGrantPerConsent

RequestType == [stage : Stages, deadline : 0..MaxTime, used : SUBSET Requests]

-----------------------------------------------------------------------------
LEMMA InitInvariant == Init => IInv
  BY RegistryAssumption DEF Init, VerifierInit, NotAsked, IInv, TypeOK, VerifierTypeOK,
     RegistryTypeOK, Stages, Answers, AcceptedIsClosed, ChallengeOfItsRequest, UsedIsAccepted,
     OneGrantPerConsent

(* A step that only moves a request on, to a stage after the first, keeps  *)
(* the invariant.                                                          *)
LEMMA MoveInvariant ==
  ASSUME IInv, NEW c \in Requests, NEW r \in RequestType, r.used = requests[c].used,
         r.stage # "unasked", requests' = [requests EXCEPT ![c] = r], UNCHANGED verifierVars
  PROVE  IInv'
<1>1. /\ requests' \in [Requests -> RequestType]
      /\ \A x \in Requests : requests'[x].used = requests[x].used
      /\ \A x \in Requests : requests[x].stage # "unasked" => requests'[x].stage # "unasked"
  BY DEF IInv, TypeOK, RequestType
<1>2. TypeOK'
  BY <1>1 DEF IInv, TypeOK, VerifierTypeOK, RegistryTypeOK, RequestType, verifierVars
<1>3. AcceptedIsClosed' /\ ChallengeOfItsRequest'
  BY <1>1 DEF IInv, TypeOK, VerifierTypeOK, AcceptedIsClosed, ChallengeOfItsRequest, Unredeemed,
     verifierVars
<1>4. UsedIsAccepted' /\ OneGrantPerConsent'
  BY <1>1 DEF IInv, UsedIsAccepted, OneGrantPerConsent, verifierVars
<1> QED
  BY <1>2, <1>3, <1>4 DEF IInv

LEMMA StagesInvariant ==
  ASSUME IInv, NEW c \in Requests, Presented(c) \/ DeadlinePassed(c) \/ HostGivesUp(c) \/ HostFails(c)
  PROVE  IInv'
<1>1. requests[c] \in RequestType /\ now \in Nat
  BY RegistryAssumption DEF IInv, TypeOK, VerifierTypeOK, RegistryTypeOK, RequestType
<1>2. CASE Presented(c)
  <2> DEFINE r == [requests[c] EXCEPT !.stage = "racing", !.deadline = now + Timeout]
  <2>1. requests' = [requests EXCEPT ![c] = r] /\ UNCHANGED verifierVars
    BY <1>2 DEF Presented, IInv, TypeOK
  <2>2. now + Timeout \in 0..MaxTime
    BY <1>1, <1>2, RegistryAssumption, ProviderAssumption DEF Presented
  <2>3. r \in RequestType /\ r.used = requests[c].used /\ r.stage = "racing"
    BY <1>1, <2>2 DEF RequestType, Stages, Answers
  <2> HIDE DEF r
  <2> QED
    BY <2>1, <2>3, MoveInvariant
<1>3. CASE DeadlinePassed(c) \/ HostGivesUp(c) \/ HostFails(c)
  <2>1. PICK st \in {"timeout", "failed"} :
          requests' = [requests EXCEPT ![c].stage = st] /\ UNCHANGED verifierVars
    BY <1>3 DEF DeadlinePassed, HostGivesUp, HostFails
  <2> DEFINE r == [requests[c] EXCEPT !.stage = st]
  <2>2. requests' = [requests EXCEPT ![c] = r]
    BY <2>1 DEF IInv, TypeOK
  <2>3. r \in RequestType /\ r.used = requests[c].used /\ r.stage = st /\ st # "unasked"
    BY <1>1 DEF RequestType, Stages, Answers
  <2> HIDE DEF r
  <2> QED
    BY <2>1, <2>2, <2>3, MoveInvariant
<1> QED
  BY <1>2, <1>3

LEMMA RequestInvariant ==
  ASSUME IInv, NEW c \in Requests, RequestApproval(c)
  PROVE  IInv'
<1>1. /\ requests[c].stage = "unasked" /\ RegisterChallenge(c)
      /\ requests' = [requests EXCEPT ![c].stage = "presenting"]
      /\ UNCHANGED <<now, devices, signed, verified>>
  BY DEF RequestApproval
<1>2. /\ DOMAIN challenges' \subseteq DOMAIN challenges \cup {c}
      /\ \A x \in DOMAIN challenges' : x # c => challenges'[x] = challenges[x]
      /\ \A x \in DOMAIN challenges' :
           challenges'[x] \in [expiresAt : 0..(MaxTime + ChallengeTtl), redeemed : BOOLEAN]
  BY <1>1, RegisterEffect DEF IInv, TypeOK
<1>3. /\ requests' \in [Requests -> RequestType]
      /\ \A x \in Requests : requests'[x].used = requests[x].used
      /\ \A x \in Requests : requests[x].stage # "unasked" => requests'[x].stage # "unasked"
      /\ requests'[c].stage # "unasked"
  <2>1. requests[c] \in RequestType
    BY DEF IInv, TypeOK, RequestType
  <2>2. /\ requests'[c] = [requests[c] EXCEPT !.stage = "presenting"]
        /\ \A x \in Requests : x # c => requests'[x] = requests[x]
    BY <1>1 DEF IInv, TypeOK
  <2>3. /\ requests'[c] \in RequestType /\ requests'[c].used = requests[c].used
        /\ requests'[c].stage = "presenting"
    BY <2>1, <2>2 DEF RequestType, Stages, Answers
  <2> QED
    BY <1>1, <2>2, <2>3 DEF IInv, TypeOK, RequestType
<1>4. TypeOK'
  BY <1>1, <1>2, <1>3 DEF IInv, TypeOK, VerifierTypeOK, RegistryTypeOK, RequestType
<1>5. verified[c] = 0
  BY <1>1 DEF IInv, AcceptedIsClosed, TypeOK, VerifierTypeOK
<1>6. AcceptedIsClosed'
  BY <1>1, <1>2, <1>3, <1>5 DEF IInv, AcceptedIsClosed, Unredeemed
<1>7. ChallengeOfItsRequest'
  BY <1>2, <1>3 DEF IInv, TypeOK, VerifierTypeOK, ChallengeOfItsRequest
<1>8. UsedIsAccepted' /\ OneGrantPerConsent'
  BY <1>1, <1>3 DEF IInv, UsedIsAccepted, OneGrantPerConsent
<1> QED
  BY <1>4, <1>6, <1>7, <1>8 DEF IInv

LEMMA ReceivedInvariant ==
  ASSUME IInv, NEW c \in Requests, NEW p \in Approvals, ApprovalReceived(c, p)
  PROVE  IInv'
<1> DEFINE b == p.challenge
           r == [requests[c] EXCEPT !.stage = IF Accepts(p) THEN "granted" ELSE "denied",
                                    !.used = IF Accepts(p) THEN {b} ELSE {}]
<1>1. /\ requests[c].stage = "racing" /\ Verify(p)
      /\ requests' = [requests EXCEPT ![c] = r]
      /\ UNCHANGED <<now, devices, signed>>
  BY DEF ApprovalReceived, IInv, TypeOK
<1>2. b \in Requests
  BY DEF Approvals
<1>3. /\ DOMAIN challenges' \subseteq DOMAIN challenges
      /\ \A x \in DOMAIN challenges' :
           /\ challenges'[x].expiresAt = challenges[x].expiresAt
           /\ challenges'[x] \in [expiresAt : 0..(MaxTime + ChallengeTtl), redeemed : BOOLEAN]
           /\ challenges[x].redeemed => challenges'[x].redeemed
      /\ IF Accepts(p)
         THEN verified' = [verified EXCEPT ![b] = @ + 1] /\ challenges'[b].redeemed
         ELSE verified' = verified
  BY <1>1, VerifyEffect DEF IInv, TypeOK
<1>4. /\ r \in RequestType /\ r.stage # "unasked"
      /\ r.used = IF Accepts(p) THEN {b} ELSE {}
  <2>1. requests[c] \in RequestType
    BY DEF IInv, TypeOK, RequestType
  <2> QED
    BY <1>2, <2>1 DEF RequestType, Stages, Answers
<1> HIDE DEF r
<1>5. /\ requests' \in [Requests -> RequestType]
      /\ requests'[c] = r /\ \A x \in Requests : x # c => requests'[x] = requests[x]
      /\ \A x \in Requests : requests[x].stage # "unasked" => requests'[x].stage # "unasked"
  BY <1>1, <1>4 DEF IInv, TypeOK, RequestType
<1>6. Accepts(p) => b \in DOMAIN challenges /\ Unredeemed(b) /\ verified[b] = 0
  <2>1. Accepts(p) => Unredeemed(b)
    BY DEF Accepts
  <2>2. Unredeemed(b) => b \in DOMAIN challenges /\ verified[b] = 0
    BY <1>2 DEF IInv, AcceptedIsClosed, TypeOK, VerifierTypeOK, Unredeemed
  <2> QED
    BY <2>1, <2>2
<1>7. verified \in [Requests -> Nat]
  BY DEF IInv, TypeOK, VerifierTypeOK
<1>8. verified' \in [Requests -> Nat]
  BY <1>2, <1>3, <1>7
<1>9. TypeOK'
  BY <1>1, <1>3, <1>5, <1>8 DEF IInv, TypeOK, VerifierTypeOK, RegistryTypeOK, RequestType
<1>10. AcceptedIsClosed'
  <2>1. ASSUME NEW x \in Requests, verified'[x] > 0, x # b \/ ~Accepts(p)
        PROVE  verified'[x] = 1 /\ ~Unredeemed(x)' /\ requests'[x].stage # "unasked"
    <3>1. verified'[x] = verified[x]
      BY <1>2, <1>3, <1>7, <2>1
    <3> QED
      BY <1>3, <1>5, <2>1, <3>1 DEF IInv, AcceptedIsClosed, Unredeemed
  <2>2. ASSUME Accepts(p)
        PROVE  verified'[b] = 1 /\ ~Unredeemed(b)' /\ requests'[b].stage # "unasked"
    BY <1>2, <1>3, <1>5, <1>6, <1>7, <2>2 DEF IInv, ChallengeOfItsRequest, Unredeemed
  <2> QED
    BY <2>1, <2>2 DEF AcceptedIsClosed
<1>11. ChallengeOfItsRequest'
  BY <1>3, <1>5 DEF IInv, TypeOK, VerifierTypeOK, ChallengeOfItsRequest
<1>12. \A x, y \in Requests : y \in requests'[x].used =>
         y \in requests[x].used \/ (Accepts(p) /\ x = c /\ y = b)
  BY <1>4, <1>5
<1>13. \A x \in Requests : verified'[x] >= verified[x]
  BY <1>2, <1>3, <1>7
<1>14. UsedIsAccepted'
  <2> SUFFICES ASSUME NEW x \in Requests, NEW y \in Requests, y \in requests'[x].used
               PROVE  verified'[y] > 0
    BY DEF UsedIsAccepted
  <2>1. CASE y \in requests[x].used
    <3>1. verified[y] > 0 /\ verified[y] \in Nat /\ verified'[y] \in Nat
      BY <1>7, <1>8, <2>1 DEF IInv, UsedIsAccepted
    <3> QED
      BY <1>13, <3>1
  <2>2. CASE Accepts(p) /\ y = b
    BY <1>2, <1>3, <1>7, <2>2
  <2> QED
    BY <1>12, <2>1, <2>2
<1>15. OneGrantPerConsent'
  <2> SUFFICES ASSUME NEW w \in Requests, NEW x \in Requests, NEW y \in Requests,
                      y \in requests'[w].used, y \in requests'[x].used
               PROVE  w = x
    BY <1>5 DEF OneGrantPerConsent, RequestType
  <2>1. Accepts(p) => \A v \in Requests : b \notin requests[v].used
    BY <1>2, <1>6 DEF IInv, UsedIsAccepted
  <2>2. CASE Accepts(p) /\ y = b
    BY <1>12, <2>1, <2>2
  <2>3. CASE ~(Accepts(p) /\ y = b)
    BY <1>12, <2>3 DEF IInv, OneGrantPerConsent
  <2> QED
    BY <2>2, <2>3
<1> QED
  BY <1>9, <1>10, <1>11, <1>14, <1>15 DEF IInv

(* The steps that leave the requests and the acceptances alone.            *)
LEMMA OthersInvariant ==
  ASSUME IInv, VerifierTypeOK', UNCHANGED <<verified, requests>>,
         DOMAIN challenges' \subseteq DOMAIN challenges,
         \A c \in DOMAIN challenges' : challenges'[c] = challenges[c]
  PROVE  IInv'
BY DEF IInv, TypeOK, AcceptedIsClosed, Unredeemed, ChallengeOfItsRequest, UsedIsAccepted,
   OneGrantPerConsent

LEMMA StepInvariant == IInv /\ [Next]_vars => IInv'
<1> SUFFICES ASSUME IInv, [Next]_vars PROVE IInv'
  OBVIOUS
<1>1. ASSUME NEW c \in Requests, RequestApproval(c) PROVE IInv'
  BY <1>1, RequestInvariant
<1>2. ASSUME NEW c \in Requests, Presented(c) \/ DeadlinePassed(c) \/ HostGivesUp(c) \/ HostFails(c) PROVE IInv'
  BY <1>2, StagesInvariant
<1>3. ASSUME NEW c \in Requests, NEW p \in Approvals, ApprovalReceived(c, p) PROVE IInv'
  BY <1>3, ReceivedInvariant
<1>4. ASSUME NEW c \in Requests, HostRevokesChallenge(c) PROVE IInv'
  <2>1. /\ DOMAIN challenges' = DOMAIN challenges \ {c}
        /\ \A x \in DOMAIN challenges' : challenges'[x] = challenges[x]
        /\ UNCHANGED <<now, devices, signed, verified, requests>>
    BY <1>4 DEF HostRevokesChallenge, RevokeChallenge, WithoutChallenge
  <2>2. VerifierTypeOK'
    BY <2>1 DEF IInv, TypeOK, VerifierTypeOK, RegistryTypeOK
  <2> QED
    BY <2>1, <2>2, OthersInvariant
<1>5. ASSUME NEW c \in Requests, NEW d \in DeviceIds, DeviceSigns(c, d) PROVE IInv'
  <2>1. VerifierTypeOK' /\ UNCHANGED <<challenges, verified, requests>>
    BY <1>5 DEF DeviceSigns, Sign, IInv, TypeOK, VerifierTypeOK, RegistryTypeOK
  <2> QED
    BY <2>1, OthersInvariant
<1>6. CASE DevicesChange
  <2>1. VerifierTypeOK' /\ UNCHANGED <<challenges, verified, requests>>
    BY <1>6, DevicesKeepTypes DEF DevicesChange, HostManagesDevices, IInv, TypeOK
  <2> QED
    BY <2>1, OthersInvariant
<1>7. CASE Tick
  <2>1. now' \in 0..MaxTime
    BY <1>7, RegistryAssumption DEF Tick, IInv, TypeOK, VerifierTypeOK, RegistryTypeOK
  <2>2. VerifierTypeOK' /\ UNCHANGED <<challenges, verified, requests>>
    BY <1>7, <2>1 DEF Tick, IInv, TypeOK, VerifierTypeOK, RegistryTypeOK
  <2> QED
    BY <2>2, OthersInvariant
<1>8. CASE UNCHANGED vars
  <2>1. VerifierTypeOK' /\ UNCHANGED <<challenges, verified, requests>>
    BY <1>8 DEF vars, verifierVars, IInv, TypeOK, VerifierTypeOK, RegistryTypeOK
  <2> QED
    BY <2>1, OthersInvariant
<1> QED
  BY <1>1, <1>2, <1>3, <1>4, <1>5, <1>6, <1>7, <1>8 DEF Next

THEOREM Invariance == Spec => []IInv
  BY InitInvariant, StepInvariant, PTL DEF Spec

-----------------------------------------------------------------------------
(* Two requests are never granted on the same consent, for any number of   *)
(* requests and whichever approval awaitApproval() hands over              *)
(* (provider-v1.ts: requestApproval, approval-v1.ts: verify).              *)
THEOREM GrantsRestOnTheirOwnConsent == Spec => []OneGrantPerConsent
<1>1. IInv => OneGrantPerConsent
  BY DEF IInv
<1> QED
  BY <1>1, Invariance, PTL
=============================================================================
