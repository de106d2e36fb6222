------------------------ MODULE MobileApprovalProofs ------------------------
(***************************************************************************)
(* MobileApproval for any number of requests and devices: its types, that  *)
(* consent is used once, and that a grant is as young as its challenge.    *)
(***************************************************************************)
EXTENDS MobileApproval, ApprovalVerifierProofs

(* An accepted challenge is gone or marked, and was asked for: the only    *)
(* registration of a challenge comes before its first acceptance.          *)
AcceptedIsClosed ==
  \A c \in Requests : verified[c] > 0 =>
    verified[c] = 1 /\ ~Unredeemed(c) /\ requests[c].outcome # "unasked"

(* A registered challenge is of a request, and lives from when it was      *)
(* asked for.                                                              *)
ChallengeOfItsRequest ==
  \A c \in DOMAIN challenges :
    /\ requests[c].outcome # "unasked"
    /\ challenges[c].expiresAt = requests[c].at + ChallengeTtl

IInv == TypeOK /\ AcceptedIsClosed /\ ChallengeOfItsRequest /\ GrantWithinChallengeLife

-----------------------------------------------------------------------------
LEMMA InitInvariant == Init => IInv
  BY RegistryAssumption DEF Init, VerifierInit, NotAsked, IInv, TypeOK, VerifierTypeOK,
     RegistryTypeOK, Outcomes, AcceptedIsClosed, ChallengeOfItsRequest,
     GrantWithinChallengeLife

(* A challenge is registered for a request of its own, with a waiter or    *)
(* without one.                                                            *)
LEMMA ShownInvariant ==
  ASSUME IInv, NEW c \in Requests, NEW o \in {"created", "waiting"}, Shown(c, o),
         waiters' = IF o = "waiting" THEN waiters \cup {c} ELSE waiters
  PROVE  IInv'
<1> DEFINE asked == [outcome |-> o, at |-> now, answeredAt |-> 0]
<1>1. /\ requests[c].outcome = "unasked"
      /\ requests' = [requests EXCEPT ![c] = asked]
      /\ RegisterChallenge(c)
      /\ UNCHANGED <<now, devices, signed, verified>>
  BY DEF Shown
<1>2. /\ DOMAIN challenges' \subseteq DOMAIN challenges \cup {c}
      /\ \A x \in DOMAIN challenges' : x # c => challenges'[x] = challenges[x]
      /\ challenges'[c] = [expiresAt |-> now + ChallengeTtl, redeemed |-> FALSE]
      /\ \A x \in DOMAIN challenges' :
           challenges'[x] \in [expiresAt : 0..(MaxTime + ChallengeTtl), redeemed : BOOLEAN]
  BY <1>1, RegisterEffect DEF IInv, TypeOK
<1>3. now \in 0..MaxTime
  BY DEF IInv, TypeOK, VerifierTypeOK, RegistryTypeOK
<1>4. /\ requests' \in [Requests -> [outcome : Outcomes, at : 0..MaxTime, answeredAt : 0..MaxTime]]
      /\ requests'[c] = asked
      /\ \A x \in Requests : x # c => requests'[x] = requests[x]
  BY <1>1, <1>3, RegistryAssumption DEF IInv, TypeOK, Outcomes
<1>5. VerifierTypeOK'
  BY <1>1, <1>2 DEF IInv, TypeOK, VerifierTypeOK, RegistryTypeOK, DeviceExpired
<1>6. waiters' = {x \in Requests : requests'[x].outcome = "waiting"}
  BY <1>1, <1>4 DEF IInv, TypeOK
<1>7. TypeOK'
  BY <1>1, <1>4, <1>5, <1>6 DEF IInv, TypeOK
<1>8. verified[c] = 0
  BY <1>1 DEF IInv, AcceptedIsClosed, TypeOK, VerifierTypeOK
<1>9. AcceptedIsClosed'
  BY <1>1, <1>2, <1>4, <1>8 DEF IInv, AcceptedIsClosed, Unredeemed
<1>10. ChallengeOfItsRequest'
  BY <1>2, <1>4, <1>5 DEF IInv, TypeOK, VerifierTypeOK, ChallengeOfItsRequest
<1>11. GrantWithinChallengeLife'
  BY <1>4 DEF IInv, GrantWithinChallengeLife
<1> QED
  BY <1>7, <1>9, <1>10, <1>11 DEF IInv

(* Resolving a waiter answers a request that was waiting, or nothing.      *)
LEMMA ResolveEffect ==
  ASSUME IInv, NEW c \in Requests, NEW o \in Outcomes \ {"unasked", "waiting"}, Resolve(c, o)
  PROVE  /\ requests' \in [Requests -> [outcome : Outcomes, at : 0..MaxTime, answeredAt : 0..MaxTime]]
         /\ \A x \in Requests : requests'[x].at = requests[x].at
         /\ \A x \in Requests : requests'[x] # requests[x] =>
              x = c /\ requests[x].outcome = "waiting"
                    /\ requests'[x].outcome = o /\ requests'[x].answeredAt = now
         /\ waiters' = {x \in Requests : requests'[x].outcome = "waiting"}
<1>1. now \in 0..MaxTime
  BY DEF IInv, TypeOK, VerifierTypeOK, RegistryTypeOK
<1>2. CASE c \in waiters
  <2>1. /\ requests' = [requests EXCEPT ![c].outcome = o, ![c].answeredAt = now]
        /\ waiters' = waiters \ {c} /\ requests[c].outcome = "waiting"
    BY <1>2 DEF Resolve, IInv, TypeOK
  <2>2. requests[c] \in [outcome : Outcomes, at : 0..MaxTime, answeredAt : 0..MaxTime]
    BY DEF IInv, TypeOK
  <2>3. requests'[c] = [requests[c] EXCEPT !.outcome = o, !.answeredAt = now]
        /\ \A x \in Requests : x # c => requests'[x] = requests[x]
    BY <2>1 DEF IInv, TypeOK
  <2>4. /\ requests'[c] \in [outcome : Outcomes, at : 0..MaxTime, answeredAt : 0..MaxTime]
        /\ requests'[c].outcome = o /\ requests'[c].answeredAt = now
        /\ requests'[c].at = requests[c].at
    BY <1>1, <2>2, <2>3
  <2>5. requests' \in [Requests -> [outcome : Outcomes, at : 0..MaxTime, answeredAt : 0..MaxTime]]
    BY <2>1, <2>3, <2>4 DEF IInv, TypeOK
  <2>6. waiters' = {x \in Requests : requests'[x].outcome = "waiting"}
    BY <2>1, <2>3, <2>4 DEF IInv, TypeOK
  <2> QED
    BY <2>1, <2>3, <2>4, <2>5, <2>6
<1>3. CASE c \notin waiters
  BY <1>3 DEF Resolve, IInv, TypeOK
<1> QED
  BY <1>2, <1>3

LEMMA SubmitInvariant ==
  ASSUME IInv, NEW p \in Approvals, SubmitApproval(p)
  PROVE  IInv'
<1> DEFINE c == p.challenge
           o == IF Accepts(p) THEN "granted" ELSE "denied"
<1>1. c \in Requests /\ o \in Outcomes \ {"unasked", "waiting"}
  BY DEF Approvals, Outcomes
<1>2. Verify(p) /\ Resolve(c, o) /\ UNCHANGED <<now, devices, signed>>
  BY DEF SubmitApproval
<1>3. /\ DOMAIN challenges' \subseteq DOMAIN challenges
      /\ \A x \in DOMAIN challenges' :
           /\ challenges'[x].expiresAt = challenges[x].expiresAt
           /\ challenges'[x] \in [expiresAt : 0..(MaxTime + ChallengeTtl), redeemed : BOOLEAN]
           /\ challenges[x].redeemed => challenges'[x].redeemed
      /\ IF Accepts(p)
         THEN verified' = [verified EXCEPT ![c] = @ + 1] /\ challenges'[c].redeemed
         ELSE verified' = verified
  BY <1>2, VerifyEffect DEF IInv, TypeOK
<1>4. /\ requests' \in [Requests -> [outcome : Outcomes, at : 0..MaxTime, answeredAt : 0..MaxTime]]
      /\ \A x \in Requests : requests'[x].at = requests[x].at
      /\ \A x \in Requests : requests'[x] # requests[x] =>
           x = c /\ requests[x].outcome = "waiting"
                 /\ requests'[x].outcome = o /\ requests'[x].answeredAt = now
      /\ waiters' = {x \in Requests : requests'[x].outcome = "waiting"}
  BY <1>1, <1>2, ResolveEffect
<1>5. Accepts(p) => c \in DOMAIN challenges /\ ~challenges[c].redeemed /\ verified[c] = 0
                    /\ now <= challenges[c].expiresAt
  <2>1. Accepts(p) => Unredeemed(c) /\ ~Lapsed(c)
    BY DEF Accepts
  <2>2. Unredeemed(c) => verified[c] = 0
    BY <1>1 DEF IInv, AcceptedIsClosed, TypeOK, VerifierTypeOK
  <2>3. c \in DOMAIN challenges => challenges[c].expiresAt \in Nat /\ now \in Nat
    BY RegistryAssumption, VerifierAssumption DEF IInv, TypeOK, VerifierTypeOK, RegistryTypeOK
  <2> QED
    BY <2>1, <2>2, <2>3 DEF Unredeemed, Lapsed
<1>6. verified \in [Requests -> Nat]
  BY DEF IInv, TypeOK, VerifierTypeOK
<1>7. verified' \in [Requests -> Nat]
  BY <1>1, <1>3, <1>6
<1>8. VerifierTypeOK'
  BY <1>2, <1>3, <1>7 DEF IInv, TypeOK, VerifierTypeOK, RegistryTypeOK
<1>9. TypeOK'
  BY <1>1, <1>2, <1>4, <1>8 DEF IInv, TypeOK
<1>10. \A x \in Requests : requests[x].outcome # "unasked" => requests'[x].outcome # "unasked"
  BY <1>1, <1>4
<1>11. AcceptedIsClosed'
  <2>1. ASSUME NEW x \in Requests, verified'[x] > 0, x # c \/ ~Accepts(p)
        PROVE  verified'[x] = 1 /\ ~Unredeemed(x)' /\ requests'[x].outcome # "unasked"
    <3>1. verified'[x] = verified[x]
      BY <1>1, <1>3, <1>6, <2>1
    <3> QED
      BY <1>3, <1>10, <2>1, <3>1 DEF IInv, AcceptedIsClosed, Unredeemed
  <2>2. ASSUME Accepts(p)
        PROVE  verified'[c] = 1 /\ ~Unredeemed(c)' /\ requests'[c].outcome # "unasked"
    BY <1>1, <1>3, <1>5, <1>6, <1>10, <2>2 DEF IInv, ChallengeOfItsRequest, Unredeemed
  <2> QED
    BY <2>1, <2>2 DEF AcceptedIsClosed
<1>12. ChallengeOfItsRequest'
  BY <1>3, <1>4, <1>10 DEF IInv, ChallengeOfItsRequest, TypeOK, VerifierTypeOK
<1>13. GrantWithinChallengeLife'
  <2> SUFFICES ASSUME NEW x \in Requests, requests'[x].outcome = "granted"
               PROVE  requests'[x].answeredAt <= requests'[x].at + ChallengeTtl
    BY DEF GrantWithinChallengeLife
  <2>1. CASE requests'[x] = requests[x]
    BY <2>1 DEF IInv, GrantWithinChallengeLife
  <2>2. CASE requests'[x] # requests[x]
    <3>1. x = c /\ Accepts(p) /\ requests'[x].answeredAt = now
      BY <1>4, <2>2
    <3> QED
      BY <1>4, <1>5, <3>1 DEF IInv, ChallengeOfItsRequest
  <2> QED
    BY <2>1, <2>2
<1> QED
  BY <1>9, <1>11, <1>12, <1>13 DEF IInv

LEMMA TimeoutInvariant ==
  ASSUME IInv, NEW c \in Requests, WaitTimesOut(c)
  PROVE  IInv'
<1>1. Resolve(c, "timeout") /\ UNCHANGED verifierVars
      /\ "timeout" \in Outcomes \ {"unasked", "waiting"}
  BY DEF WaitTimesOut, Outcomes
<1>2. /\ requests' \in [Requests -> [outcome : Outcomes, at : 0..MaxTime, answeredAt : 0..MaxTime]]
      /\ \A x \in Requests : requests'[x].at = requests[x].at
      /\ \A x \in Requests : requests'[x] # requests[x] =>
           requests[x].outcome = "waiting" /\ requests'[x].outcome = "timeout"
      /\ waiters' = {x \in Requests : requests'[x].outcome = "waiting"}
  BY <1>1, ResolveEffect
<1>3. TypeOK'
  BY <1>1, <1>2 DEF IInv, TypeOK, VerifierTypeOK, RegistryTypeOK, verifierVars
<1>4. AcceptedIsClosed'
  BY <1>1, <1>2 DEF IInv, AcceptedIsClosed, Unredeemed, verifierVars
<1>5. ChallengeOfItsRequest'
  BY <1>1, <1>2 DEF IInv, TypeOK, VerifierTypeOK, ChallengeOfItsRequest, verifierVars
<1>6. GrantWithinChallengeLife'
  BY <1>2 DEF IInv, GrantWithinChallengeLife
<1> QED
  BY <1>3, <1>4, <1>5, <1>6 DEF IInv

LEMMA RevokeInvariant ==
  ASSUME IInv, NEW c \in Requests, HostRevokesChallenge(c)
  PROVE  IInv'
<1>1. /\ DOMAIN challenges' = DOMAIN challenges \ {c}
      /\ \A x \in DOMAIN challenges' : challenges'[x] = challenges[x]
      /\ UNCHANGED <<now, devices, signed, verified, requests, waiters>>
  BY DEF HostRevokesChallenge, RevokeChallenge, WithoutChallenge
<1> QED
  BY <1>1 DEF IInv, TypeOK, VerifierTypeOK, RegistryTypeOK, AcceptedIsClosed, Unredeemed,
     ChallengeOfItsRequest, GrantWithinChallengeLife

LEMMA DevicesInvariant ==
  ASSUME IInv, DevicesChange
  PROVE  IInv'
<1>1. VerifierTypeOK' /\ UNCHANGED <<now, challenges, signed, verified, requests, waiters>>
  BY DevicesKeepTypes DEF IInv, TypeOK, DevicesChange, HostManagesDevices
<1> QED
  BY <1>1 DEF IInv, TypeOK, AcceptedIsClosed, Unredeemed, ChallengeOfItsRequest,
     GrantWithinChallengeLife

LEMMA StepInvariant == IInv /\ [Next]_vars => IInv'
<1> SUFFICES ASSUME IInv, [Next]_vars PROVE IInv'
  OBVIOUS
<1>1. ASSUME NEW c \in Requests, RequestApproval(c) \/ CreateChallenge(c) PROVE IInv'
  <2>1. CASE RequestApproval(c)
    BY <2>1, ShownInvariant DEF RequestApproval
  <2>2. CASE CreateChallenge(c)
    BY <2>2, ShownInvariant DEF CreateChallenge
  <2> QED
    BY <1>1, <2>1, <2>2
<1>2. ASSUME NEW c \in Requests, WaitTimesOut(c) PROVE IInv'
  BY <1>2, TimeoutInvariant
<1>3. ASSUME NEW c \in Requests, HostRevokesChallenge(c) PROVE IInv'
  BY <1>3, RevokeInvariant
<1>4. ASSUME NEW p \in Approvals, SubmitApproval(p) PROVE IInv'
  BY <1>4, SubmitInvariant
<1>5. ASSUME NEW c \in Requests, NEW d \in DeviceIds, DeviceSigns(c, d) PROVE IInv'
  BY <1>5 DEF DeviceSigns, Sign, IInv, TypeOK, VerifierTypeOK, RegistryTypeOK,
     AcceptedIsClosed, Unredeemed, ChallengeOfItsRequest, GrantWithinChallengeLife
<1>6. CASE DevicesChange
  BY <1>6, DevicesInvariant
<1>7. CASE Tick
  <2>1. now' \in 0..MaxTime
    BY <1>7, RegistryAssumption DEF Tick, IInv, TypeOK, VerifierTypeOK, RegistryTypeOK
  <2> QED
    BY <1>7, <2>1 DEF Tick, IInv, TypeOK, VerifierTypeOK, RegistryTypeOK,
       AcceptedIsClosed, Unredeemed, ChallengeOfItsRequest, GrantWithinChallengeLife
<1>8. CASE UNCHANGED vars
  BY <1>8 DEF vars, verifierVars, IInv, TypeOK, VerifierTypeOK, RegistryTypeOK,
     AcceptedIsClosed, Unredeemed, ChallengeOfItsRequest, GrantWithinChallengeLife
<1> QED
  BY <1>1, <1>2, <1>3, <1>4, <1>5, <1>6, <1>7, <1>8 DEF Next

THEOREM Invariance == Spec => []IInv
  BY InitInvariant, StepInvariant, PTL DEF Spec

-----------------------------------------------------------------------------
(* The service keeps its types, and a waiter is there exactly for the      *)
(* requests that have not been answered (service.ts:124-268).              *)
THEOREM TypeCorrect == Spec => []TypeOK
<1>1. IInv => TypeOK
  BY DEF IInv
<1> QED
  BY <1>1, Invariance, PTL

(* The verifier accepts at most one approval of a challenge, for any       *)
(* number of requests, devices, submissions, purges and revocations        *)
(* (approval-v1.ts:148-229).                                               *)
THEOREM ConsentIsUsedOnce == Spec => []ConsentUsedOnce
<1>1. IInv => ConsentUsedOnce
  BY DEF IInv, AcceptedIsClosed, ConsentUsedOnce, TypeOK, VerifierTypeOK
<1> QED
  BY <1>1, Invariance, PTL

(* requestApproval() is told "granted" only within the challenge's life,   *)
(* whatever timeoutMs is (service.ts:185-210, approval-v1.ts:175).         *)
THEOREM GrantsAreFresh == Spec => []GrantWithinChallengeLife
<1>1. IInv => GrantWithinChallengeLife
  BY DEF IInv
<1> QED
  BY <1>1, Invariance, PTL

(* An outcome turns to "granted" only by an accepted submission.           *)
LEMMA GrantIsAccepted ==
  ASSUME IInv, [Next]_vars, NEW c \in Requests,
         requests[c].outcome = "waiting", requests'[c].outcome = "granted"
  PROVE  \E p \in Approvals : p.challenge = c /\ Accepts(p) /\ UNCHANGED <<now, devices>>
<1>1. ASSUME NEW b \in Requests, NEW o \in {"created", "waiting"}, Shown(b, o) PROVE FALSE
  <2>1. requests' = [requests EXCEPT ![b] = [outcome |-> o, at |-> now, answeredAt |-> 0]]
    BY <1>1 DEF Shown
  <2>2. b # c => requests'[c] = requests[c]
    BY <2>1 DEF IInv, TypeOK
  <2> QED
    BY <1>1, <2>2 DEF Shown
<1>2. ASSUME NEW b \in Requests, WaitTimesOut(b) PROVE FALSE
  <2>1. Resolve(b, "timeout") /\ "timeout" \in Outcomes \ {"unasked", "waiting"}
    BY <1>2 DEF WaitTimesOut, Outcomes
  <2>2. requests'[c] # requests[c] => requests'[c].outcome = "timeout"
    BY <2>1, ResolveEffect
  <2> QED
    BY <2>2
<1>3. ASSUME NEW p \in Approvals, SubmitApproval(p)
      PROVE  p.challenge = c /\ Accepts(p) /\ UNCHANGED <<now, devices>>
  <2> DEFINE o == IF Accepts(p) THEN "granted" ELSE "denied"
  <2>1. p.challenge \in Requests /\ o \in Outcomes \ {"unasked", "waiting"}
    BY DEF Approvals, Outcomes
  <2>2. Resolve(p.challenge, o) /\ UNCHANGED <<now, devices>>
    BY <1>3 DEF SubmitApproval
  <2>3. requests'[c] # requests[c] => c = p.challenge /\ requests'[c].outcome = o
    BY <2>1, <2>2, ResolveEffect
  <2> QED
    BY <2>2, <2>3
<1>4. CASE UNCHANGED requests
  BY <1>4
<1>5. ASSUME NEW b \in Requests, RequestApproval(b) \/ CreateChallenge(b) PROVE FALSE
  BY <1>1, <1>5 DEF RequestApproval, CreateChallenge
<1> QED
  BY <1>2, <1>3, <1>4, <1>5 DEF Next, HostRevokesChallenge, DeviceSigns, DevicesChange, Tick, vars

(* The host is told "granted" only when the holder of a device signed, and *)
(* while isAuthorized() says yes of that device (service.ts:185-210,       *)
(* approval-v1.ts:189, device.ts: rejectionFor).                           *)
THEOREM GrantsAreAuthorized == Spec => GrantNeedsAuthorizedDevice
<1> DEFINE Authorized ==
      \A c \in Requests : requests[c].outcome = "waiting" /\ requests'[c].outcome = "granted" =>
        \E d \in DeviceIds : <<c, d>> \in signed /\ IsAuthorized(d)
<1>1. ASSUME IInv, NEW p \in Approvals, Accepts(p)
      PROVE  /\ <<p.challenge, p.device>> \in signed /\ p.device \in DeviceIds
             /\ IsAuthorized(p.device)
  BY <1>1, AcceptedIsAuthorized DEF IInv, TypeOK
<1>2. IInv /\ [Next]_vars => Authorized
  BY <1>1, GrantIsAccepted
<1>3. IInv /\ [Next]_vars => [Authorized]_vars
  BY <1>2
<1> HIDE DEF Authorized
<1>4. Spec => [][Authorized]_vars
  BY <1>3, Invariance, PTL DEF Spec
<1> QED
  BY <1>4 DEF GrantNeedsAuthorizedDevice, Authorized
=============================================================================
