--------------------------- MODULE MobileApproval ---------------------------
(***************************************************************************)
(* packages/mobile/src/service.ts, class MobileApprovalService: the host   *)
(* waits for a device's approval of the challenge it shows, with a timer   *)
(* running.  requestApproval() up to its await, submitApproval() and the   *)
(* timer callback are one action each; the device registry, the store and  *)
(* the verifier are those of ApprovalVerifier.                             *)
(***************************************************************************)
EXTENDS ApprovalVerifier

CONSTANTS Timeout   \* timeoutMs: how long requestApproval() waits

ASSUME ServiceAssumption == Timeout \in Nat

VARIABLES
  requests,   \* requests[c]: [outcome, at, answeredAt] of requestApproval(c)
  waiters     \* the Map of waiters: challenges someone is waiting for

vars == <<verifierVars, requests, waiters>>

NotAsked == [outcome |-> "unasked", at |-> 0, answeredAt |-> 0]

Init ==
  /\ VerifierInit
  /\ requests = [c \in Requests |-> NotAsked]
  /\ waiters = {}

(* createChallengeFor(): the challenge is made and registered now, once.   *)
Shown(c, outcome) ==
  /\ requests[c].outcome = "unasked"
  /\ RegisterChallenge(c)
  /\ requests' = [requests EXCEPT ![c] = [outcome |-> outcome, at |-> now, answeredAt |-> 0]]
  /\ UNCHANGED <<now, devices, signed, verified>>

(* createChallengeFor(), onPresentChallenge and waitFor() run without an   *)
(* await in between; waitFor() registers the challenge again should the    *)
(* callback have revoked it, so it is registered in any case.              *)
RequestApproval(c) ==
  /\ now + Timeout <= MaxTime
  /\ Shown(c, "waiting")
  /\ waiters' = waiters \cup {c}

(* createChallengeFor() by itself: the challenge can be redeemed, and      *)
(* nobody waits for it.                                                    *)
CreateChallenge(c) == Shown(c, "created") /\ UNCHANGED waiters

(* The waiter of c is taken out and its promise resolved.                  *)
Resolve(c, outcome) ==
  /\ waiters' = waiters \ {c}
  /\ requests' = IF c \in waiters
                 THEN [requests EXCEPT ![c].outcome = outcome, ![c].answeredAt = now]
                 ELSE requests

(* Mutant: a waiter whose approval was refused is taken out, never told.   *)
SubmitForgetsRefused(p) ==
  /\ Verify(p)
  /\ IF Accepts(p) THEN Resolve(p.challenge, "granted")
     ELSE waiters' = waiters \ {p.challenge} /\ UNCHANGED requests
  /\ UNCHANGED <<now, devices, signed>>

(* submitApproval(): the first submission that names the challenge answers *)
(* the request, be it good or bad; without a waiter it is verified all the *)
(* same.                                                                   *)
SubmitApproval(p) ==
  /\ Verify(p)
  /\ Resolve(p.challenge, IF Accepts(p) THEN "granted" ELSE "denied")
  /\ UNCHANGED <<now, devices, signed>>

WaitTimesOut(c) ==
  /\ c \in waiters /\ now >= requests[c].at + Timeout
  /\ Resolve(c, "timeout")
  /\ UNCHANGED verifierVars

(* The host may revoke a challenge it showed: the request keeps waiting.   *)
HostRevokesChallenge(c) ==
  /\ RevokeChallenge(c)
  /\ UNCHANGED <<now, devices, signed, verified, requests, waiters>>

DeviceSigns(c, d) == Sign(c, d) /\ UNCHANGED <<requests, waiters>>

DevicesChange == HostManagesDevices /\ UNCHANGED <<requests, waiters>>

Tick ==
  /\ now < MaxTime
  /\ now' = now + 1
  /\ UNCHANGED <<devices, challenges, signed, verified, requests, waiters>>

Next ==
  \/ \E c \in Requests :
       RequestApproval(c) \/ CreateChallenge(c) \/ WaitTimesOut(c) \/ HostRevokesChallenge(c)
  \/ \E p \in Approvals : SubmitApproval(p)
  \/ \E c \in Requests, d \in DeviceIds : DeviceSigns(c, d)
  \/ DevicesChange
  \/ Tick

(* The clock moves and a due timer fires; devices and hosts owe nothing.   *)
Spec ==
  /\ Init /\ [][Next]_vars
  /\ WF_vars(Tick) /\ \A c \in Requests : WF_vars(WaitTimesOut(c))

-----------------------------------------------------------------------------
Outcomes == {"unasked", "created", "waiting", "granted", "denied", "timeout"}

TypeOK ==
  /\ VerifierTypeOK
  /\ requests \in [Requests -> [outcome : Outcomes, at : 0..MaxTime, answeredAt : 0..MaxTime]]
  /\ waiters = {c \in Requests : requests[c].outcome = "waiting"}

(* The host is told "granted" only for a challenge that the holder of a    *)
(* device signed, and at a moment at which isAuthorized() says yes of that *)
(* device: revoking it in time is enough, however late the approval comes. *)
GrantNeedsAuthorizedDevice ==
  [][\A c \in Requests : requests[c].outcome = "waiting" /\ requests'[c].outcome = "granted" =>
       \E d \in DeviceIds : <<c, d>> \in signed /\ IsAuthorized(d)]_vars

(* A grant is as young as its challenge, even when the host waits longer   *)
(* than a challenge lives.                                                 *)
GrantWithinChallengeLife ==
  \A c \in Requests : requests[c].outcome = "granted" =>
    requests[c].answeredAt <= requests[c].at + ChallengeTtl

(* Every request is answered: by a submission or by the timer, also when   *)
(* the challenge was revoked or purged while the host waited for it.       *)
RequestIsAnswered ==
  \A c \in Requests :
    requests[c].outcome = "waiting" ~> requests[c].outcome \in {"granted", "denied", "timeout"}
=============================================================================
