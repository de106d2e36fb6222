----------------------------- MODULE ProviderV1 -----------------------------
(***************************************************************************)
(* packages/approval/src/provider-v1.ts, class                             *)
(* DeviceVerificationApprovalV1: the provider that waits for an approval   *)
(* by calling the host's awaitApproval(challengeId), against a timer, and  *)
(* verifies what it is handed.  requestApproval() awaits twice: the host's *)
(* presentation of the challenge, then the race.                           *)
(***************************************************************************)
EXTENDS ApprovalVerifier

CONSTANTS
  Timeout,
  AnyApproval   \* whether awaitApproval() may hand over another request's approval

ASSUME ProviderAssumption == Timeout \in Nat /\ AnyApproval \in BOOLEAN

VARIABLES requests   \* requests[c]: [stage, deadline, used] of requestApproval(c)

vars == <<verifierVars, requests>>

NotAsked == [stage |-> "unasked", deadline |-> 0, used |-> {}]

Init == VerifierInit /\ requests = [c \in Requests |-> NotAsked]

RequestApproval(c) ==
  /\ requests[c].stage = "unasked"
  /\ RegisterChallenge(c)
  /\ requests' = [requests EXCEPT ![c].stage = "presenting"]
  /\ UNCHANGED <<now, devices, signed, verified>>

(* presentChallenge has returned: only now is the timer set.               *)
Presented(c) ==
  /\ requests[c].stage = "presenting"
  /\ now + Timeout <= MaxTime
  /\ requests' = [requests EXCEPT ![c].stage = "racing", ![c].deadline = now + Timeout]
  /\ UNCHANGED verifierVars

(* awaitApproval won the race.  "used" is the challenge that was verified  *)
(* (history): verify() looks it up by the id the approval names.           *)
ApprovalReceived(c, p) ==
  /\ requests[c].stage = "racing"
  /\ p.challenge = c \/ AnyApproval
  /\ Verify(p)
  /\ requests' = [requests EXCEPT ![c].stage = IF Accepts(p) THEN "granted" ELSE "denied",
                                  ![c].used = IF Accepts(p) THEN {p.challenge} ELSE {}]
  /\ UNCHANGED <<now, devices, signed>>

(* Mutant: the timer is cleared when the challenge it guards has lapsed.   *)
DeadlineOnlyWhileLive(c) ==
  /\ requests[c].stage = "racing" /\ now >= requests[c].deadline
  /\ c \in DOMAIN challenges /\ ~Lapsed(c)
  /\ requests' = [requests EXCEPT ![c].stage = "timeout"]
  /\ UNCHANGED verifierVars

(* The timer won.  What comes later is not verified, so the challenge is   *)
(* not consumed.                                                           *)
DeadlinePassed(c) ==
  /\ requests[c].stage = "racing" /\ now >= requests[c].deadline
  /\ requests' = [requests EXCEPT ![c].stage = "timeout"]
  /\ UNCHANGED verifierVars

(* awaitApproval resolved with null.                                       *)
HostGivesUp(c) ==
  /\ requests[c].stage = "racing"
  /\ requests' = [requests EXCEPT ![c].stage = "timeout"]
  /\ UNCHANGED verifierVars

(* presentChallenge or awaitApproval rejects, and requestApproval with it: *)
(* the challenge stays registered.                                         *)
HostFails(c) ==
  /\ requests[c].stage \in {"presenting", "racing"}
  /\ requests' = [requests EXCEPT ![c].stage = "failed"]
  /\ UNCHANGED verifierVars

HostRevokesChallenge(c) ==
  /\ RevokeChallenge(c)
  /\ UNCHANGED <<now, devices, signed, verified, requests>>

DeviceSigns(c, d) == Sign(c, d) /\ UNCHANGED requests

DevicesChange == HostManagesDevices /\ UNCHANGED requests

Tick ==
  /\ now < MaxTime
  /\ now' = now + 1
  /\ UNCHANGED <<devices, challenges, signed, verified, requests>>

Next ==
  \/ \E c \in Requests : \/ RequestApproval(c) \/ Presented(c) \/ DeadlinePassed(c)
                         \/ HostGivesUp(c) \/ HostFails(c) \/ HostRevokesChallenge(c)
  \/ \E c \in Requests, p \in Approvals : ApprovalReceived(c, p)
  \/ \E c \in Requests, d \in DeviceIds : DeviceSigns(c, d)
  \/ DevicesChange
  \/ Tick

Spec ==
  /\ Init /\ [][Next]_vars
  /\ WF_vars(Tick) /\ \A c \in Requests : WF_vars(DeadlinePassed(c))

-----------------------------------------------------------------------------
Answers == {"granted", "denied", "timeout", "failed"}
Stages == {"unasked", "presenting", "racing"} \cup Answers

TypeOK ==
  /\ VerifierTypeOK
  /\ requests \in [Requests -> [stage : Stages, deadline : 0..MaxTime, used : SUBSET Requests]]

(* Two grants never rest on the same consent, even when the host's         *)
(* awaitApproval() hands one approval to two requests.                     *)
OneGrantPerConsent ==
  \A b, c \in Requests : requests[b].used \cap requests[c].used # {} => b = c

(* Once the challenge is on display the request is answered, with an       *)
(* exception if the host's awaitApproval() fails.  Nothing bounds the time *)
(* presentChallenge() takes before that.                                   *)
PresentedIsAnswered ==
  \A c \in Requests : requests[c].stage = "racing" ~> requests[c].stage \in Answers

=============================================================================
