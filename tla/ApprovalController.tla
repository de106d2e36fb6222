------------------------- MODULE ApprovalController -------------------------
(***************************************************************************)
(* The approval flow of the mobile app: ApprovalController and the views   *)
(* of ApprovalFlowScreen that call it.  The screen shows one view for each *)
(* state of the controller, and a view offers only its own buttons; so a   *)
(* call in flight (op) meets no other call of this flow, but it does meet  *)
(* the status screen, the pairing flow, the clock and a slow network.      *)
(***************************************************************************)
EXTENDS DeviceStorage

CONSTANTS Challenges,       \* challenge QR codes: [id, host, genuine, expiresAt]
          MaxSubmits,       \* approvals submitted in a behaviour
          BiometricResults  \* what the gate may answer; {} when it is not required

ASSUME ApprovalConstants ==
    /\ \A c \in Challenges : c.host \in Hosts /\ c.genuine \in BOOLEAN /\ c.expiresAt \in Nat
    /\ MaxSubmits \in Nat
    /\ BiometricResults \subseteq {"authenticated", "unavailable", "failed"}

NoChallenge == [id |-> "none"]
Decisions == {"granted", "denied"}
ChallengeIds == {c.id : c \in Challenges}

VARIABLES ui,       \* ApprovalUiState
          shown,    \* _challenge
          pending,  \* _pendingDecision
          op,       \* the call of scan or submitWithPin in flight
          submits,  \* approvals signed so far
          wire,     \* approvals sent and not received
          redeemed, \* challenges whose approval a host verified
          outcome   \* what the host's waiting request was told

approvalVars == <<ui, shown, pending, op, submits, wire, redeemed, outcome>>
hostVars == <<wire, redeemed, outcome>>

(* The buttons of each view *)
CameraViews == [waiting |-> {"beginScanning"}, scanning |-> {"scan"}]
ReviewViews == [challengeFound |-> {"showDetails", "reset"},
                approvalDetails |-> {"approve", "deny", "reset"}]
\* Mutant: the progress views have a Cancel button.
CancellableViews == [authenticationRequired |-> {"submit", "reset"},
                     verifying |-> {"reset"}, signing |-> {"reset"}]
AuthenticationViews == [authenticationRequired |-> {"submit", "reset"},
                        verifying |-> {}, signing |-> {}]
OutcomeViews == [s \in {"approved", "denied", "expired", "invalidChallenge",
                        "deviceNotPaired", "connectionError", "verificationError"}
                   |-> {"reset"}]
Views == Joined(Joined(CameraViews, ReviewViews), Joined(AuthenticationViews, OutcomeViews))

Offers(button) == screen = "home" /\ button \in Views[ui]

ApprovalInit ==
    /\ ui = "waiting"
    /\ shown = NoChallenge
    /\ pending = "granted"
    /\ op = Idle
    /\ submits = 0
    /\ wire = {}
    /\ redeemed = {}
    /\ outcome = [c \in ChallengeIds |-> "waiting"]

BeginScanning ==
    /\ Offers("beginScanning")
    /\ ui' = "scanning"
    /\ UNCHANGED <<shown, pending, op, submits, hostVars>>

\* A code that is no challenge, or does not parse, fails at once.
ScanOther ==
    /\ Offers("scan") /\ op = Idle
    /\ ui' = "invalidChallenge"
    /\ UNCHANGED <<shown, pending, op, submits, hostVars>>

\* scan(), up to the pinned key read by it; _busy refuses a second payload.
Scan(c) ==
    /\ Offers("scan") /\ op = Idle
    /\ IF pinned = NoHost
       THEN /\ ui' = "deviceNotPaired"
            /\ UNCHANGED op
       ELSE /\ ui' = "verifying"
            /\ op' = [step |-> "hostCheck", challenge |-> c, trusted |-> pinned]
    /\ UNCHANGED <<shown, pending, submits, hostVars>>

\* Mutant: the signature is checked against the key the code itself carries.
VerifiesOwnHost(c, trusted) == c.genuine
VerifiesHost(c, trusted) == c.host = trusted /\ c.genuine

\* scan(), from the signature check to its end.
ScanVerified ==
    /\ op.step = "hostCheck"
    /\ op' = Idle
    /\ LET c == op.challenge
       IN  \/ /\ ~VerifiesHost(c, op.trusted)
              /\ ui' = "invalidChallenge"
              /\ UNCHANGED shown
           \/ /\ VerifiesHost(c, op.trusted) /\ now >= c.expiresAt
              /\ ui' = "expired"
              /\ UNCHANGED shown
           \/ /\ VerifiesHost(c, op.trusted) /\ now < c.expiresAt
              /\ ui' = "challengeFound"
              /\ shown' = c
    /\ UNCHANGED <<pending, submits, hostVars>>

ShowDetails ==
    /\ Offers("showDetails") /\ shown # NoChallenge
    /\ ui' = "approvalDetails"
    /\ UNCHANGED <<shown, pending, op, submits, hostVars>>

\* requestApprovalAuthentication and requestDenialAuthentication
RequestAuthentication(decision) ==
    /\ Offers(IF decision = "granted" THEN "approve" ELSE "deny") /\ shown # NoChallenge
    /\ pending' = decision
    /\ ui' = "authenticationRequired"
    /\ UNCHANGED <<shown, op, submits, hostVars>>

\* reset() leaves _pendingDecision and whatever is in flight alone.
Reset ==
    /\ Offers("reset")
    /\ shown' = NoChallenge
    /\ ui' = "waiting"
    /\ UNCHANGED <<pending, op, submits, hostVars>>

\* deny() shows a denial where authorizeAndSubmit ended in one of these.
After(decision, state) ==
    IF decision = "denied" /\ state \in {"connectionError", "verificationError", "approved"}
    THEN "denied" ELSE state

\* authorizeAndSubmit, up to its first await: the challenge and the decision
\* are captured here and _challenge is not read again.
Submit(pin) ==
    /\ Offers("submit") /\ op = Idle
    /\ submits < MaxSubmits
    /\ IF now >= shown.expiresAt
       THEN ui' = "expired" /\ UNCHANGED op
       ELSE /\ ui' = "verifying"
            /\ op' = [step |-> IF BiometricResults = {} THEN "vault" ELSE "biometric",
                      challenge |-> shown, decision |-> pending, pin |-> pin]
    /\ UNCHANGED <<shown, pending, submits, hostVars>>

\* The gate answers; an unavailable gate is passed over.
BiometricAnswers(result) ==
    /\ op.step = "biometric" /\ result \in BiometricResults
    /\ IF result = "failed"
       THEN ui' = After(op.decision, "verificationError") /\ op' = Idle
       ELSE op' = [op EXCEPT !.step = "vault"] /\ UNCHANGED ui
    /\ UNCHANGED <<shown, pending, submits, hostVars>>

\* Mutant: a device without a key leaves the progress view on screen.
ReadVaultSilent ==
    /\ op.step = "vault"
    /\ IF vault = NoKey
       THEN op' = Idle /\ UNCHANGED ui
       ELSE /\ op' = [step |-> "unlock", challenge |-> op.challenge, decision |-> op.decision,
                      pin |-> op.pin, record |-> vault]
            /\ UNCHANGED ui
    /\ UNCHANGED <<shown, pending, submits, hostVars>>

\* DeviceKeyVault.unlock reads the stored record ...
ReadVault ==
    /\ op.step = "vault"
    /\ IF vault = NoKey
       THEN ui' = "deviceNotPaired" /\ op' = Idle
       ELSE /\ op' = [step |-> "unlock", challenge |-> op.challenge, decision |-> op.decision,
                      pin |-> op.pin, record |-> vault]
            /\ UNCHANGED ui
    /\ UNCHANGED <<shown, pending, submits, hostVars>>

\* ... and tries the PIN on it; the approval is signed with the key it opens.
Unlocked ==
    /\ op.step = "unlock"
    /\ IF ~Opens(op.pin, op.record)
       THEN ui' = After(op.decision, "verificationError") /\ op' = Idle
       ELSE /\ ui' = "signing"
            /\ op' = [step |-> "send", challenge |-> op.challenge, decision |-> op.decision,
                      key |-> op.record.key]
    /\ UNCHANGED <<shown, pending, submits, hostVars>>

\* The signed approval goes out.
SendApproval ==
    /\ op.step = "send"
    /\ submits' = submits + 1
    /\ wire' = wire \cup {[number |-> submits + 1, challenge |-> op.challenge,
                           decision |-> op.decision, key |-> op.key]}
    /\ op' = [step |-> "sent", challenge |-> op.challenge, decision |-> op.decision,
              number |-> submits + 1, reply |-> "none"]
    /\ UNCHANGED <<ui, shown, pending, redeemed, outcome>>

(***************************************************************************)
(* The host, as its approval service answers: the first refusal that       *)
(* applies, or ok.  Any answer, a refusal too, settles the request that    *)
(* waits for this challenge; only ok redeems it.                           *)
(***************************************************************************)
HostVerdict(m) ==
    IF m.challenge.id \in redeemed \/ now > m.challenge.expiresAt THEN "challenge"
    ELSE IF <<m.challenge.host, m.key>> \notin registered THEN "device"
    ELSE IF m.decision = "denied" THEN "approval.denied"
    ELSE "ok"

HostReceives(m) ==
    /\ m \in wire
    /\ wire' = wire \ {m}
    /\ LET verdict == HostVerdict(m)
           id == m.challenge.id
       IN  /\ redeemed' = IF verdict = "ok" THEN redeemed \cup {id} ELSE redeemed
           /\ outcome' = IF outcome[id] = "waiting"
                         THEN [outcome EXCEPT ![id] = IF verdict = "ok" THEN "granted" ELSE "denied"]
                         ELSE outcome
           /\ op' = IF op.step = "sent" /\ op.number = m.number
                    THEN [op EXCEPT !.reply = verdict] ELSE op
    /\ UNCHANGED <<ui, shown, pending, submits>>

\* The host stops waiting: the approval window of the request has passed.
HostTimesOut(id) ==
    /\ outcome[id] = "waiting"
    /\ \A c \in Challenges : c.id = id => now >= c.expiresAt
    /\ outcome' = [outcome EXCEPT ![id] = "denied"]
    /\ UNCHANGED <<ui, shown, pending, op, submits, wire, redeemed>>

\* Mutant: a challenge already redeemed is taken for an approval of it.
ViewOptimistic(reply) ==
    IF reply \in {"ok", "challenge"} THEN "approved"
    ELSE IF reply = "transport" THEN "connectionError"
    ELSE "verificationError"
ViewFor(reply) ==
    IF reply = "ok" THEN "approved"
    ELSE IF reply \in {"transport", "challenge"} THEN "connectionError"
    ELSE "verificationError"

\* The answer arrives, or it does not: the transport's timeout and its
\* connection errors come whether or not the host received the approval.
Settle ==
    /\ op.step = "sent"
    /\ \E reply \in {op.reply, "transport"} \ {"none"} :
          ui' = After(op.decision, ViewFor(reply))
    /\ op' = Idle
    /\ UNCHANGED <<shown, pending, submits, hostVars>>

\* A new process: the controller starts over, what was sent stays sent.
ApprovalRestart ==
    /\ ui' = "waiting" /\ shown' = NoChallenge /\ pending' = "granted" /\ op' = Idle
    /\ UNCHANGED <<submits, hostVars>>

ApprovalNext ==
    \/ BeginScanning
    \/ ScanOther
    \/ \E c \in Challenges : Scan(c)
    \/ ScanVerified
    \/ ShowDetails
    \/ \E decision \in Decisions : RequestAuthentication(decision)
    \/ Reset
    \/ \E pin \in Pins : Submit(pin)
    \/ \E result \in BiometricResults : BiometricAnswers(result)
    \/ ReadVault
    \/ Unlocked
    \/ SendApproval
    \/ \E m \in wire : HostReceives(m)
    \/ \E id \in ChallengeIds : HostTimesOut(id)
    \/ Settle
=============================================================================
