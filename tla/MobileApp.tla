----------------------------- MODULE MobileApp -----------------------------
(***************************************************************************)
(* The app as it runs (main.dart): the approval flow, the pairing flow and *)
(* the status screen are tabs of one stack that all stay alive, over one   *)
(* storage, so their calls interleave at every await.                      *)
(*                                                                         *)
(* The approval flow writes nothing the pairing flow reads, and sees of it *)
(* only that hosts accept this device and get pinned.  So a behaviour has  *)
(* one of the two flows in full: with the approval flow, the pairing flow  *)
(* shows as the two steps below that it takes on the storage; with the     *)
(* pairing flow, PinsOnlyConfirmedHost says it takes no others.            *)
(***************************************************************************)
EXTENDS ApprovalController, PairingController

VARIABLE flow \* the flow this behaviour has in full, "approval" or "pairing"

vars == <<storageVars, approvalVars, pairingVars, flow>>

Init ==
    /\ StorageInit /\ ApprovalInit /\ PairingInit
    /\ flow \in {"approval", "pairing"}

\* What the pairing flow does to the storage, as the approval flow sees it.
HostAcceptsDevice ==
    /\ \E host \in Hosts, key \in 1..generated : registered' = registered \cup {<<host, key>>}
    /\ UNCHANGED <<vault, pinned, screen, changing, wiping, generated, now>>
AcceptingHostPinned ==
    /\ screen = "home"
    /\ \E r \in registered : pinned' = r[1]
    /\ UNCHANGED <<vault, screen, changing, wiping, generated, registered, now>>

\* The user or the system closes the app, and it is started again.
Restart == StorageRestart /\ ApprovalRestart /\ PairingRestart

Next ==
    \/ StorageNext /\ UNCHANGED <<approvalVars, pairingVars, flow>>
    \/ flow = "approval" /\ ApprovalNext /\ UNCHANGED <<storageVars, pairingVars, flow>>
    \/ flow = "approval" /\ HostAcceptsDevice /\ UNCHANGED <<approvalVars, pairingVars, flow>>
    \/ flow = "approval" /\ AcceptingHostPinned /\ UNCHANGED <<approvalVars, pairingVars, flow>>
    \/ flow = "pairing" /\ PairingNext /\ UNCHANGED <<storageVars, approvalVars, flow>>
    \/ flow = "pairing" /\ PairingStores /\ UNCHANGED <<approvalVars, flow>>
    \/ Restart /\ UNCHANGED flow

Spec == Init /\ [][Next]_vars

\* The calls of the approval flow come back: a gate, a storage read and a key
\* derivation return, and the transport answers within its timeout.
ApprovalReturns ==
    \/ ScanVerified
    \/ \E result \in BiometricResults : BiometricAnswers(result)
    \/ ReadVault
    \/ Unlocked
    \/ SendApproval
    \/ Settle
FairSpec == Spec /\ WF_vars(ApprovalReturns /\ UNCHANGED <<storageVars, pairingVars, flow>>)

Authorizing == op.step \in {"biometric", "vault", "unlock", "send", "sent"}

\* The types of the controllers' states, and the approval flow's own shape: a
\* progress view is on screen exactly while a call is in flight.
TypeOK ==
    /\ StorageTypeOK
    /\ ui \in DOMAIN Views /\ pairUi \in DOMAIN PairingViews
    /\ shown \in Challenges \cup {NoChallenge} /\ offered \in Pairings \cup {NoPairing}
    /\ pending \in Decisions
    /\ op # Idle <=> ui \in {"verifying", "signing"}

\* What is being authorized, signed and sent is what the user reviewed and the
\* decision the user gave for it, to the last await of authorizeAndSubmit:
\* nothing on the device replaces either under a call in flight.
SignsWhatWasReviewed ==
    Authorizing => op.challenge = shown /\ op.decision = pending

\* "Your approval was signed on this device and accepted by the host": the
\* approved view is never shown for an approval the host did not verify, with
\* approvals and answers lost, late, or sent twice for one challenge.
ApprovedWasAccepted == ui = "approved" => shown.id \in redeemed

\* An approval leaves the device only for a challenge that a host signed with
\* which this device has completed a pairing.
ApprovalsForPairedHosts ==
    \A m \in wire : m.challenge.genuine /\ \E key \in Keys : <<m.challenge.host, key>> \in registered

\* The stored host changes to another one only at the end of a completion the
\* user confirmed for that very host, whose response that host accepted, with
\* scans and other completions running beside it.
PinsOnlyConfirmedHost ==
    [][flow = "pairing" /\ pinned' \notin {pinned, NoHost}
         => \E i \in Calls : /\ calls[i].step = "save"
                             /\ calls[i].pairing.host = pinned'
                             /\ <<pinned', calls[i].key>> \in registered]_vars

\* The progress views end: whatever fails, the flow shows its outcome.
ProgressEnds == ui \in {"verifying", "signing"} ~> ui \notin {"verifying", "signing"}

=============================================================================
