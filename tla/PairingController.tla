------------------------- MODULE PairingController -------------------------
(***************************************************************************)
(* The pairing flow of the mobile app: PairingController and the views of  *)
(* PairingFlowScreen.  Unlike the approval flow it can have several calls  *)
(* in flight: a pasted code is scanned without the camera's _busy guard    *)
(* while the waiting view stays on screen, so that two scans, or a scan    *)
(* and a completion, overlap.                                              *)
(***************************************************************************)
EXTENDS DeviceStorage

CONSTANTS Pairings,  \* pairing QR codes: [host, genuine, expiresAt]
          MaxCalls   \* calls in flight together

ASSUME PairingConstants ==
    /\ MaxCalls \in Nat
    /\ \A p \in Pairings : p.host \in Hosts /\ p.genuine \in BOOLEAN /\ p.expiresAt \in Nat

NoPairing == [host |-> NoHost]
Calls == 1..MaxCalls

VARIABLES pairUi,   \* PairingUiState
          offered,  \* _pairing
          calls     \* the calls of scan and complete in flight

pairingVars == <<pairUi, offered, calls>>

(* The buttons of each view *)
WaitingViews == [waiting |-> {"beginScanning", "paste"}, scanning |-> {"scan"}]
ConfirmViews == [pairingReady |-> {"showDetails", "reset"}, details |-> {"confirm", "reset"}]
ProgressViews == [verifying |-> {}, signing |-> {}, complete |-> {"reset"}, failed |-> {"reset"}]
PairingViews == Joined(WaitingViews, Joined(ConfirmViews, ProgressViews))
PairOffers(button) == screen = "home" /\ button \in PairingViews[pairUi]

PairingInit ==
    /\ pairUi = "waiting"
    /\ offered = NoPairing
    /\ calls = [i \in Calls |-> Idle]

\* A call ends with the failed view, whatever the screen shows meanwhile.
Fails(i) ==
    /\ pairUi' = "failed"
    /\ calls' = [calls EXCEPT ![i] = Idle]

\* A new call takes the first free slot.
Free(i) == calls[i] = Idle /\ \A j \in Calls : j < i => calls[j] # Idle

Goes(i, call) == calls' = [calls EXCEPT ![i] = call]

BeginPairingScan ==
    /\ PairOffers("beginScanning")
    /\ pairUi' = "scanning"
    /\ UNCHANGED <<offered, calls>>

\* The camera passes one payload at a time (_busy); a paste asks nothing.
CameraFree == PairOffers("scan") /\ \A i \in Calls : calls[i].step \notin {"camera", "cameraRead"}

\* A code that is no pairing code fails at once.
ScanOtherPairing ==
    /\ CameraFree \/ PairOffers("paste")
    /\ pairUi' = "failed"
    /\ UNCHANGED <<offered, calls>>

\* scan(), up to the signature check.
ScanPairing(i, p) ==
    /\ Free(i)
    /\ \/ /\ CameraFree
          /\ Goes(i, [step |-> "camera", pairing |-> p])
       \/ /\ PairOffers("paste")
          /\ Goes(i, [step |-> "pasted", pairing |-> p])
    /\ UNCHANGED <<pairUi, offered>>

\* The host's signature and the deadline are checked, here and never again.
PairingVerified(i) ==
    /\ calls[i].step \in {"camera", "pasted"}
    /\ IF ~calls[i].pairing.genuine \/ now >= calls[i].pairing.expiresAt
       THEN Fails(i)
       ELSE /\ Goes(i, [step |-> IF calls[i].step = "camera" THEN "cameraRead" ELSE "pastedRead",
                        pairing |-> calls[i].pairing])
            /\ UNCHANGED pairUi
    /\ UNCHANGED offered

\* The stored host has been read; the code of another one is offered, in
\* place of whatever the flow was at.
PairingRead(i) ==
    /\ calls[i].step \in {"cameraRead", "pastedRead"}
    /\ IF pinned = calls[i].pairing.host
       THEN Fails(i) /\ UNCHANGED offered
       ELSE /\ offered' = calls[i].pairing
            /\ pairUi' = "pairingReady"
            /\ Goes(i, Idle)

ShowPairing ==
    /\ PairOffers("showDetails") /\ offered # NoPairing
    /\ pairUi' = "details"
    /\ UNCHANGED <<offered, calls>>

ResetPairing ==
    /\ PairOffers("reset")
    /\ offered' = NoPairing
    /\ pairUi' = "waiting"
    /\ UNCHANGED calls

\* complete(), up to its first await: the pairing is captured here.
Confirm(i, pin) ==
    /\ PairOffers("confirm") /\ Free(i)
    /\ Goes(i, [step |-> "vault", pairing |-> offered, pin |-> pin])
    /\ pairUi' = "verifying"
    /\ UNCHANGED offered

PairingReadsVault(i) ==
    /\ calls[i].step = "vault"
    /\ IF vault = NoKey
       THEN Fails(i)
       ELSE /\ Goes(i, [step |-> "unlock", pairing |-> calls[i].pairing,
                        pin |-> calls[i].pin, record |-> vault])
            /\ UNCHANGED pairUi
    /\ UNCHANGED offered

\* The PIN is tried; with the key it opens the response is signed and sent.
PairingUnlocked(i) ==
    /\ calls[i].step = "unlock"
    /\ \/ /\ ~Opens(calls[i].pin, calls[i].record)
          /\ Fails(i)
       \/ /\ Opens(calls[i].pin, calls[i].record)
          /\ pairUi' = "signing"
          /\ Goes(i, [step |-> "sent", pairing |-> calls[i].pairing,
                      key |-> calls[i].record.key, accepted |-> FALSE])
    /\ UNCHANGED offered

\* The host's completePairing() accepts the response, before the pairing lapses.
\* Pairing has the rest of it: one that it refuses, or that does not arrive in time,
\* shows as a failure of the call.
HostPairs(i) ==
    /\ calls[i].step = "sent"
    /\ now <= calls[i].pairing.expiresAt
    /\ registered' = registered \cup {<<calls[i].pairing.host, calls[i].key>>}
    /\ Goes(i, [calls[i] EXCEPT !.accepted = TRUE])
    /\ UNCHANGED <<pairUi, offered>>
    /\ UNCHANGED <<vault, pinned, screen, changing, wiping, generated, now>>

\* Mutant: the response counts as accepted once it has gone out.
PairingSettlesOptimistic(i) ==
    /\ calls[i].step = "sent"
    /\ \/ /\ Goes(i, [step |-> "save", pairing |-> calls[i].pairing, key |-> calls[i].key])
          /\ UNCHANGED pairUi
       \/ Fails(i)
    /\ UNCHANGED offered

\* The transport's answer: ok goes on to the store, anything else, a timeout
\* included, ends the call.
PairingSettles(i) ==
    /\ calls[i].step = "sent"
    /\ \/ /\ calls[i].accepted
          /\ Goes(i, [step |-> "save", pairing |-> calls[i].pairing, key |-> calls[i].key])
          /\ UNCHANGED pairUi
       \/ Fails(i)
    /\ UNCHANGED offered

\* PairingStore.save: the last write of several calls stays.
SavePaired(i) ==
    /\ calls[i].step = "save"
    /\ pinned' = calls[i].pairing.host
    /\ Goes(i, [step |-> "saved", pairing |-> calls[i].pairing])
    /\ UNCHANGED <<pairUi, offered>>
    /\ UNCHANGED <<vault, screen, changing, wiping, generated, registered, now>>

PairingCompletes(i) ==
    /\ calls[i].step = "saved"
    /\ pairUi' = "complete"
    /\ Goes(i, Idle)
    /\ UNCHANGED offered

PairingRestart ==
    /\ pairUi' = "waiting" /\ offered' = NoPairing
    /\ calls' = [i \in Calls |-> Idle]

\* The steps that leave the storage as it is, and the two that change it.
PairingNext ==
    \/ BeginPairingScan
    \/ ScanOtherPairing
    \/ ShowPairing
    \/ ResetPairing
    \/ \E i \in Calls :
          \/ \E p \in Pairings : ScanPairing(i, p)
          \/ PairingVerified(i)
          \/ PairingRead(i)
          \/ \E pin \in Pins : Confirm(i, pin)
          \/ PairingReadsVault(i)
          \/ PairingUnlocked(i)
          \/ PairingSettles(i)
          \/ PairingCompletes(i)
PairingStores ==
    \E i \in Calls : HostPairs(i) \/ SavePaired(i)
=============================================================================
