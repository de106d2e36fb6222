--------------------------- MODULE MobileAppProofs ---------------------------
(***************************************************************************)
(* The mobile app for any number of hosts, PINs, codes and calls: what it  *)
(* signs is what was reviewed, an approved view means that the host        *)
(* verified the approval, approvals are for paired hosts only, and no host *)
(* is pinned but one whose pairing was confirmed and accepted.             *)
(***************************************************************************)
EXTENDS MobileApp, TLAPS

(* The calls of the approval flow, step by step.                           *)
HostCheckOps == [step : {"hostCheck"}, challenge : Challenges, trusted : Hosts \cup {NoHost}]
GateOps == [step : {"biometric", "vault"}, challenge : Challenges, decision : Decisions, pin : Pins]
UnlockOps == [step : {"unlock"}, challenge : Challenges, decision : Decisions, pin : Pins,
              record : Records]
SendOps == [step : {"send"}, challenge : Challenges, decision : Decisions, key : Keys]
Replies == {"none", "challenge", "device", "approval.denied", "ok"}
SentOps == [step : {"sent"}, challenge : Challenges, decision : Decisions,
            number : 1..MaxSubmits, reply : Replies]
Ops == {Idle} \cup HostCheckOps \cup GateOps \cup UnlockOps \cup SendOps \cup SentOps

Messages == [number : 1..MaxSubmits, challenge : Challenges, decision : Decisions, key : Keys]

(* The calls of the pairing flow.                                          *)
ScanCalls == [step : {"camera", "pasted", "cameraRead", "pastedRead", "saved"}, pairing : Pairings]
VaultCalls == [step : {"vault"}, pairing : Pairings, pin : Pins]
UnlockCalls == [step : {"unlock"}, pairing : Pairings, pin : Pins, record : Records]
SentCalls == [step : {"sent"}, pairing : Pairings, key : Keys, accepted : BOOLEAN]
SaveCalls == [step : {"save"}, pairing : Pairings, key : Keys]
PairingCalls == {Idle} \cup ScanCalls \cup VaultCalls \cup UnlockCalls \cup SentCalls \cup SaveCalls

Paired(host) == \E key \in Keys : <<host, key>> \in registered

(* The views in which a challenge is under review or being authorized show *)
(* one that a paired host signed.                                          *)
Reviewing == ui \in {"challengeFound", "approvalDetails", "authenticationRequired"} \/ Authorizing

StorageInv ==
  /\ StorageTypeOK
  /\ pinned # NoHost => Paired(pinned)

PairingInv ==
  /\ pairUi \in DOMAIN PairingViews /\ offered \in Pairings \cup {NoPairing}
  /\ pairUi = "details" => offered # NoPairing
  /\ calls \in [Calls -> PairingCalls]
  /\ \A i \in Calls :
       calls[i].step = "save" \/ (calls[i].step = "sent" /\ calls[i].accepted)
         => <<calls[i].pairing.host, calls[i].key>> \in registered

ApprovalTypes ==
  /\ ui \in DOMAIN Views /\ shown \in Challenges \cup {NoChallenge} /\ pending \in Decisions
  /\ op \in Ops /\ (op # Idle <=> ui \in {"verifying", "signing"})
  /\ submits \in 0..MaxSubmits /\ wire \subseteq Messages
  /\ op.step \in {"biometric", "vault", "unlock", "send"} => submits < MaxSubmits

ReviewIsOfPairedHost ==
  /\ Reviewing => shown \in Challenges /\ shown.genuine /\ Paired(shown.host)
  /\ op.step = "hostCheck" => Paired(op.trusted)

SentIsOnTheWire ==
  /\ \A m \in wire : m.number <= submits
  /\ op.step = "sent" =>
       /\ op.number <= submits
       /\ \A m \in wire : m.number = op.number => m.challenge = op.challenge
       /\ op.reply = "ok" => op.challenge.id \in redeemed

ApprovalInv ==
  /\ ApprovalTypes /\ ReviewIsOfPairedHost /\ SentIsOnTheWire
  /\ SignsWhatWasReviewed /\ ApprovedWasAccepted /\ ApprovalsForPairedHosts

IInv == StorageInv /\ PairingInv /\ ApprovalInv /\ flow \in {"approval", "pairing"}

-----------------------------------------------------------------------------
(* Which views offer which buttons.                                        *)
LEMMA ViewsOffer ==
  /\ DOMAIN Views = {"waiting", "scanning", "challengeFound", "approvalDetails",
       "authenticationRequired", "verifying", "signing", "approved", "denied", "expired",
       "invalidChallenge", "deviceNotPaired", "connectionError", "verificationError"}
  /\ \A s \in DOMAIN Views :
       /\ "beginScanning" \in Views[s] => s = "waiting"
       /\ "scan" \in Views[s] => s = "scanning"
       /\ "showDetails" \in Views[s] => s = "challengeFound"
       /\ "approve" \in Views[s] \/ "deny" \in Views[s] => s = "approvalDetails"
       /\ "submit" \in Views[s] => s = "authenticationRequired"
       /\ s \in {"verifying", "signing"} => Views[s] = {}
<1> DEFINE First == Joined(CameraViews, ReviewViews)
           Last == Joined(AuthenticationViews, OutcomeViews)
<1>1. /\ DOMAIN CameraViews = {"waiting", "scanning"}
      /\ CameraViews["waiting"] = {"beginScanning"} /\ CameraViews["scanning"] = {"scan"}
  BY DEF CameraViews
<1>2. /\ DOMAIN ReviewViews = {"challengeFound", "approvalDetails"}
      /\ ReviewViews["challengeFound"] = {"showDetails", "reset"}
      /\ ReviewViews["approvalDetails"] = {"approve", "deny", "reset"}
  BY DEF ReviewViews
<1>3. /\ DOMAIN AuthenticationViews = {"authenticationRequired", "verifying", "signing"}
      /\ AuthenticationViews["authenticationRequired"] = {"submit", "reset"}
      /\ AuthenticationViews["verifying"] = {} /\ AuthenticationViews["signing"] = {}
  BY DEF AuthenticationViews
<1>4. /\ DOMAIN OutcomeViews = {"approved", "denied", "expired", "invalidChallenge",
                                "deviceNotPaired", "connectionError", "verificationError"}
      /\ \A s \in DOMAIN OutcomeViews : OutcomeViews[s] = {"reset"}
  BY DEF OutcomeViews
<1>5. /\ DOMAIN First = DOMAIN CameraViews \cup DOMAIN ReviewViews
      /\ \A s \in DOMAIN CameraViews : First[s] = CameraViews[s]
      /\ \A s \in DOMAIN ReviewViews \ DOMAIN CameraViews : First[s] = ReviewViews[s]
  BY DEF Joined
<1>6. /\ DOMAIN Last = DOMAIN AuthenticationViews \cup DOMAIN OutcomeViews
      /\ \A s \in DOMAIN AuthenticationViews : Last[s] = AuthenticationViews[s]
      /\ \A s \in DOMAIN OutcomeViews \ DOMAIN AuthenticationViews : Last[s] = OutcomeViews[s]
  BY DEF Joined
<1>7. Views = Joined(First, Last)
  BY DEF Views
<1> HIDE DEF First, Last
<1>8. /\ DOMAIN Views = DOMAIN First \cup DOMAIN Last
      /\ \A s \in DOMAIN First : Views[s] = First[s]
      /\ \A s \in DOMAIN Last \ DOMAIN First : Views[s] = Last[s]
  BY <1>7 DEF Joined
<1>9. /\ Views["waiting"] = {"beginScanning"} /\ Views["scanning"] = {"scan"}
      /\ Views["challengeFound"] = {"showDetails", "reset"}
      /\ Views["approvalDetails"] = {"approve", "deny", "reset"}
      /\ Views["authenticationRequired"] = {"submit", "reset"}
      /\ Views["verifying"] = {} /\ Views["signing"] = {}
  BY <1>1, <1>2, <1>3, <1>4, <1>5, <1>6, <1>8
<1>10. \A s \in DOMAIN OutcomeViews : Views[s] = {"reset"}
  BY <1>1, <1>2, <1>3, <1>4, <1>5, <1>6, <1>8
<1>11. DOMAIN Views = DOMAIN CameraViews \cup DOMAIN ReviewViews
                      \cup DOMAIN AuthenticationViews \cup DOMAIN OutcomeViews
  BY <1>5, <1>6, <1>8
<1> QED
  BY <1>1, <1>2, <1>3, <1>4, <1>9, <1>10, <1>11

LEMMA PairingViewsOffer ==
  /\ DOMAIN PairingViews = {"waiting", "scanning", "pairingReady", "details", "verifying",
                            "signing", "complete", "failed"}
  /\ \A s \in DOMAIN PairingViews : "confirm" \in PairingViews[s] => s = "details"
<1> DEFINE Last == Joined(ConfirmViews, ProgressViews)
<1>1. /\ DOMAIN WaitingViews = {"waiting", "scanning"}
      /\ \A s \in DOMAIN WaitingViews : "confirm" \notin WaitingViews[s]
  BY DEF WaitingViews
<1>2. /\ DOMAIN ConfirmViews = {"pairingReady", "details"}
      /\ "confirm" \notin ConfirmViews["pairingReady"]
  BY DEF ConfirmViews
<1>3. /\ DOMAIN ProgressViews = {"verifying", "signing", "complete", "failed"}
      /\ \A s \in DOMAIN ProgressViews : "confirm" \notin ProgressViews[s]
  BY DEF ProgressViews
<1>4. /\ DOMAIN Last = DOMAIN ConfirmViews \cup DOMAIN ProgressViews
      /\ \A s \in DOMAIN ConfirmViews : Last[s] = ConfirmViews[s]
      /\ \A s \in DOMAIN ProgressViews \ DOMAIN ConfirmViews : Last[s] = ProgressViews[s]
  BY DEF Joined
<1>5. PairingViews = Joined(WaitingViews, Last)
  BY DEF PairingViews
<1> HIDE DEF Last
<1>6. /\ DOMAIN PairingViews = DOMAIN WaitingViews \cup DOMAIN Last
      /\ \A s \in DOMAIN WaitingViews : PairingViews[s] = WaitingViews[s]
      /\ \A s \in DOMAIN Last \ DOMAIN WaitingViews : PairingViews[s] = Last[s]
  BY <1>5 DEF Joined
<1>7. DOMAIN PairingViews = DOMAIN WaitingViews \cup DOMAIN ConfirmViews \cup DOMAIN ProgressViews
  BY <1>4, <1>6
<1>8. \A s \in DOMAIN PairingViews :
        \/ s \in DOMAIN WaitingViews /\ PairingViews[s] = WaitingViews[s]
        \/ s \in DOMAIN ConfirmViews /\ PairingViews[s] = ConfirmViews[s]
        \/ s \in DOMAIN ProgressViews /\ PairingViews[s] = ProgressViews[s]
  BY <1>4, <1>6
<1> QED
  BY <1>1, <1>2, <1>3, <1>7, <1>8

(* A call is in the step its record has the fields of.                     *)
LEMMA OpShape ==
  ASSUME NEW o \in Ops
  PROVE  /\ o.step = "hostCheck" => o \in HostCheckOps
         /\ o.step \in {"biometric", "vault"} => o \in GateOps
         /\ o.step = "unlock" => o \in UnlockOps
         /\ o.step = "send" => o \in SendOps
         /\ o.step = "sent" => o \in SentOps
         /\ o = Idle <=> o.step = "idle"
         /\ o.step \in {"idle", "hostCheck", "biometric", "vault", "unlock", "send", "sent"}
  BY DEF Ops, Idle, HostCheckOps, GateOps, UnlockOps, SendOps, SentOps

LEMMA CallShape ==
  ASSUME NEW c \in PairingCalls
  PROVE  /\ c.step \in {"camera", "pasted", "cameraRead", "pastedRead", "saved"} => c \in ScanCalls
         /\ c.step = "vault" => c \in VaultCalls
         /\ c.step = "unlock" => c \in UnlockCalls
         /\ c.step = "sent" => c \in SentCalls
         /\ c.step = "save" => c \in SaveCalls
         /\ c = Idle <=> c.step = "idle"
  BY DEF PairingCalls, Idle, ScanCalls, VaultCalls, UnlockCalls, SentCalls, SaveCalls

LEMMA RecordOpens ==
  ASSUME NEW r \in Records \cup {NoKey}, r # NoKey
  PROVE  r \in Records /\ r.key \in Keys /\ r.pin \in Pins \ WeakPins
  BY DEF Records

-----------------------------------------------------------------------------
LEMMA InitInvariant == Init => IInv
<1> SUFFICES ASSUME Init PROVE IInv
  OBVIOUS
<1> USE DEF Init
<1>1. StorageInv
  <2>1. /\ vault = NoKey /\ pinned = NoHost /\ screen = "setup" /\ changing = Idle
        /\ wiping = FALSE /\ generated = 0 /\ registered = {} /\ now = 0
    BY DEF StorageInit
  <2>2. generated \in 0..MaxKeys /\ now \in 0..MaxTime
    BY <2>1, StorageConstants
  <2>3. changing \in Changes
    BY <2>1 DEF Changes
  <2>4. vault \in Records \cup {NoKey} /\ pinned \in Hosts \cup {NoHost}
    BY <2>1
  <2>5. screen \in {"setup", "home"} /\ wiping \in BOOLEAN /\ registered \subseteq Hosts \X Keys
    BY <2>1
  <2>6. StorageTypeOK
    BY <2>2, <2>3, <2>4, <2>5 DEF StorageTypeOK
  <2> QED
    BY <2>1, <2>6 DEF StorageInv
<1>2. PairingInv
  <2>1. calls = [i \in Calls |-> Idle] /\ pairUi = "waiting" /\ offered = NoPairing
    BY DEF PairingInit
  <2>2. Idle \in PairingCalls /\ Idle.step = "idle"
    BY DEF PairingCalls, Idle
  <2>3. calls \in [Calls -> PairingCalls] /\ \A i \in Calls : calls[i].step = "idle"
    BY <2>1, <2>2
  <2> QED
    BY <2>1, <2>3, PairingViewsOffer DEF PairingInv
<1>3. /\ ui = "waiting" /\ shown = NoChallenge /\ pending = "granted" /\ op = Idle
      /\ submits = 0 /\ wire = {} /\ redeemed = {}
  BY DEF ApprovalInit
<1>4. op.step = "idle" /\ op \in Ops
  BY <1>3 DEF Idle, Ops
<1>5. ~Authorizing /\ ~Reviewing
  BY <1>3, <1>4 DEF Authorizing, Reviewing
<1>6. ApprovalTypes
  BY <1>3, <1>4, ViewsOffer, ApprovalConstants DEF ApprovalTypes, Decisions
<1>7. ApprovalInv
  BY <1>3, <1>4, <1>5, <1>6 DEF ApprovalInv, ReviewIsOfPairedHost, SentIsOnTheWire,
     SignsWhatWasReviewed, ApprovedWasAccepted, ApprovalsForPairedHosts
<1> QED
  BY <1>1, <1>2, <1>7 DEF IInv

(* A flow at rest keeps its part of the invariant, whoever gets registered. *)
LEMMA ApprovalStays ==
  ASSUME ApprovalInv, UNCHANGED approvalVars, registered \subseteq registered'
  PROVE  ApprovalInv'
<1>1. \A host : Paired(host) => Paired(host)'
  BY DEF Paired
<1>2. UNCHANGED <<ui, shown, pending, op, submits, wire, redeemed>>
  BY DEF approvalVars
<1>3. (Authorizing' <=> Authorizing) /\ (Reviewing' <=> Reviewing)
  BY <1>2 DEF Authorizing, Reviewing
<1>4. ApprovalTypes' /\ SentIsOnTheWire' /\ SignsWhatWasReviewed' /\ ApprovedWasAccepted'
  BY <1>2, <1>3 DEF ApprovalInv, ApprovalTypes, SentIsOnTheWire, SignsWhatWasReviewed,
     ApprovedWasAccepted
<1>5. ReviewIsOfPairedHost'
  BY <1>1, <1>2, <1>3 DEF ApprovalInv, ReviewIsOfPairedHost
<1>6. ApprovalsForPairedHosts'
  BY <1>2 DEF ApprovalInv, ApprovalsForPairedHosts
<1> QED
  BY <1>4, <1>5, <1>6 DEF ApprovalInv

LEMMA PairingStays ==
  ASSUME PairingInv, UNCHANGED pairingVars, registered \subseteq registered'
  PROVE  PairingInv'
  BY DEF PairingInv, pairingVars

LEMMA StorageNextKeeps ==
  ASSUME StorageInv, StorageNext
  PROVE  StorageInv' /\ registered' = registered
<1>1. ASSUME NEW pin \in Pins, CreateKey(pin)
      PROVE  StorageInv' /\ registered' = registered
  <2>1. vault' \in Records /\ generated' \in 0..MaxKeys
    BY <1>1, StorageConstants DEF CreateKey, StorageInv, StorageTypeOK, Records, Keys
  <2> QED
    BY <1>1, <2>1 DEF CreateKey, StorageInv, StorageTypeOK, Paired
<1>2. ASSUME NEW old \in Pins, NEW new \in Pins, ChangePin(old, new)
      PROVE  StorageInv' /\ registered' = registered
  <2>1. vault.key \in Keys
    BY <1>2, RecordOpens DEF ChangePin, Opens, StorageInv, StorageTypeOK
  <2>2. changing' \in Changes
    BY <1>2, <2>1 DEF ChangePin, Changes
  <2> QED
    BY <1>2, <2>2 DEF ChangePin, StorageInv, StorageTypeOK, Paired
<1>3. CASE ChangePinPersisted
  <2>1. vault' \in Records
    BY <1>3 DEF ChangePinPersisted, StorageInv, StorageTypeOK, Changes, Records, Idle
  <2> QED
    BY <1>3, <2>1 DEF ChangePinPersisted, StorageInv, StorageTypeOK, Paired, Changes
<1>4. CASE Unpair \/ Wipe \/ WipeClearsHost
  BY <1>4 DEF Unpair, Wipe, WipeClearsHost, StorageInv, StorageTypeOK, Paired
<1>5. CASE Tick
  <2>1. now' \in 0..MaxTime
    BY <1>5, StorageConstants DEF Tick, StorageInv, StorageTypeOK
  <2> QED
    BY <1>5, <2>1 DEF Tick, StorageInv, StorageTypeOK, Paired
<1> QED
  BY <1>1, <1>2, <1>3, <1>4, <1>5 DEF StorageNext

-----------------------------------------------------------------------------
(* Every button is on a view that no call is behind.                       *)
LEMMA OfferedAtRest ==
  ASSUME ApprovalInv, NEW button, Offers(button)
  PROVE  op = Idle /\ ~Authorizing
<1>1. ui \in DOMAIN Views /\ ui \notin {"verifying", "signing"}
  BY ViewsOffer DEF ApprovalInv, ApprovalTypes, Offers
<1>2. op = Idle
  BY <1>1 DEF ApprovalInv, ApprovalTypes
<1> QED
  BY <1>2 DEF Authorizing, Idle

(* A call ends, or there is none: the flow shows an outcome or the camera. *)
LEMMA FlowEnds ==
  ASSUME ApprovalInv, op' = Idle,
         ui' \in DOMAIN Views \ {"verifying", "signing", "challengeFound", "approvalDetails",
                                 "authenticationRequired"},
         ui' = "approved" => shown' = shown /\ shown.id \in redeemed,
         shown' \in {shown, NoChallenge}, pending' \in Decisions,
         UNCHANGED <<submits, wire, redeemed, registered>>
  PROVE  ApprovalInv'
<1>1. op'.step = "idle" /\ op' \in Ops
  BY DEF Idle, Ops
<1>2. ~Authorizing' /\ ~Reviewing'
  BY <1>1 DEF Authorizing, Reviewing
<1>3. ApprovalTypes'
  BY <1>1 DEF ApprovalInv, ApprovalTypes
<1>4. ReviewIsOfPairedHost' /\ SentIsOnTheWire' /\ SignsWhatWasReviewed' /\ ApprovedWasAccepted'
  BY <1>1, <1>2 DEF ApprovalInv, ReviewIsOfPairedHost, SentIsOnTheWire, SignsWhatWasReviewed,
     ApprovedWasAccepted
<1>5. ApprovalsForPairedHosts'
  BY DEF ApprovalInv, ApprovalsForPairedHosts
<1> QED
  BY <1>3, <1>4, <1>5 DEF ApprovalInv

(* A challenge of a paired host is put, or stays, under review.            *)
LEMMA ReviewGoesOn ==
  ASSUME ApprovalInv, op' = Idle,
         ui' \in {"challengeFound", "approvalDetails", "authenticationRequired"},
         shown' \in Challenges, shown'.genuine, Paired(shown'.host), pending' \in Decisions,
         UNCHANGED <<submits, wire, redeemed, registered>>
  PROVE  ApprovalInv'
<1>1. op'.step = "idle" /\ op' \in Ops
  BY DEF Idle, Ops
<1>2. ~Authorizing'
  BY <1>1 DEF Authorizing
<1>3. ApprovalTypes'
  BY <1>1, ViewsOffer DEF ApprovalInv, ApprovalTypes
<1>4. ReviewIsOfPairedHost'
  BY <1>1 DEF ReviewIsOfPairedHost, Paired
<1>5. SentIsOnTheWire' /\ SignsWhatWasReviewed' /\ ApprovedWasAccepted'
  BY <1>1, <1>2 DEF ApprovalInv, SentIsOnTheWire, SignsWhatWasReviewed, ApprovedWasAccepted
<1>6. ApprovalsForPairedHosts'
  BY DEF ApprovalInv, ApprovalsForPairedHosts
<1> QED
  BY <1>3, <1>4, <1>5, <1>6 DEF ApprovalInv

(* authorizeAndSubmit() goes from one await to the next, before it sends.  *)
LEMMA AuthorizationGoesOn ==
  ASSUME ApprovalInv, NEW o \in GateOps \cup UnlockOps \cup SendOps, op' = o,
         o.challenge = shown, o.decision = pending, Reviewing,
         ui' \in {"verifying", "signing"}, submits < MaxSubmits,
         UNCHANGED <<shown, pending, submits, wire, redeemed, registered>>
  PROVE  ApprovalInv'
<1>1. /\ o \in Ops /\ o # Idle /\ o.step \notin {"sent", "hostCheck"}
      /\ o.challenge \in Challenges
  BY DEF Ops, GateOps, UnlockOps, SendOps, Idle
<1>2. ApprovalTypes'
  BY <1>1, ViewsOffer DEF ApprovalInv, ApprovalTypes
<1>3. ReviewIsOfPairedHost'
  BY <1>1 DEF ApprovalInv, ReviewIsOfPairedHost, Paired
<1>4. SentIsOnTheWire' /\ SignsWhatWasReviewed' /\ ApprovedWasAccepted'
  BY <1>1 DEF ApprovalInv, SentIsOnTheWire, SignsWhatWasReviewed, ApprovedWasAccepted
<1>5. ApprovalsForPairedHosts'
  BY DEF ApprovalInv, ApprovalsForPairedHosts
<1> QED
  BY <1>2, <1>3, <1>4, <1>5 DEF ApprovalInv

(* What the flow is authorizing.                                           *)
LEMMA InFlight ==
  ASSUME ApprovalInv, op.step \in {"biometric", "vault", "unlock", "send", "sent"}
  PROVE  /\ Reviewing /\ op.challenge = shown /\ op.decision = pending
         /\ shown \in Challenges /\ shown.genuine /\ Paired(shown.host)
         /\ ui \in {"verifying", "signing"}
         /\ op.step # "sent" => submits < MaxSubmits
<1>1. op \in Ops /\ op # Idle
  BY OpShape DEF ApprovalInv, ApprovalTypes
<1>2. Authorizing
  BY DEF Authorizing
<1> QED
  BY <1>1, <1>2 DEF ApprovalInv, ApprovalTypes, ReviewIsOfPairedHost, SignsWhatWasReviewed, Reviewing

-----------------------------------------------------------------------------
LEMMA ButtonsKeep ==
  ASSUME ApprovalInv, UNCHANGED registered,
         \/ BeginScanning \/ ScanOther \/ ShowDetails \/ Reset
         \/ \E decision \in Decisions : RequestAuthentication(decision)
  PROVE  ApprovalInv'
<1>1. CASE BeginScanning
  <2>1. op = Idle
    BY <1>1, OfferedAtRest DEF BeginScanning
  <2> QED
    BY <1>1, <2>1, ViewsOffer, FlowEnds DEF BeginScanning, hostVars, ApprovalInv, ApprovalTypes
<1>2. CASE ScanOther
  BY <1>2, ViewsOffer, FlowEnds DEF ScanOther, hostVars, ApprovalInv, ApprovalTypes
<1>3. CASE Reset
  <2>1. op = Idle
    BY <1>3, OfferedAtRest DEF Reset
  <2> QED
    BY <1>3, <2>1, ViewsOffer, FlowEnds DEF Reset, hostVars, ApprovalInv, ApprovalTypes
<1>4. CASE ShowDetails
  <2>1. op = Idle
    BY <1>4, OfferedAtRest DEF ShowDetails
  <2>2. Reviewing
    BY <1>4, ViewsOffer DEF ShowDetails, Offers, Reviewing, ApprovalInv, ApprovalTypes
  <2>3. shown \in Challenges /\ shown.genuine /\ Paired(shown.host) /\ pending \in Decisions
    BY <2>2 DEF ApprovalInv, ApprovalTypes, ReviewIsOfPairedHost
  <2> QED
    BY <1>4, <2>1, <2>3, ReviewGoesOn DEF ShowDetails, hostVars
<1>5. ASSUME NEW decision \in Decisions, RequestAuthentication(decision)
      PROVE  ApprovalInv'
  <2>1. op = Idle
    BY <1>5, OfferedAtRest DEF RequestAuthentication
  <2>2. Reviewing
    BY <1>5, ViewsOffer DEF RequestAuthentication, Offers, Reviewing, ApprovalInv, ApprovalTypes
  <2>3. shown \in Challenges /\ shown.genuine /\ Paired(shown.host)
    BY <2>2 DEF ApprovalInv, ReviewIsOfPairedHost
  <2> QED
    BY <1>5, <2>1, <2>3, ReviewGoesOn DEF RequestAuthentication, hostVars
<1> QED
  BY <1>1, <1>2, <1>3, <1>4, <1>5

LEMMA ScanKeeps ==
  ASSUME StorageInv, ApprovalInv, UNCHANGED registered, NEW c \in Challenges, Scan(c)
  PROVE  ApprovalInv'
<1>1. CASE pinned = NoHost
  BY <1>1, ViewsOffer, FlowEnds DEF Scan, hostVars, ApprovalInv, ApprovalTypes
<1>2. CASE pinned # NoHost
  <2> DEFINE o == [step |-> "hostCheck", challenge |-> c, trusted |-> pinned]
  <2>1. /\ ui' = "verifying" /\ op' = o /\ Paired(pinned) /\ pinned \in Hosts
        /\ UNCHANGED <<shown, pending, submits, wire, redeemed>>
    BY <1>2 DEF Scan, hostVars, StorageInv, StorageTypeOK
  <2>2. o \in HostCheckOps /\ o.step = "hostCheck" /\ o.trusted = pinned
    BY <2>1 DEF HostCheckOps
  <2> HIDE DEF o
  <2>3. o \in Ops /\ o # Idle
    BY <2>2 DEF Ops, Idle
  <2>4. ~Authorizing' /\ ~Reviewing'
    BY <2>1, <2>2 DEF Authorizing, Reviewing
  <2>5. ApprovalTypes'
    BY <2>1, <2>2, <2>3, ViewsOffer DEF ApprovalInv, ApprovalTypes
  <2>6. ReviewIsOfPairedHost'
    BY <2>1, <2>2, <2>4 DEF ReviewIsOfPairedHost, Paired
  <2>7. SentIsOnTheWire' /\ SignsWhatWasReviewed' /\ ApprovedWasAccepted'
    BY <2>1, <2>2, <2>4 DEF ApprovalInv, SentIsOnTheWire, SignsWhatWasReviewed, ApprovedWasAccepted
  <2>8. ApprovalsForPairedHosts'
    BY <2>1 DEF ApprovalInv, ApprovalsForPairedHosts
  <2> QED
    BY <2>5, <2>6, <2>7, <2>8 DEF ApprovalInv
<1> QED
  BY <1>1, <1>2

LEMMA ScanVerifiedKeeps ==
  ASSUME ApprovalInv, UNCHANGED registered, ScanVerified
  PROVE  ApprovalInv'
<1>1. /\ op.challenge \in Challenges /\ Paired(op.trusted) /\ op' = Idle
      /\ UNCHANGED <<pending, submits, wire, redeemed>> /\ pending \in Decisions
  BY OpShape DEF ScanVerified, hostVars, ApprovalInv, ApprovalTypes, ReviewIsOfPairedHost, HostCheckOps
<1>2. CASE ui' \in {"invalidChallenge", "expired"} /\ UNCHANGED shown
  BY <1>1, <1>2, ViewsOffer, FlowEnds
<1>3. CASE /\ VerifiesHost(op.challenge, op.trusted)
           /\ ui' = "challengeFound" /\ shown' = op.challenge
  BY <1>1, <1>3, ReviewGoesOn DEF VerifiesHost
<1> QED
  BY <1>2, <1>3 DEF ScanVerified

LEMMA SubmitKeeps ==
  ASSUME ApprovalInv, UNCHANGED registered, NEW pin \in Pins, Submit(pin)
  PROVE  ApprovalInv'
<1>1. /\ Reviewing /\ shown \in Challenges /\ shown.genuine /\ Paired(shown.host)
      /\ pending \in Decisions /\ submits < MaxSubmits
      /\ UNCHANGED <<shown, pending, submits, wire, redeemed>>
  BY ViewsOffer DEF Submit, Offers, hostVars, Reviewing, ApprovalInv, ApprovalTypes, ReviewIsOfPairedHost
<1>2. CASE ui' = "expired" /\ UNCHANGED op
  BY <1>1, <1>2, ViewsOffer, FlowEnds DEF Submit
<1>3. ASSUME NEW st \in {"biometric", "vault"}, ui' = "verifying",
             op' = [step |-> st, challenge |-> shown, decision |-> pending, pin |-> pin]
      PROVE  ApprovalInv'
  <2> DEFINE o == [step |-> st, challenge |-> shown, decision |-> pending, pin |-> pin]
  <2>1. o \in GateOps /\ o.challenge = shown /\ o.decision = pending
    BY <1>1 DEF GateOps
  <2>2. op' = o
    BY <1>3
  <2> HIDE DEF o
  <2> QED
    BY <1>1, <1>3, <2>1, <2>2, AuthorizationGoesOn
<1> QED
  BY <1>2, <1>3 DEF Submit

LEMMA BiometricKeeps ==
  ASSUME ApprovalInv, UNCHANGED registered, NEW result, BiometricAnswers(result)
  PROVE  ApprovalInv'
<1>1. /\ Reviewing /\ op.challenge = shown /\ op.decision = pending /\ op \in GateOps
      /\ ui \in {"verifying", "signing"} /\ submits < MaxSubmits
      /\ pending \in Decisions
      /\ UNCHANGED <<shown, pending, submits, wire, redeemed>>
  BY InFlight, OpShape DEF BiometricAnswers, hostVars, ApprovalInv, ApprovalTypes
<1>2. CASE ui' = After(op.decision, "verificationError") /\ op' = Idle
  <2>1. ui' \in {"verificationError", "denied"}
    BY <1>2 DEF After
  <2> QED
    BY <1>1, <1>2, <2>1, ViewsOffer, FlowEnds
<1>3. CASE op' = [op EXCEPT !.step = "vault"] /\ UNCHANGED ui
  <2> DEFINE o == [op EXCEPT !.step = "vault"]
  <2>1. o \in GateOps /\ o.challenge = shown /\ o.decision = pending
    BY <1>1 DEF GateOps
  <2>2. op' = o
    BY <1>3
  <2> HIDE DEF o
  <2> QED
    BY <1>1, <1>3, <2>1, <2>2, AuthorizationGoesOn
<1> QED
  BY <1>2, <1>3 DEF BiometricAnswers

LEMMA ReadVaultKeeps ==
  ASSUME StorageInv, ApprovalInv, UNCHANGED registered, ReadVault
  PROVE  ApprovalInv'
<1>1. /\ Reviewing /\ op.challenge = shown /\ op.decision = pending /\ op \in GateOps
      /\ ui \in {"verifying", "signing"} /\ submits < MaxSubmits
      /\ pending \in Decisions /\ shown \in Challenges
      /\ UNCHANGED <<shown, pending, submits, wire, redeemed>>
  BY InFlight, OpShape DEF ReadVault, hostVars, ApprovalInv, ApprovalTypes
<1>2. CASE vault = NoKey
  BY <1>1, <1>2, ViewsOffer, FlowEnds DEF ReadVault
<1>3. CASE vault # NoKey
  <2> DEFINE o == [step |-> "unlock", challenge |-> op.challenge, decision |-> op.decision,
                   pin |-> op.pin, record |-> vault]
  <2>1. op' = o /\ UNCHANGED ui
    BY <1>3 DEF ReadVault
  <2>2. vault \in Records /\ op.pin \in Pins
    BY <1>1, <1>3 DEF StorageInv, StorageTypeOK, GateOps
  <2>3. o \in UnlockOps /\ o.challenge = shown /\ o.decision = pending
    BY <1>1, <2>2 DEF UnlockOps
  <2> HIDE DEF o
  <2> QED
    BY <1>1, <2>1, <2>3, AuthorizationGoesOn
<1> QED
  BY <1>2, <1>3

LEMMA UnlockedKeeps ==
  ASSUME ApprovalInv, UNCHANGED registered, Unlocked
  PROVE  ApprovalInv'
<1>1. /\ Reviewing /\ op.challenge = shown /\ op.decision = pending /\ op \in UnlockOps
      /\ ui \in {"verifying", "signing"} /\ submits < MaxSubmits
      /\ pending \in Decisions /\ shown \in Challenges
      /\ UNCHANGED <<shown, pending, submits, wire, redeemed>>
  BY InFlight, OpShape DEF Unlocked, hostVars, ApprovalInv, ApprovalTypes
<1>2. CASE ~Opens(op.pin, op.record)
  <2>1. ui' \in {"verificationError", "denied"} /\ op' = Idle
    BY <1>2 DEF Unlocked, After
  <2> QED
    BY <1>1, <2>1, ViewsOffer, FlowEnds
<1>3. CASE Opens(op.pin, op.record)
  <2> DEFINE o == [step |-> "send", challenge |-> op.challenge, decision |-> op.decision,
                   key |-> op.record.key]
  <2>1. op' = o /\ ui' = "signing"
    BY <1>3 DEF Unlocked
  <2>2. op.record.key \in Keys
    BY <1>1 DEF UnlockOps, Records
  <2>3. o \in SendOps /\ o.challenge = shown /\ o.decision = pending
    BY <1>1, <2>2 DEF SendOps
  <2> HIDE DEF o
  <2> QED
    BY <1>1, <2>1, <2>3, AuthorizationGoesOn
<1> QED
  BY <1>2, <1>3

LEMMA SendApprovalKeeps ==
  ASSUME ApprovalInv, UNCHANGED registered, SendApproval
  PROVE  ApprovalInv'
<1> DEFINE m == [number |-> submits + 1, challenge |-> op.challenge, decision |-> op.decision,
                 key |-> op.key]
           o == [step |-> "sent", challenge |-> op.challenge, decision |-> op.decision,
                 number |-> submits + 1, reply |-> "none"]
<1>1. /\ Reviewing /\ op.challenge = shown /\ op.decision = pending /\ op \in SendOps
      /\ ui \in {"verifying", "signing"} /\ submits < MaxSubmits
      /\ pending \in Decisions /\ shown \in Challenges /\ shown.genuine /\ Paired(shown.host)
  BY InFlight, OpShape DEF SendApproval, ApprovalInv, ApprovalTypes
<1>2. /\ submits' = submits + 1 /\ wire' = wire \cup {m} /\ op' = o
      /\ UNCHANGED <<ui, shown, pending, redeemed>>
  BY DEF SendApproval
<1>3. /\ submits \in Nat /\ submits + 1 \in 1..MaxSubmits /\ submits' \in 0..MaxSubmits
  BY <1>1, <1>2, ApprovalConstants DEF ApprovalInv, ApprovalTypes
<1>4. m \in Messages /\ m.number = submits + 1 /\ m.challenge = shown
  BY <1>1, <1>3 DEF SendOps, Messages
<1>5. o \in SentOps /\ o.challenge = shown /\ o.decision = pending /\ o.step = "sent"
      /\ o.number = submits + 1 /\ o.reply = "none"
  BY <1>1, <1>3 DEF SendOps, SentOps, Replies
<1> HIDE DEF m, o
<1>6. o \in Ops /\ o # Idle
  BY <1>5 DEF Ops, Idle
<1>7. ApprovalTypes'
  BY <1>1, <1>2, <1>3, <1>4, <1>5, <1>6 DEF ApprovalInv, ApprovalTypes
<1>8. ReviewIsOfPairedHost'
  BY <1>1, <1>2, <1>5 DEF ReviewIsOfPairedHost, Paired
<1>9. \A x \in wire : x.number <= submits /\ x.number \in Nat
  BY DEF ApprovalInv, ApprovalTypes, SentIsOnTheWire, Messages
<1>10. SentIsOnTheWire'
  BY <1>2, <1>3, <1>4, <1>5, <1>9 DEF SentIsOnTheWire
<1>11. SignsWhatWasReviewed' /\ ApprovedWasAccepted'
  BY <1>1, <1>2, <1>5 DEF SignsWhatWasReviewed, ApprovedWasAccepted
<1>12. ApprovalsForPairedHosts'
  BY <1>1, <1>2, <1>4 DEF ApprovalInv, ApprovalsForPairedHosts, Paired
<1> QED
  BY <1>7, <1>8, <1>10, <1>11, <1>12 DEF ApprovalInv

LEMMA HostReceivesKeeps ==
  ASSUME ApprovalInv, UNCHANGED registered, NEW m \in wire, HostReceives(m)
  PROVE  ApprovalInv'
<1> DEFINE verdict == HostVerdict(m)
<1>1. /\ wire' = wire \ {m}
      /\ redeemed' = IF verdict = "ok" THEN redeemed \cup {m.challenge.id} ELSE redeemed
      /\ op' = IF op.step = "sent" /\ op.number = m.number
               THEN [op EXCEPT !.reply = verdict] ELSE op
      /\ UNCHANGED <<ui, shown, pending, submits>>
  BY DEF HostReceives
<1>2. verdict \in Replies
  BY DEF HostVerdict, Replies
<1> HIDE DEF verdict
<1>3. /\ op' \in Ops /\ op'.step = op.step /\ (op' # Idle <=> op # Idle)
      /\ Authorizing => op'.challenge = op.challenge /\ op'.decision = op.decision
      /\ op.step = "hostCheck" => op'.trusted = op.trusted
      /\ op.step = "sent" => /\ op'.number = op.number
                             /\ op'.reply = IF op.number = m.number THEN verdict ELSE op.reply
  <2>1. CASE op.step = "sent" /\ op.number = m.number
    <3>1. op \in SentOps
      BY <2>1, OpShape DEF ApprovalInv, ApprovalTypes
    <3>2. op' = [op EXCEPT !.reply = verdict]
      BY <1>1, <2>1
    <3>3. op' \in SentOps /\ op'.reply = verdict /\ op'.number = op.number
          /\ op'.challenge = op.challenge /\ op'.decision = op.decision /\ op'.step = "sent"
      BY <1>2, <3>1, <3>2 DEF SentOps
    <3> QED
      BY <2>1, <3>3 DEF Ops, Idle
  <2>2. CASE ~(op.step = "sent" /\ op.number = m.number)
    BY <1>1, <2>2 DEF ApprovalInv, ApprovalTypes
  <2> QED
    BY <2>1, <2>2
<1>4. (Authorizing' <=> Authorizing) /\ (Reviewing' <=> Reviewing)
  BY <1>1, <1>3 DEF Authorizing, Reviewing
<1>5. ApprovalTypes'
  BY <1>1, <1>3 DEF ApprovalInv, ApprovalTypes
<1>6. ReviewIsOfPairedHost'
  BY <1>1, <1>3, <1>4 DEF ApprovalInv, ReviewIsOfPairedHost, Paired
<1>7. SentIsOnTheWire'
  <2>1. \A x \in wire' : x.number <= submits'
    BY <1>1 DEF ApprovalInv, SentIsOnTheWire
  <2>2. ASSUME op.step = "sent"
        PROVE  /\ op'.number <= submits'
               /\ \A x \in wire' : x.number = op'.number => x.challenge = op'.challenge
               /\ op'.reply = "ok" => op'.challenge.id \in redeemed'
    <3>1. op'.challenge = op.challenge /\ op'.number = op.number
      BY <1>3, <2>2 DEF Authorizing
    <3>2. /\ op.number <= submits
          /\ \A x \in wire : x.number = op.number => x.challenge = op.challenge
          /\ op.reply = "ok" => op.challenge.id \in redeemed
      BY <2>2 DEF ApprovalInv, SentIsOnTheWire
    <3> QED
      BY <1>1, <1>3, <2>2, <3>1, <3>2
  <2> QED
    BY <1>3, <2>1, <2>2 DEF SentIsOnTheWire
<1>8. SignsWhatWasReviewed' /\ ApprovedWasAccepted'
  BY <1>1, <1>3, <1>4 DEF ApprovalInv, SignsWhatWasReviewed, ApprovedWasAccepted
<1>9. ApprovalsForPairedHosts'
  BY <1>1 DEF ApprovalInv, ApprovalsForPairedHosts
<1> QED
  BY <1>5, <1>6, <1>7, <1>8, <1>9 DEF ApprovalInv

LEMMA SettleKeeps ==
  ASSUME ApprovalInv, UNCHANGED registered, Settle
  PROVE  ApprovalInv'
<1>1. /\ op.challenge = shown /\ op.decision = pending /\ op \in SentOps
      /\ pending \in Decisions /\ UNCHANGED <<shown, pending, submits, wire, redeemed>>
      /\ op' = Idle
      /\ op.reply = "ok" => shown.id \in redeemed
  BY InFlight, OpShape DEF Settle, hostVars, ApprovalInv, ApprovalTypes, SentIsOnTheWire
<1>2. PICK reply \in {op.reply, "transport"} \ {"none"} :
        ui' = After(op.decision, ViewFor(reply))
  BY DEF Settle
<1>3. ui' \in {"approved", "connectionError", "verificationError", "denied"}
      /\ (ui' = "approved" => reply = "ok")
  BY <1>2 DEF After, ViewFor
<1>4. ui' = "approved" => shown.id \in redeemed
  BY <1>1, <1>2, <1>3
<1> QED
  BY <1>1, <1>3, <1>4, ViewsOffer, FlowEnds

LEMMA ApprovalNextKeeps ==
  ASSUME StorageInv, ApprovalInv, UNCHANGED storageVars, ApprovalNext
  PROVE  ApprovalInv'
<1>1. UNCHANGED registered
  BY DEF storageVars
<1>2. CASE \E id \in ChallengeIds : HostTimesOut(id)
  BY <1>1, <1>2 DEF HostTimesOut, ApprovalInv, ApprovalTypes, ReviewIsOfPairedHost, Reviewing,
     Authorizing, Paired, SentIsOnTheWire, SignsWhatWasReviewed, ApprovedWasAccepted,
     ApprovalsForPairedHosts
<1> QED
  BY <1>1, <1>2, ButtonsKeep, ScanKeeps, ScanVerifiedKeeps, SubmitKeeps, BiometricKeeps,
     ReadVaultKeeps, UnlockedKeeps, SendApprovalKeeps, HostReceivesKeeps, SettleKeeps
  DEF ApprovalNext

-----------------------------------------------------------------------------
(* One call of the pairing flow becomes c, and nobody loses a registration. *)
LEMMA CallGoes ==
  ASSUME PairingInv, NEW i \in Calls, NEW c \in PairingCalls, Goes(i, c),
         pairUi' \in DOMAIN PairingViews, offered' \in Pairings \cup {NoPairing},
         pairUi' = "details" => offered' # NoPairing,
         registered \subseteq registered',
         c.step = "save" \/ (c.step = "sent" /\ c.accepted)
           => <<c.pairing.host, c.key>> \in registered'
  PROVE  PairingInv'
<1>1. calls' = [calls EXCEPT ![i] = c]
  BY DEF Goes
<1>2. calls' \in [Calls -> PairingCalls] /\ calls'[i] = c
      /\ \A j \in Calls : j # i => calls'[j] = calls[j]
  BY <1>1 DEF PairingInv
<1> QED
  BY <1>2 DEF PairingInv

LEMMA FailsKeeps ==
  ASSUME PairingInv, NEW i \in Calls, Fails(i), UNCHANGED <<offered, registered>>
  PROVE  PairingInv'
<1>1. Idle \in PairingCalls /\ Idle.step = "idle"
  BY DEF PairingCalls, Idle
<1>2. Goes(i, Idle) /\ pairUi' = "failed"
  BY DEF Fails, Goes
<1> QED
  BY <1>1, <1>2, PairingViewsOffer, CallGoes DEF PairingInv

LEMMA PairingScreensKeep ==
  ASSUME PairingInv, UNCHANGED registered,
         BeginPairingScan \/ ScanOtherPairing \/ ShowPairing \/ ResetPairing
  PROVE  PairingInv'
  BY PairingViewsOffer DEF BeginPairingScan, ScanOtherPairing, ShowPairing, ResetPairing, PairingInv

LEMMA PairingScansKeep ==
  ASSUME PairingInv, UNCHANGED registered, NEW i \in Calls,
         \/ \E p \in Pairings : ScanPairing(i, p)
         \/ PairingVerified(i) \/ PairingRead(i)
  PROVE  PairingInv'
<1>1. ASSUME NEW p \in Pairings, ScanPairing(i, p)
      PROVE  PairingInv'
  <2>1. PICK st \in {"camera", "pasted"} : Goes(i, [step |-> st, pairing |-> p])
    BY <1>1 DEF ScanPairing
  <2> DEFINE c == [step |-> st, pairing |-> p]
  <2>2. c \in ScanCalls /\ c.step \notin {"save", "sent"}
    BY DEF ScanCalls
  <2>3. c \in PairingCalls
    BY <2>2 DEF PairingCalls
  <2>4. Goes(i, c)
    BY <2>1
  <2> HIDE DEF c
  <2> QED
    BY <1>1, <2>2, <2>3, <2>4, CallGoes DEF ScanPairing, PairingInv
<1>2. CASE PairingVerified(i)
  <2>1. calls[i] \in ScanCalls /\ calls[i].pairing \in Pairings
    BY <1>2, CallShape DEF PairingVerified, PairingInv, ScanCalls
  <2>2. CASE Fails(i)
    BY <1>2, <2>2, FailsKeeps DEF PairingVerified
  <2>3. ASSUME NEW st \in {"cameraRead", "pastedRead"}, UNCHANGED pairUi,
               Goes(i, [step |-> st, pairing |-> calls[i].pairing])
        PROVE  PairingInv'
    <3> DEFINE c == [step |-> st, pairing |-> calls[i].pairing]
    <3>1. c \in ScanCalls /\ c.step \notin {"save", "sent"}
      BY <2>1 DEF ScanCalls
    <3>2. c \in PairingCalls
      BY <3>1 DEF PairingCalls
    <3>3. Goes(i, c)
      BY <2>3
    <3> HIDE DEF c
    <3> QED
      BY <1>2, <2>3, <3>1, <3>2, <3>3, CallGoes DEF PairingVerified, PairingInv
  <2> QED
    BY <1>2, <2>2, <2>3 DEF PairingVerified
<1>3. CASE PairingRead(i)
  <2>1. calls[i].pairing \in Pairings
    BY <1>3, CallShape DEF PairingRead, PairingInv, ScanCalls
  <2>2. CASE Fails(i) /\ UNCHANGED offered
    BY <2>2, FailsKeeps
  <2>3. CASE /\ offered' = calls[i].pairing /\ pairUi' = "pairingReady" /\ Goes(i, Idle)
    <3>1. Idle \in PairingCalls /\ Idle.step = "idle"
      BY DEF PairingCalls, Idle
    <3> QED
      BY <2>1, <2>3, <3>1, PairingViewsOffer, CallGoes
  <2> QED
    BY <1>3, <2>2, <2>3 DEF PairingRead
<1> QED
  BY <1>1, <1>2, <1>3

LEMMA PairingCompletionsKeep ==
  ASSUME StorageInv, PairingInv, UNCHANGED registered, NEW i \in Calls,
         \/ \E pin \in Pins : Confirm(i, pin)
         \/ PairingReadsVault(i) \/ PairingUnlocked(i) \/ PairingSettles(i) \/ PairingCompletes(i)
  PROVE  PairingInv'
<1>1. ASSUME NEW pin \in Pins, Confirm(i, pin)
      PROVE  PairingInv'
  <2>1. pairUi = "details" /\ offered \in Pairings
    BY <1>1, PairingViewsOffer DEF Confirm, PairOffers, PairingInv
  <2> DEFINE c == [step |-> "vault", pairing |-> offered, pin |-> pin]
  <2>2. c \in VaultCalls /\ c.step \notin {"save", "sent"}
    BY <2>1 DEF VaultCalls
  <2>3. c \in PairingCalls /\ Goes(i, c) /\ pairUi' = "verifying" /\ UNCHANGED offered
    BY <1>1, <2>2 DEF PairingCalls, Confirm
  <2> HIDE DEF c
  <2> QED
    BY <2>1, <2>2, <2>3, PairingViewsOffer, CallGoes
<1>2. CASE PairingReadsVault(i)
  <2>1. calls[i] \in VaultCalls /\ UNCHANGED offered
    BY <1>2, CallShape DEF PairingReadsVault, PairingInv
  <2>2. CASE Fails(i)
    BY <2>1, <2>2, FailsKeeps
  <2>3. CASE vault # NoKey
    <3> DEFINE c == [step |-> "unlock", pairing |-> calls[i].pairing,
                     pin |-> calls[i].pin, record |-> vault]
    <3>1. vault \in Records
      BY <2>3 DEF StorageInv, StorageTypeOK
    <3>2. c \in UnlockCalls /\ c.step \notin {"save", "sent"}
      BY <2>1, <3>1 DEF VaultCalls, UnlockCalls
    <3>3. c \in PairingCalls /\ Goes(i, c) /\ UNCHANGED pairUi
      BY <1>2, <2>3, <3>2 DEF PairingCalls, PairingReadsVault
    <3> HIDE DEF c
    <3> QED
      BY <2>1, <3>2, <3>3, CallGoes DEF PairingInv
  <2> QED
    BY <1>2, <2>2, <2>3 DEF PairingReadsVault
<1>3. CASE PairingUnlocked(i)
  <2>1. calls[i] \in UnlockCalls /\ UNCHANGED offered
    BY <1>3, CallShape DEF PairingUnlocked, PairingInv
  <2>2. CASE Fails(i)
    BY <2>1, <2>2, FailsKeeps
  <2>3. CASE /\ pairUi' = "signing"
             /\ Goes(i, [step |-> "sent", pairing |-> calls[i].pairing,
                         key |-> calls[i].record.key, accepted |-> FALSE])
    <3> DEFINE c == [step |-> "sent", pairing |-> calls[i].pairing,
                     key |-> calls[i].record.key, accepted |-> FALSE]
    <3>1. c \in SentCalls /\ c.step = "sent" /\ ~c.accepted
      BY <2>1 DEF UnlockCalls, SentCalls, Records
    <3>2. c \in PairingCalls /\ Goes(i, c)
      BY <2>3, <3>1 DEF PairingCalls
    <3> HIDE DEF c
    <3> QED
      BY <2>1, <2>3, <3>1, <3>2, PairingViewsOffer, CallGoes DEF PairingInv
  <2> QED
    BY <1>3, <2>2, <2>3 DEF PairingUnlocked
<1>4. CASE PairingSettles(i)
  <2>1. calls[i] \in SentCalls /\ calls[i].step = "sent" /\ UNCHANGED offered
    BY <1>4, CallShape DEF PairingSettles, PairingInv
  <2>2. CASE Fails(i)
    BY <2>1, <2>2, FailsKeeps
  <2>3. CASE /\ calls[i].accepted /\ UNCHANGED pairUi
             /\ Goes(i, [step |-> "save", pairing |-> calls[i].pairing, key |-> calls[i].key])
    <3> DEFINE c == [step |-> "save", pairing |-> calls[i].pairing, key |-> calls[i].key]
    <3>1. c \in SaveCalls /\ <<c.pairing.host, c.key>> \in registered
      BY <2>1, <2>3 DEF SentCalls, SaveCalls, PairingInv
    <3>2. c \in PairingCalls /\ Goes(i, c) /\ c.step = "save"
      BY <2>3, <3>1 DEF PairingCalls
    <3> HIDE DEF c
    <3> QED
      BY <2>1, <2>3, <3>1, <3>2, CallGoes DEF PairingInv
  <2> QED
    BY <1>4, <2>2, <2>3 DEF PairingSettles
<1>5. CASE PairingCompletes(i)
  <2>1. Idle \in PairingCalls /\ Idle.step = "idle"
    BY DEF PairingCalls, Idle
  <2> QED
    BY <1>5, <2>1, PairingViewsOffer, CallGoes DEF PairingCompletes, PairingInv
<1> QED
  BY <1>1, <1>2, <1>3, <1>4, <1>5

LEMMA PairingNextKeeps ==
  ASSUME StorageInv, PairingInv, UNCHANGED storageVars, PairingNext
  PROVE  PairingInv'
<1>1. UNCHANGED registered
  BY DEF storageVars
<1> QED
  BY <1>1, PairingScreensKeep, PairingScansKeep, PairingCompletionsKeep DEF PairingNext

(* The two steps of a completion on the storage.                           *)
LEMMA PairingStoresKeeps ==
  ASSUME StorageInv, PairingInv, PairingStores
  PROVE  StorageInv' /\ PairingInv' /\ registered \subseteq registered'
<1>1. ASSUME NEW i \in Calls, HostPairs(i)
      PROVE  StorageInv' /\ PairingInv' /\ registered \subseteq registered'
  <2> DEFINE c == [calls[i] EXCEPT !.accepted = TRUE]
  <2>1. calls[i] \in SentCalls /\ calls[i].step = "sent"
    BY <1>1, CallShape DEF HostPairs, PairingInv
  <2>2. /\ c \in SentCalls /\ c.step = "sent" /\ c.pairing = calls[i].pairing /\ c.key = calls[i].key
    BY <2>1 DEF SentCalls
  <2>3. calls[i].pairing.host \in Hosts /\ calls[i].key \in Keys
    BY <2>1, PairingConstants DEF SentCalls
  <2>4. /\ registered' = registered \cup {<<calls[i].pairing.host, calls[i].key>>}
        /\ Goes(i, c) /\ UNCHANGED <<pairUi, offered>>
        /\ UNCHANGED <<vault, pinned, screen, changing, wiping, generated, now>>
    BY <1>1 DEF HostPairs
  <2> HIDE DEF c
  <2>5. StorageInv'
    BY <2>3, <2>4 DEF StorageInv, StorageTypeOK, Paired
  <2>6. c \in PairingCalls
    BY <2>2 DEF PairingCalls
  <2>7. PairingInv'
    BY <2>2, <2>4, <2>6, CallGoes DEF PairingInv
  <2> QED
    BY <2>4, <2>5, <2>7
<1>2. ASSUME NEW i \in Calls, SavePaired(i)
      PROVE  StorageInv' /\ PairingInv' /\ registered \subseteq registered'
  <2> DEFINE c == [step |-> "saved", pairing |-> calls[i].pairing]
  <2>1. /\ calls[i] \in SaveCalls
        /\ <<calls[i].pairing.host, calls[i].key>> \in registered
    BY <1>2, CallShape DEF SavePaired, PairingInv
  <2>2. c \in ScanCalls /\ c.step = "saved" /\ calls[i].pairing.host \in Hosts /\ calls[i].key \in Keys
    BY <2>1, PairingConstants DEF SaveCalls, ScanCalls
  <2>3. /\ pinned' = calls[i].pairing.host /\ Goes(i, c) /\ UNCHANGED <<pairUi, offered>>
        /\ UNCHANGED <<vault, screen, changing, wiping, generated, registered, now>>
    BY <1>2 DEF SavePaired
  <2> HIDE DEF c
  <2>4. StorageInv'
    BY <2>1, <2>2, <2>3 DEF StorageInv, StorageTypeOK, Paired
  <2>5. c \in PairingCalls
    BY <2>2 DEF PairingCalls
  <2>6. PairingInv'
    BY <2>2, <2>3, <2>5, CallGoes DEF PairingInv
  <2> QED
    BY <2>3, <2>4, <2>6
<1> QED
  BY <1>1, <1>2 DEF PairingStores

-----------------------------------------------------------------------------
LEMMA RestartKeeps ==
  ASSUME IInv, Restart, UNCHANGED flow
  PROVE  IInv'
<1>1. StorageInv' /\ UNCHANGED registered
  BY DEF IInv, Restart, StorageRestart, StorageInv, StorageTypeOK, Changes, Paired
<1>2. ApprovalInv'
  <2>1. /\ ui' = "waiting" /\ shown' = NoChallenge /\ pending' = "granted" /\ op' = Idle
        /\ UNCHANGED <<submits, wire, redeemed>>
    BY DEF Restart, ApprovalRestart, hostVars
  <2> QED
    BY <1>1, <2>1, ViewsOffer, FlowEnds DEF IInv, Decisions
<1>3. PairingInv'
  <2>1. /\ pairUi' = "waiting" /\ offered' = NoPairing /\ calls' = [i \in Calls |-> Idle]
    BY DEF Restart, PairingRestart
  <2>2. Idle \in PairingCalls /\ Idle.step = "idle"
    BY DEF PairingCalls, Idle
  <2>3. calls' \in [Calls -> PairingCalls] /\ \A i \in Calls : calls'[i].step = "idle"
    BY <2>1, <2>2
  <2> QED
    BY <2>1, <2>3, PairingViewsOffer DEF PairingInv
<1> QED
  BY <1>1, <1>2, <1>3 DEF IInv

LEMMA StepInvariant == IInv /\ [Next]_vars => IInv'
<1> SUFFICES ASSUME IInv, [Next]_vars PROVE IInv'
  OBVIOUS
<1> USE DEF IInv
<1>1. CASE UNCHANGED vars
  <2>1. UNCHANGED <<storageVars, approvalVars, pairingVars, flow>>
    BY <1>1 DEF vars
  <2>2. StorageInv' /\ UNCHANGED registered
    BY <2>1 DEF storageVars, StorageInv, StorageTypeOK, Paired
  <2> QED
    BY <2>1, <2>2, ApprovalStays, PairingStays
<1>2. CASE StorageNext /\ UNCHANGED <<approvalVars, pairingVars, flow>>
  BY <1>2, StorageNextKeeps, ApprovalStays, PairingStays
<1>3. CASE ApprovalNext /\ UNCHANGED <<storageVars, pairingVars, flow>>
  <2>1. StorageInv' /\ UNCHANGED registered
    BY <1>3 DEF storageVars, StorageInv, StorageTypeOK, Paired
  <2> QED
    BY <1>3, <2>1, ApprovalNextKeeps, PairingStays
<1>4. CASE HostAcceptsDevice /\ UNCHANGED <<approvalVars, pairingVars, flow>>
  <2>1. PICK host \in Hosts, key \in 1..generated : registered' = registered \cup {<<host, key>>}
    BY <1>4 DEF HostAcceptsDevice
  <2>2. key \in Keys
    BY StorageConstants DEF StorageInv, StorageTypeOK, Keys
  <2>3. StorageInv' /\ registered \subseteq registered'
    BY <1>4, <2>1, <2>2 DEF HostAcceptsDevice, StorageInv, StorageTypeOK, Paired
  <2> QED
    BY <1>4, <2>3, ApprovalStays, PairingStays
<1>5. CASE AcceptingHostPinned /\ UNCHANGED <<approvalVars, pairingVars, flow>>
  <2>1. PICK r \in registered : pinned' = r[1]
    BY <1>5 DEF AcceptingHostPinned
  <2>2. r[1] \in Hosts /\ Paired(r[1]) /\ UNCHANGED registered
    BY <1>5 DEF AcceptingHostPinned, StorageInv, StorageTypeOK, Paired
  <2>3. StorageInv'
    BY <1>5, <2>1, <2>2 DEF AcceptingHostPinned, StorageInv, StorageTypeOK, Paired
  <2> QED
    BY <1>5, <2>2, <2>3, ApprovalStays, PairingStays
<1>6. CASE PairingNext /\ UNCHANGED <<storageVars, approvalVars, flow>>
  <2>1. StorageInv' /\ UNCHANGED registered
    BY <1>6 DEF storageVars, StorageInv, StorageTypeOK, Paired
  <2> QED
    BY <1>6, <2>1, PairingNextKeeps, ApprovalStays
<1>7. CASE PairingStores /\ UNCHANGED <<approvalVars, flow>>
  BY <1>7, PairingStoresKeeps, ApprovalStays
<1>8. CASE Restart /\ UNCHANGED flow
  BY <1>8, RestartKeeps
<1> QED
  BY <1>1, <1>2, <1>3, <1>4, <1>5, <1>6, <1>7, <1>8 DEF Next

(* What the results below follow from, in every state of the app           *)
(* (apps/rtq-mobile/lib).                                                  *)
THEOREM Invariance == Spec => []IInv
  BY InitInvariant, StepInvariant, PTL DEF Spec

(* The app keeps its types, and shows a progress view exactly while a call *)
(* of the approval flow is in flight (approval_controller.dart).           *)
THEOREM TypeCorrect == Spec => []TypeOK
<1>1. IInv => TypeOK
  BY DEF IInv, StorageInv, PairingInv, ApprovalInv, ApprovalTypes, TypeOK
<1> QED
  BY <1>1, Invariance, PTL

(* What authorizeAndSubmit() authorizes, signs and sends is what the user  *)
(* reviewed and decided, whatever else runs on the device meanwhile.       *)
THEOREM SignsTheReviewed == Spec => []SignsWhatWasReviewed
<1>1. IInv => SignsWhatWasReviewed
  BY DEF IInv, ApprovalInv
<1> QED
  BY <1>1, Invariance, PTL

(* The approved view is shown only when a host has verified an approval of *)
(* the challenge on it, for any number of approvals, answers and hosts.    *)
THEOREM ApprovedIsAccepted == Spec => []ApprovedWasAccepted
<1>1. IInv => ApprovedWasAccepted
  BY DEF IInv, ApprovalInv
<1> QED
  BY <1>1, Invariance, PTL

(* Whatever is on its way to a host answers a challenge that a host this   *)
(* device has paired with has signed.                                      *)
THEOREM ApprovalsAreForPairedHosts == Spec => []ApprovalsForPairedHosts
<1>1. IInv => ApprovalsForPairedHosts
  BY DEF IInv, ApprovalInv
<1> QED
  BY <1>1, Invariance, PTL

(* PairingStore.save() is reached only with a host whose pairing was       *)
(* completed and accepted, for any number of overlapping calls             *)
(* (pairing_controller.dart).                                              *)
THEOREM PinsConfirmedHosts == Spec => PinsOnlyConfirmedHost
<1> DEFINE Step == flow = "pairing" /\ pinned' \notin {pinned, NoHost}
                     => \E i \in Calls : /\ calls[i].step = "save"
                                         /\ calls[i].pairing.host = pinned'
                                         /\ <<pinned', calls[i].key>> \in registered
<1>1. IInv /\ [Next]_vars => [Step]_vars
  <2> SUFFICES ASSUME IInv, Next, flow = "pairing", pinned' \notin {pinned, NoHost}
               PROVE  \E i \in Calls : /\ calls[i].step = "save"
                                       /\ calls[i].pairing.host = pinned'
                                       /\ <<pinned', calls[i].key>> \in registered
    OBVIOUS
  <2>1. ~StorageNext /\ ~Restart /\ ~UNCHANGED storageVars
    BY DEF StorageNext, CreateKey, ChangePin, ChangePinPersisted, Unpair, Wipe, WipeClearsHost,
           Tick, Restart, StorageRestart, storageVars
  <2>2. PICK i \in Calls : HostPairs(i) \/ SavePaired(i)
    BY <2>1 DEF Next, PairingStores
  <2>3. SavePaired(i)
    BY <2>2 DEF HostPairs
  <2>4. calls[i].step = "save" /\ pinned' = calls[i].pairing.host
    BY <2>3 DEF SavePaired
  <2>5. <<calls[i].pairing.host, calls[i].key>> \in registered
    BY <2>4 DEF IInv, PairingInv
  <2> QED
    BY <2>4, <2>5
<1>2. PinsOnlyConfirmedHost <=> [][Step]_vars
  BY PTL DEF PinsOnlyConfirmedHost
<1> HIDE DEF Step
<1>3. []IInv /\ [][Next]_vars => [][Step]_vars
  BY <1>1, PTL
<1> QED
  BY <1>2, <1>3, Invariance, PTL DEF Spec
=============================================================================
