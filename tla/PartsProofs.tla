---------------------------- MODULE PartsProofs ----------------------------
(***************************************************************************)
(* Components with a small state of their own, each for every value of its *)
(* constants: an MCP connection, whose request table holds exactly what is *)
(* unanswered and whose results are answers to their requests; pairing,    *)
(* where a completed pairing is closed and a revoked device kept out; the  *)
(* decisions of the risk and policy engines and of the gateway's policy;   *)
(* the sandbox, which under Seatbelt and bubblewrap never falls back and   *)
(* confines as it was granted; the credential vault, where revocations     *)
(* reach and purges do not show; and the texts on the wire, which are      *)
(* taken only as they were signed.                                         *)
(***************************************************************************)
EXTENDS McpConnection, CredentialVault, Pairing, RiskPolicy, McpPolicy, Sandbox, WireProtocol,
        FiniteSetTheorems, SequenceTheorems, WellFoundedInduction, TLAPS

-----------------------------------------------------------------------------
(* Connections (McpConnection).                                            *)

(* What can be on the server's output.                                     *)
Written == {Garbled, Notification, Result(Stray)}
             \cup UNION {{Result(i), Failure(i), Ambiguous(i)} : i \in RequestIds}

Types ==
  /\ issued \in 0..MaxRequests
  /\ DOMAIN outcome = RequestIds
  /\ received \subseteq 1..issued
  /\ output \in Seq(Written)

(* What was not asked has no outcome.                                      *)
UnaskedIsUnsettled == \A i \in RequestIds : i > issued => outcome[i] = "none"

(* A line that can settle a request is an answer the server gave it.       *)
LinesAreAnswers ==
  \A k \in 1..Len(output) :
    Parse(output[k]) = "response" /\ output[k].number \in RequestIds =>
      output[k].number \in received \cap answered

ConnectionInv ==
  Types /\ UnaskedIsUnsettled /\ LinesAreAnswers /\ PendingIsUnsettled /\ ResultIsOwn

-----------------------------------------------------------------------------
LEMMA ConnectionInitInvariant == ConnectionInit => ConnectionInv
  BY ConnectionConstants DEF ConnectionInit, ConnectionInv, Types, UnaskedIsUnsettled,
     LinesAreAnswers, PendingIsUnsettled, ResultIsOwn, RequestIds

(* Settling requests that were issued keeps the timers to those without an *)
(* outcome; a "result" needs an answer of the request's own.               *)
LEMMA SettleEffect ==
  ASSUME ConnectionInv, NEW ids \in SUBSET (1..issued), NEW how, how # "none", Settle(ids, how),
         UNCHANGED issued, received \subseteq received', answered \subseteq answered',
         how = "result" => ids \subseteq received' \cap answered'
  PROVE  /\ DOMAIN outcome' = RequestIds
         /\ UnaskedIsUnsettled' /\ ResultIsOwn'
         /\ timers' = {i \in 1..issued : outcome'[i] = "none"}
<1>1. /\ outcome' = [i \in RequestIds |->
                       IF i \in ids /\ outcome[i] = "none" THEN how ELSE outcome[i]]
      /\ timers' = timers \ ids
  BY DEF Settle, Settled
<1>2. 1..issued \subseteq RequestIds
  BY ConnectionConstants DEF ConnectionInv, Types, RequestIds
<1>3. UnaskedIsUnsettled'
  BY <1>1, ConnectionConstants DEF ConnectionInv, Types, UnaskedIsUnsettled, RequestIds
<1>4. ResultIsOwn'
  BY <1>1 DEF ConnectionInv, ResultIsOwn
<1>5. timers' = {i \in 1..issued : outcome'[i] = "none"}
  BY <1>1, <1>2 DEF ConnectionInv, PendingIsUnsettled
<1> QED
  BY <1>1, <1>3, <1>4, <1>5

LEMMA RequestInvariant ==
  ASSUME ConnectionInv, NEW aborted \in BOOLEAN, Request(aborted)
  PROVE  ConnectionInv'
<1> DEFINE n == issued + 1
<1>1. /\ issued < MaxRequests /\ issued' = n
      /\ UNCHANGED <<transport, link, answered, output>>
  BY DEF Request
<1>2. /\ issued \in Nat /\ n \in RequestIds /\ n \in 1..n /\ n \notin 1..issued
      /\ 1..n = (1..issued) \cup {n} /\ 1..n \subseteq RequestIds
      /\ n \in 0..MaxRequests
  BY <1>1, ConnectionConstants DEF ConnectionInv, Types, RequestIds
<1>3. outcome[n] = "none"
  BY <1>2 DEF ConnectionInv, UnaskedIsUnsettled
<1>4. /\ received \subseteq received' /\ received' \subseteq received \cup {n}
      /\ \/ /\ outcome' \in {Settled({n}, "refused"), Settled({n}, "aborted")}
            /\ UNCHANGED <<pending, timers>>
         \/ /\ timers' = timers \cup {n}
            /\ pending' = IF transport = "stdio" THEN pending \cup {n} ELSE pending
            /\ UNCHANGED outcome
  BY <1>1 DEF Request
<1> HIDE DEF n
<1>5. /\ DOMAIN outcome' = RequestIds
      /\ \A i \in RequestIds : i # n => outcome'[i] = outcome[i]
      /\ outcome'[n] # "result"
  BY <1>2, <1>3, <1>4 DEF Settled, ConnectionInv, Types
<1>6. timers' = {i \in 1..n : outcome'[i] = "none"}
  <2>1. timers = {i \in 1..issued : outcome[i] = "none"}
    BY DEF ConnectionInv, PendingIsUnsettled
  <2>2. CASE UNCHANGED timers /\ outcome' \in {Settled({n}, "refused"), Settled({n}, "aborted")}
    <3>1. outcome'[n] # "none"
      BY <1>2, <1>3, <2>2 DEF Settled
    <3> QED
      BY <1>2, <1>5, <2>1, <2>2, <3>1
  <2>3. CASE timers' = timers \cup {n} /\ UNCHANGED outcome
    BY <1>2, <1>3, <2>1, <2>3
  <2> QED
    BY <1>4, <2>2, <2>3
<1>7. pending' = IF transport = "stdio" THEN timers' ELSE {}
  BY <1>4 DEF ConnectionInv, PendingIsUnsettled
<1>8. UnaskedIsUnsettled'
  <2> SUFFICES ASSUME NEW i \in RequestIds, i > n PROVE outcome'[i] = "none"
    BY <1>1 DEF UnaskedIsUnsettled
  <2>1. i > issued /\ i # n
    BY <1>2 DEF n, RequestIds
  <2> QED
    BY <1>5, <2>1 DEF ConnectionInv, UnaskedIsUnsettled
<1>9. ResultIsOwn'
  BY <1>1, <1>4, <1>5 DEF ConnectionInv, ResultIsOwn
<1>10. LinesAreAnswers'
  BY <1>1, <1>4 DEF ConnectionInv, LinesAreAnswers
<1>11. Types'
  BY <1>1, <1>2, <1>4, <1>5 DEF ConnectionInv, Types
<1> QED
  BY <1>1, <1>6, <1>7, <1>8, <1>9, <1>10, <1>11 DEF ConnectionInv, PendingIsUnsettled

(* The ways a request ends that do not come from the server.               *)
LEMMA EndsInvariant ==
  ASSUME ConnectionInv, NEW i \in RequestIds, TimesOut(i) \/ Aborted(i) \/ WriteFails(i)
  PROVE  ConnectionInv'
<1>1. \E how \in {"timeout", "aborted", "writeError"} : Settle({i}, how)
  BY DEF TimesOut, Aborted, WriteFails
<1>2. pending' = pending \ {i} /\ UNCHANGED <<transport, issued, received, answered, output>>
  BY DEF TimesOut, Aborted, WriteFails
<1>3. timers' = timers \ {i}
  BY <1>1 DEF Settle
<1>4. i \in timers
  BY DEF TimesOut, Aborted, WriteFails, ConnectionInv, PendingIsUnsettled
<1>5. {i} \in SUBSET (1..issued)
  BY <1>4 DEF ConnectionInv, PendingIsUnsettled
<1>6. /\ DOMAIN outcome' = RequestIds
      /\ UnaskedIsUnsettled' /\ ResultIsOwn'
      /\ timers' = {j \in 1..issued : outcome'[j] = "none"}
  BY <1>1, <1>2, <1>5, SettleEffect
<1>7. pending' = IF transport' = "stdio" THEN timers' ELSE {}
  BY <1>2, <1>3 DEF ConnectionInv, PendingIsUnsettled
<1> QED
  BY <1>2, <1>6, <1>7 DEF ConnectionInv, Types, LinesAreAnswers, PendingIsUnsettled

LEMMA ServerWritesInvariant ==
  ASSUME ConnectionInv, NEW message \in ServerMessages, ServerWrites(message)
  PROVE  ConnectionInv'
<1>1. /\ output' = Append(output, message)
      /\ answered' = IF Parse(message) = "response" THEN answered \cup {message.number} ELSE answered
      /\ UNCHANGED <<transport, link, issued, pending, timers, outcome, received>>
  BY DEF ServerWrites
<1>2. received \subseteq RequestIds
  BY ConnectionConstants DEF ConnectionInv, Types, RequestIds
<1>3. message \in Written
  BY <1>2 DEF ServerMessages, Written
<1>4. message.number \in received \cup {Stray}
  BY DEF ServerMessages, Result, Failure, Ambiguous, Notification, Garbled, Message
<1>5. Stray \notin RequestIds
  BY DEF Stray, RequestIds
<1>6. /\ output \in Seq(Written) /\ output' \in Seq(Written)
      /\ Len(output') = Len(output) + 1 /\ output'[Len(output) + 1] = message
      /\ \A k \in 1..Len(output) : output'[k] = output[k]
  BY <1>1, <1>3 DEF ConnectionInv, Types
<1>7. LinesAreAnswers'
  <2> SUFFICES ASSUME NEW k \in 1..Len(output'), Parse(output'[k]) = "response",
                      output'[k].number \in RequestIds
               PROVE  output'[k].number \in received' \cap answered'
    BY DEF LinesAreAnswers, Parse
  <2>1. CASE k \in 1..Len(output)
    BY <1>1, <1>6, <2>1 DEF ConnectionInv, LinesAreAnswers
  <2>2. CASE k = Len(output) + 1
    BY <1>1, <1>4, <1>5, <1>6, <2>2
  <2> QED
    BY <1>6, <2>1, <2>2
<1> QED
  BY <1>1, <1>6, <1>7 DEF ConnectionInv, Types, UnaskedIsUnsettled, PendingIsUnsettled, ResultIsOwn

LEMMA ReadLineInvariant ==
  ASSUME ConnectionInv, ReadLine
  PROVE  ConnectionInv'
<1> DEFINE line == Head(output)
           own == pending \cap {line.number}
<1>1. /\ output # <<>> /\ output' = Tail(output)
      /\ UNCHANGED <<transport, link, issued, received, answered>>
      /\ \/ /\ Parse(line) = "response"
            /\ pending' = pending \ own /\ Settle(own, Unwrapped(line))
         \/ pending' = {} /\ Settle(pending, "malformed")
         \/ UNCHANGED <<pending, timers, outcome>>
  BY DEF ReadLine
<1>2. /\ output \in Seq(Written) /\ output' \in Seq(Written)
      /\ Len(output) \in Nat /\ Len(output) > 0 /\ Len(output') = Len(output) - 1
      /\ line = output[1]
      /\ \A k \in 1..Len(output') : output'[k] = output[k + 1]
  BY <1>1 DEF ConnectionInv, Types
<1>3. LinesAreAnswers'
  <2> SUFFICES ASSUME NEW k \in 1..Len(output'), Parse(output'[k]) = "response",
                      output'[k].number \in RequestIds
               PROVE  output'[k].number \in received' \cap answered'
    BY DEF LinesAreAnswers, Parse
  <2>1. k + 1 \in 1..Len(output) /\ output'[k] = output[k + 1]
    BY <1>2
  <2> QED
    BY <1>1, <2>1 DEF ConnectionInv, LinesAreAnswers
<1>4. /\ pending \in SUBSET (1..issued) /\ own \in SUBSET (1..issued)
      /\ 1..issued \subseteq RequestIds
  BY ConnectionConstants DEF ConnectionInv, Types, PendingIsUnsettled, RequestIds
<1>5. Parse(line) = "response" => own \subseteq received' \cap answered'
  <2>1. 1 \in 1..Len(output)
    BY <1>2
  <2> QED
    BY <1>1, <1>2, <1>4, <2>1 DEF ConnectionInv, LinesAreAnswers
<1>6. /\ DOMAIN outcome' = RequestIds
      /\ UnaskedIsUnsettled' /\ ResultIsOwn'
      /\ timers' = {j \in 1..issued : outcome'[j] = "none"}
      /\ pending' = IF transport' = "stdio" THEN timers' ELSE {}
  <2>1. CASE Parse(line) = "response" /\ pending' = pending \ own /\ Settle(own, Unwrapped(line))
    <3>1. Unwrapped(line) # "none"
      BY DEF Unwrapped
    <3>2. timers' = timers \ own
      BY <2>1 DEF Settle
    <3>3. pending' = IF transport' = "stdio" THEN timers' ELSE {}
      BY <1>1, <2>1, <3>2 DEF ConnectionInv, PendingIsUnsettled
    <3> HIDE DEF own
    <3>4. QED
      BY <1>1, <1>4, <1>5, <2>1, <3>1, <3>3, SettleEffect
  <2>2. CASE pending' = {} /\ Settle(pending, "malformed")
    <3>1. timers' = timers \ pending
      BY <2>2 DEF Settle
    <3>2. pending' = IF transport' = "stdio" THEN timers' ELSE {}
      BY <1>1, <2>2, <3>1 DEF ConnectionInv, PendingIsUnsettled
    <3> QED
      BY <1>1, <1>4, <2>2, <3>2, SettleEffect
  <2>3. CASE UNCHANGED <<pending, timers, outcome>>
    BY <1>1, <2>3 DEF ConnectionInv, Types, UnaskedIsUnsettled, ResultIsOwn, PendingIsUnsettled
  <2> QED
    BY <1>1, <2>1, <2>2, <2>3
<1> QED
  BY <1>1, <1>2, <1>3, <1>6 DEF ConnectionInv, Types, PendingIsUnsettled

LEMMA AllEndInvariant ==
  ASSUME ConnectionInv, ProcessEnds \/ Close
  PROVE  ConnectionInv'
<1>1. /\ pending' = {} /\ UNCHANGED <<transport, issued, received, answered>>
      /\ \E how \in {"processEnded", "closed"} : Settle(pending, how)
      /\ output' = output \/ output' = <<>>
  BY DEF ProcessEnds, Close
<1>2. pending \in SUBSET (1..issued)
  BY DEF ConnectionInv, PendingIsUnsettled
<1>3. /\ DOMAIN outcome' = RequestIds
      /\ UnaskedIsUnsettled' /\ ResultIsOwn'
      /\ timers' = {j \in 1..issued : outcome'[j] = "none"}
  BY <1>1, <1>2, SettleEffect
<1>4. timers' = timers \ pending
  BY <1>1 DEF Settle
<1>5. pending' = IF transport' = "stdio" THEN timers' ELSE {}
  BY <1>1, <1>4 DEF ConnectionInv, PendingIsUnsettled
<1>6. output' \in Seq(Written)
  <2>1. output \in Seq(Written) /\ <<>> \in Seq(Written)
    BY DEF ConnectionInv, Types
  <2> QED
    BY <1>1, <2>1
<1>7. LinesAreAnswers'
  BY <1>1 DEF ConnectionInv, LinesAreAnswers
<1> QED
  BY <1>1, <1>3, <1>5, <1>6, <1>7 DEF ConnectionInv, Types, PendingIsUnsettled

LEMMA PeerAnswersInvariant ==
  ASSUME ConnectionInv, NEW i \in RequestIds, NEW message, PeerAnswers(i, message)
  PROVE  ConnectionInv'
<1> DEFINE how == IF Parse(message) = "response" THEN Unwrapped(message) ELSE "malformed"
<1>1. /\ transport # "stdio" /\ i \in received /\ i \in timers /\ Settle({i}, how)
      /\ answered' = IF Parse(message) = "response" THEN answered \cup {i} ELSE answered
      /\ UNCHANGED <<transport, link, issued, pending, received, output>>
  BY DEF PeerAnswers
<1>2. how # "none" /\ (how = "result" => {i} \subseteq received' \cap answered')
  BY <1>1 DEF Unwrapped
<1>3. {i} \in SUBSET (1..issued) /\ answered \subseteq answered'
  BY <1>1 DEF ConnectionInv, PendingIsUnsettled
<1> HIDE DEF how
<1>4. /\ DOMAIN outcome' = RequestIds
      /\ UnaskedIsUnsettled' /\ ResultIsOwn'
      /\ timers' = {j \in 1..issued : outcome'[j] = "none"}
  BY <1>1, <1>2, <1>3, SettleEffect
<1> QED
  BY <1>1, <1>3, <1>4 DEF ConnectionInv, Types, LinesAreAnswers, PendingIsUnsettled

LEMMA ConnectionStepInvariant == ConnectionInv /\ [ConnectionNext]_connectionVars => ConnectionInv'
<1> SUFFICES ASSUME ConnectionInv, [ConnectionNext]_connectionVars PROVE ConnectionInv'
  OBVIOUS
<1>1. CASE Connect \/ UNCHANGED connectionVars
  BY <1>1 DEF Connect, connectionVars, ConnectionInv, Types, UnaskedIsUnsettled, LinesAreAnswers,
     PendingIsUnsettled, ResultIsOwn
<1>2. ASSUME NEW aborted \in BOOLEAN, Request(aborted) PROVE ConnectionInv'
  BY <1>2, RequestInvariant
<1>3. ASSUME NEW i \in RequestIds, TimesOut(i) \/ Aborted(i) \/ WriteFails(i) PROVE ConnectionInv'
  BY <1>3, EndsInvariant
<1>4. ASSUME NEW i \in RequestIds, NEW message \in PeerMessages(i), PeerAnswers(i, message)
      PROVE  ConnectionInv'
  BY <1>4, PeerAnswersInvariant
<1>5. ASSUME NEW message \in ServerMessages, ServerWrites(message) PROVE ConnectionInv'
  BY <1>5, ServerWritesInvariant
<1>6. CASE ReadLine
  BY <1>6, ReadLineInvariant
<1>7. CASE ProcessEnds \/ Close
  BY <1>7, AllEndInvariant
<1> QED
  BY <1>1, <1>2, <1>3, <1>4, <1>5, <1>6, <1>7 DEF ConnectionNext

THEOREM ConnectionInvariance == ConnectionSpec => []ConnectionInv
  BY ConnectionInitInvariant, ConnectionStepInvariant, PTL DEF ConnectionSpec

-----------------------------------------------------------------------------
(* The request table of a stdio connection, and the timers of any, are the *)
(* requests nobody has answered, for any number of requests and unread     *)
(* lines (transports.ts: request, onData, rejectAll, close).               *)
THEOREM TableIsUnsettled == ConnectionSpec => []PendingIsUnsettled
<1>1. ConnectionInv => PendingIsUnsettled
  BY DEF ConnectionInv
<1> QED
  BY <1>1, ConnectionInvariance, PTL

(* A request succeeds only with the server's answer to itself, whatever    *)
(* the order, repetition and lateness of answers (transports.ts: onData).  *)
THEOREM ResultsAreOwn == ConnectionSpec => []ResultIsOwn
<1>1. ConnectionInv => ResultIsOwn
  BY DEF ConnectionInv
<1> QED
  BY <1>1, ConnectionInvariance, PTL

-----------------------------------------------------------------------------
(* Pairing.                                                                *)

(* A call is about a pairing that was created.                             *)
CallsAreOfCreated == \A k \in DOMAIN calls : calls[k].pairing <= created

(* The pairing of a completed call is marked, or gone from the Map.        *)
CompletedIsMarked ==
  \A k \in DOMAIN calls : Done(k) => ~Known(calls[k].pairing)

(* A call waits at the prompt for a revoked device only if the revocation  *)
(* came after its checks.                                                  *)
RevocationIsNoted ==
  \A k \in DOMAIN calls :
    calls[k].stage = "confirming" /\ RejectionFor(calls[k].device) = "revoked"
      => calls[k].revokedSince

PairingInv ==
  /\ TypeOK /\ calls \in Seq(Call)
  /\ CallsAreOfCreated /\ CompletedIsMarked /\ RevocationIsNoted

LEMMA PairingInitInvariant == PairingInit => PairingInv
  BY RegistryAssumption, PairingAssumption DEF PairingInit, PairingInv, TypeOK, RegistryTypeOK,
     CallsAreOfCreated, CompletedIsMarked, RevocationIsNoted

(* What register() and the two decisions leave of the device registry.     *)
LEMMA RegisterDeviceEffect ==
  ASSUME RegistryTypeOK, NEW d \in DeviceIds, RegisterDevice(d, NewRecord), UNCHANGED now
  PROVE  /\ RegistryTypeOK'
         /\ \A x : RejectionFor(x)' = "revoked" => RejectionFor(x) = "revoked"
  BY RegistryAssumption DEF RegistryTypeOK, RegisterDevice, NewRecord, With, Record, Never,
     RejectionFor, DeviceExpired

LEMMA AuthorizeDeviceEffect ==
  ASSUME RegistryTypeOK, NEW d \in DeviceIds, NEW expiry \in 0..Never,
         AuthorizeDevice(d, expiry), UNCHANGED now
  PROVE  /\ RegistryTypeOK'
         /\ \A x : RejectionFor(x)' = "revoked" => RejectionFor(x) = "revoked"
  BY RegistryAssumption DEF RegistryTypeOK, AuthorizeDevice, With, Record, Never,
     RejectionFor, DeviceExpired

LEMMA RevokeDeviceEffect ==
  ASSUME RegistryTypeOK, NEW d \in DeviceIds, RevokeDevice(d), UNCHANGED now
  PROVE  /\ RegistryTypeOK'
         /\ \A x : x # d /\ RejectionFor(x)' = "revoked" => RejectionFor(x) = "revoked"
  BY RegistryAssumption DEF RegistryTypeOK, RevokeDevice, Record, Never, RejectionFor,
     DeviceExpired

(* Marking an entry, or finding it gone, opens no pairing.                 *)
LEMMA MarkRedeemedEffect ==
  ASSUME TypeOK, NEW p \in 1..MaxPairings, MarkRedeemed(p)
  PROVE  /\ DOMAIN pairings' = DOMAIN pairings
         /\ \A x \in DOMAIN pairings' :
              pairings'[x] \in [expiresAt : 0..(MaxTime + PairingTtl), redeemed : BOOLEAN]
         /\ ~Known(p)'
         /\ \A x : Known(x)' => Known(x)
  BY DEF TypeOK, MarkRedeemed, Known

LEMMA CreateKeeps == PairingInv /\ CreatePairingChallenge => PairingInv'
<1> SUFFICES ASSUME PairingInv, CreatePairingChallenge PROVE PairingInv'
  OBVIOUS
<1> USE RegistryAssumption, PairingAssumption
<1>1. /\ created' = created + 1 /\ created' \in 0..MaxPairings /\ created \in Nat
      /\ DOMAIN pairings' \subseteq DOMAIN pairings \cup {created + 1}
      /\ \A x \in DOMAIN pairings' : x # created + 1 => pairings'[x] = pairings[x]
      /\ \A x \in DOMAIN pairings' :
           pairings'[x] \in [expiresAt : 0..(MaxTime + PairingTtl), redeemed : BOOLEAN]
      /\ UNCHANGED <<now, confirmation, devices, calls>>
  BY DEF CreatePairingChallenge, PairingInv, TypeOK, RegistryTypeOK
<1>2. TypeOK' /\ calls' \in Seq(Call) /\ RevocationIsNoted'
  BY <1>1 DEF PairingInv, TypeOK, RegistryTypeOK, RevocationIsNoted, RejectionFor, DeviceExpired
<1>3. CallsAreOfCreated' /\ CompletedIsMarked'
  <2>1. \A k \in DOMAIN calls : calls[k].pairing \in Nat /\ calls[k].pairing <= created
    BY DEF PairingInv, TypeOK, CallsAreOfCreated, Call
  <2> QED
    BY <1>1, <2>1 DEF PairingInv, CallsAreOfCreated, CompletedIsMarked, Known, Done
<1> QED
  BY <1>2, <1>3 DEF PairingInv

LEMMA PresentKeeps ==
  ASSUME PairingInv, NEW p \in DOMAIN pairings, NEW d \in DeviceIds, Present(p, d)
  PROVE  PairingInv'
<1> USE RegistryAssumption, PairingAssumption
<1>1. PICK stage \in {"confirming", "done"} :
        /\ calls' = Append(calls, [pairing |-> p, device |-> d, stage |-> stage,
                                   revokedSince |-> FALSE])
        /\ Len(calls) < MaxCalls /\ RejectionFor(d) # "revoked"
        /\ UNCHANGED <<now, confirmation, created>>
        /\ stage = "confirming" => UNCHANGED <<devices, pairings>>
        /\ stage = "done" => MarkRedeemed(p) /\ RegisterDevice(d, NewRecord)
  BY DEF Present
<1> DEFINE call == [pairing |-> p, device |-> d, stage |-> stage, revokedSince |-> FALSE]
<1>2. p \in 1..MaxPairings /\ p <= created /\ call \in Call
  BY DEF PairingInv, TypeOK, Call
<1>3. /\ calls' \in Seq(Call) /\ Len(calls') = Len(calls) + 1
      /\ DOMAIN calls' = DOMAIN calls \cup {Len(calls) + 1}
      /\ calls'[Len(calls) + 1] = call
      /\ \A k \in DOMAIN calls : calls'[k] = calls[k]
  BY <1>1, <1>2 DEF PairingInv
<1>4. /\ RegistryTypeOK'
      /\ \A x : RejectionFor(x)' = "revoked" => RejectionFor(x) = "revoked"
  <2>1. CASE stage = "confirming"
    BY <2>1, <1>1 DEF PairingInv, TypeOK, RegistryTypeOK, RejectionFor, DeviceExpired
  <2>2. CASE stage = "done"
    BY <2>2, <1>1, RegisterDeviceEffect DEF PairingInv, TypeOK
  <2> QED
    BY <2>1, <2>2
<1>5. /\ DOMAIN pairings' = DOMAIN pairings
      /\ \A x \in DOMAIN pairings' :
           pairings'[x] \in [expiresAt : 0..(MaxTime + PairingTtl), redeemed : BOOLEAN]
      /\ stage = "done" => ~Known(p)'
      /\ \A x : Known(x)' => Known(x)
  <2>1. CASE stage = "confirming"
    <3>1. \A x \in DOMAIN pairings :
            pairings[x] \in [expiresAt : 0..(MaxTime + PairingTtl), redeemed : BOOLEAN]
      BY DEF PairingInv, TypeOK
    <3>2. UNCHANGED pairings
      BY <1>1, <2>1
    <3> QED
      BY <2>1, <3>1, <3>2 DEF Known
  <2>2. CASE stage = "done"
    BY <2>2, <1>1, <1>2, MarkRedeemedEffect DEF PairingInv
  <2> QED
    BY <2>1, <2>2
<1> HIDE DEF call
<1>6. TypeOK'
  BY <1>1, <1>2, <1>3, <1>4, <1>5 DEF PairingInv, TypeOK
<1>7. CallsAreOfCreated' /\ CompletedIsMarked' /\ RevocationIsNoted'
  BY <1>1, <1>2, <1>3, <1>4, <1>5 DEF PairingInv, CallsAreOfCreated, CompletedIsMarked,
     RevocationIsNoted, Done, call
<1> QED
  BY <1>3, <1>6, <1>7 DEF PairingInv

LEMMA SettledKeeps ==
  ASSUME PairingInv, NEW k \in DOMAIN calls, Confirm(k) \/ Decline(k)
  PROVE  PairingInv'
<1> USE RegistryAssumption, PairingAssumption
<1>1. PICK stage \in {"done", "declined"} :
        /\ calls[k].stage = "confirming"
        /\ calls' = [calls EXCEPT ![k].stage = stage]
        /\ UNCHANGED <<now, confirmation, created>>
        /\ stage = "declined" => UNCHANGED <<devices, pairings>>
        /\ stage = "done" => /\ MarkRedeemed(calls[k].pairing)
                             /\ RegisterDevice(calls[k].device, NewRecord)
  BY DEF Confirm, Decline
<1> DEFINE call == [calls[k] EXCEPT !.stage = stage]
<1>2. /\ calls[k] \in Call /\ call \in Call /\ call.stage = stage
      /\ call.pairing = calls[k].pairing
      /\ calls[k].pairing \in 1..MaxPairings /\ calls[k].device \in DeviceIds
  BY DEF PairingInv, TypeOK, Call
<1>3. calls' = [calls EXCEPT ![k] = call]
  BY <1>1
<1> HIDE DEF call
<1>4. /\ calls' \in Seq(Call) /\ Len(calls') = Len(calls) /\ DOMAIN calls' = DOMAIN calls
      /\ calls'[k] = call /\ \A x \in DOMAIN calls : x # k => calls'[x] = calls[x]
  BY <1>2, <1>3 DEF PairingInv
<1>5. /\ RegistryTypeOK'
      /\ \A x : RejectionFor(x)' = "revoked" => RejectionFor(x) = "revoked"
  <2>1. CASE stage = "declined"
    BY <2>1, <1>1 DEF PairingInv, TypeOK, RegistryTypeOK, RejectionFor, DeviceExpired
  <2>2. CASE stage = "done"
    BY <2>2, <1>1, <1>2, RegisterDeviceEffect DEF PairingInv, TypeOK
  <2> QED
    BY <2>1, <2>2
<1>6. /\ DOMAIN pairings' = DOMAIN pairings
      /\ \A x \in DOMAIN pairings' :
           pairings'[x] \in [expiresAt : 0..(MaxTime + PairingTtl), redeemed : BOOLEAN]
      /\ stage = "done" => ~Known(calls[k].pairing)'
      /\ \A x : Known(x)' => Known(x)
  <2>1. CASE stage = "declined"
    BY <2>1, <1>1 DEF PairingInv, TypeOK, Known
  <2>2. CASE stage = "done"
    <3> DEFINE p == calls[k].pairing
    <3>1. p \in 1..MaxPairings /\ MarkRedeemed(p)
      BY <2>2, <1>1, <1>2
    <3> HIDE DEF p
    <3>2. /\ DOMAIN pairings' = DOMAIN pairings
          /\ \A x \in DOMAIN pairings' :
               pairings'[x] \in [expiresAt : 0..(MaxTime + PairingTtl), redeemed : BOOLEAN]
          /\ p \in DOMAIN pairings' => pairings'[p].redeemed
          /\ \A x : Known(x)' => Known(x)
      BY <3>1, MarkRedeemedEffect DEF PairingInv, Known
    <3> QED
      BY <3>2, <1>2, <1>4 DEF p, Known
  <2> QED
    BY <2>1, <2>2
<1>7. TypeOK'
  BY <1>1, <1>2, <1>4, <1>5, <1>6 DEF PairingInv, TypeOK
<1>8. CallsAreOfCreated' /\ CompletedIsMarked' /\ RevocationIsNoted'
  BY <1>1, <1>2, <1>4, <1>5, <1>6 DEF PairingInv, CallsAreOfCreated, CompletedIsMarked,
     RevocationIsNoted, Done
<1> QED
  BY <1>4, <1>7, <1>8 DEF PairingInv

LEMMA RevokeKeeps ==
  ASSUME PairingInv, NEW d \in DeviceIds, Revoke(d)
  PROVE  PairingInv'
<1> USE RegistryAssumption, PairingAssumption
<1>1. /\ RevokeDevice(d) /\ UNCHANGED <<now, confirmation, pairings, created>>
      /\ DOMAIN calls' = DOMAIN calls
      /\ \A k \in DOMAIN calls :
           calls'[k] = IF calls[k].device = d /\ calls[k].stage = "confirming"
                       THEN [calls[k] EXCEPT !.revokedSince = TRUE] ELSE calls[k]
  BY DEF Revoke
<1>2. \A k \in DOMAIN calls :
        /\ calls[k] \in Call /\ calls'[k] \in Call
        /\ calls'[k].pairing = calls[k].pairing /\ calls'[k].device = calls[k].device
        /\ calls'[k].stage = calls[k].stage
        /\ calls[k].device = d /\ calls[k].stage = "confirming" => calls'[k].revokedSince
        /\ calls[k].revokedSince => calls'[k].revokedSince
  <2> SUFFICES ASSUME NEW k \in DOMAIN calls
               PROVE  /\ calls[k] \in Call /\ calls'[k] \in Call
                      /\ calls'[k].pairing = calls[k].pairing
                      /\ calls'[k].device = calls[k].device
                      /\ calls'[k].stage = calls[k].stage
                      /\ calls[k].device = d /\ calls[k].stage = "confirming"
                           => calls'[k].revokedSince
                      /\ calls[k].revokedSince => calls'[k].revokedSince
    OBVIOUS
  <2> DEFINE c == calls[k]
  <2>1. c \in Call
    BY DEF PairingInv, TypeOK
  <2>2. calls'[k] = IF c.device = d /\ c.stage = "confirming"
                    THEN [c EXCEPT !.revokedSince = TRUE] ELSE c
    BY <1>1
  <2> HIDE DEF c
  <2>3. CASE c.device = d /\ c.stage = "confirming"
    <3>1. calls'[k] = [c EXCEPT !.revokedSince = TRUE]
      BY <2>2, <2>3
    <3>2. /\ calls'[k] \in Call /\ calls'[k].revokedSince
          /\ calls'[k].pairing = c.pairing /\ calls'[k].device = c.device
          /\ calls'[k].stage = c.stage
      BY <3>1, <2>1 DEF Call
    <3> QED
      BY <3>2, <2>1 DEF c
  <2>4. CASE ~(c.device = d /\ c.stage = "confirming")
    BY <2>1, <2>2, <2>4 DEF c
  <2> QED
    BY <2>3, <2>4
<1>3. calls' \in Seq(Call) /\ Len(calls') = Len(calls)
  <2>1. calls' = [k \in 1..Len(calls) |-> calls'[k]] /\ Len(calls) \in Nat
    BY DEF Revoke, PairingInv
  <2>2. calls' \in [1..Len(calls) -> Call]
    BY <2>1, <1>2 DEF PairingInv
  <2> QED
    BY <2>1, <2>2
<1>4. /\ RegistryTypeOK'
      /\ \A x : x # d /\ RejectionFor(x)' = "revoked" => RejectionFor(x) = "revoked"
  BY <1>1, RevokeDeviceEffect DEF PairingInv, TypeOK
<1>5. TypeOK'
  BY <1>1, <1>2, <1>3, <1>4 DEF PairingInv, TypeOK
<1>6. CallsAreOfCreated' /\ CompletedIsMarked'
  BY <1>1, <1>2 DEF PairingInv, CallsAreOfCreated, CompletedIsMarked, Done, Known
<1>7. RevocationIsNoted'
  <2> SUFFICES ASSUME NEW k \in DOMAIN calls, calls'[k].stage = "confirming",
                      (RejectionFor(calls[k].device) = "revoked")'
               PROVE  calls'[k].revokedSince
    BY <1>1 DEF RevocationIsNoted
  <2> DEFINE x == calls[k].device
  <2>1. calls'[k].device = x
    BY <1>2
  <2>2. x # d => RejectionFor(x) = "revoked"
    <3>1. /\ calls'[k].device \in DOMAIN devices'
          /\ devices'[calls'[k].device].status = "revoked"
      BY DEF RejectionFor
    <3> QED
      BY <3>1, <2>1, <1>1 DEF RevokeDevice, RejectionFor
  <2> QED
    BY <2>2, <1>2 DEF PairingInv, RevocationIsNoted
<1> QED
  BY <1>3, <1>5, <1>6, <1>7 DEF PairingInv

(* A step that leaves the calls alone and opens no pairing.                *)
LEMMA AsideKeeps ==
  ASSUME PairingInv, UNCHANGED <<confirmation, created, calls>>, RegistryTypeOK',
         DOMAIN pairings' \subseteq DOMAIN pairings,
         \A x \in DOMAIN pairings' : pairings'[x] = pairings[x],
         \A x : RejectionFor(x)' = "revoked" => RejectionFor(x) = "revoked"
  PROVE  PairingInv'
<1>1. TypeOK' /\ calls' \in Seq(Call) /\ CallsAreOfCreated'
  BY DEF PairingInv, TypeOK, CallsAreOfCreated
<1>2. CompletedIsMarked' /\ RevocationIsNoted'
  BY DEF PairingInv, CompletedIsMarked, RevocationIsNoted, Done, Known
<1> QED
  BY <1>1, <1>2 DEF PairingInv

LEMMA PairingStepInvariant == PairingInv /\ [PairingNext]_pairingVars => PairingInv'
<1> SUFFICES ASSUME PairingInv, [PairingNext]_pairingVars PROVE PairingInv'
  OBVIOUS
<1>1. CASE CreatePairingChallenge
  BY <1>1, CreateKeeps
<1>2. ASSUME NEW p \in DOMAIN pairings, PresentExpired(p) PROVE PairingInv'
  BY <1>2, AsideKeeps DEF PresentExpired, PairingInv, TypeOK, RegistryTypeOK, RejectionFor,
     DeviceExpired
<1>3. ASSUME NEW p \in DOMAIN pairings, NEW d \in DeviceIds, Present(p, d) PROVE PairingInv'
  BY <1>3, PresentKeeps
<1>4. ASSUME NEW k \in DOMAIN calls, Confirm(k) \/ Decline(k) PROVE PairingInv'
  BY <1>4, SettledKeeps
<1>5. ASSUME NEW d \in DeviceIds, Revoke(d) PROVE PairingInv'
  BY <1>5, RevokeKeeps
<1>6. ASSUME NEW d \in DeviceIds, NEW expiry \in 0..Never, Authorize(d, expiry)
      PROVE  PairingInv'
  BY <1>6, AuthorizeDeviceEffect, AsideKeeps DEF Authorize, PairingInv, TypeOK
<1>7. CASE PairingTick
  BY <1>7, AsideKeeps, RegistryAssumption DEF PairingTick, PairingInv, TypeOK, RegistryTypeOK,
     RejectionFor, DeviceExpired
<1>8. CASE UNCHANGED pairingVars
  BY <1>8, AsideKeeps DEF pairingVars, PairingInv, TypeOK, RegistryTypeOK, RejectionFor, DeviceExpired
<1> QED
  BY <1>1, <1>2, <1>3, <1>4, <1>5, <1>6, <1>7, <1>8 DEF PairingNext

(* The invariant the two results below follow from (device.ts:           *)
(* PairingManager and DeviceRegistry).                                     *)
THEOREM PairingInvariance == PairingSpec => []PairingInv
  BY PairingInitInvariant, PairingStepInvariant, PTL DEF PairingSpec

(* A pairing that a device has completed passes the checks of              *)
(* completePairing() no second time (device.ts:294-372), for any number of *)
(* pairings, devices and open prompts.                                     *)
THEOREM CompletedIsClosed == PairingSpec => CompletedPairingIsClosed
<1> DEFINE Step == \A k \in DOMAIN calls' \ DOMAIN calls :
                     \A j \in DOMAIN calls : calls[j].pairing = calls'[k].pairing => ~Done(j)
<1>1. PairingInv /\ [PairingNext]_pairingVars => [Step]_pairingVars
  <2> SUFFICES ASSUME PairingInv, PairingNext PROVE Step
    OBVIOUS
  <2>1. ASSUME NEW p \in DOMAIN pairings, NEW d \in DeviceIds, Present(p, d) PROVE Step
    <3>1. PICK call : calls' = Append(calls, call) /\ call.pairing = p /\ Known(p)
      BY <2>1 DEF Present
    <3>2. DOMAIN calls' = DOMAIN calls \cup {Len(calls) + 1} /\ calls'[Len(calls) + 1] = call
      BY <3>1 DEF PairingInv
    <3> QED
      BY <3>1, <3>2 DEF PairingInv, CompletedIsMarked
  <2>2. CASE DOMAIN calls' = DOMAIN calls
    BY <2>2
  <2> QED
    BY <2>1, <2>2 DEF PairingNext, CreatePairingChallenge, PresentExpired, Confirm, Decline, Revoke,
       Authorize, PairingTick
<1>2. CompletedPairingIsClosed <=> [][Step]_pairingVars
  BY PTL DEF CompletedPairingIsClosed
<1> HIDE DEF Step
<1> QED
  BY <1>1, <1>2, PairingInvariance, PTL DEF PairingSpec

(* A pairing that registers a revoked device had passed its checks before  *)
(* the revocation (device.ts:334-372).                                     *)
THEOREM RevokedIsKeptOut == PairingSpec => RevokedDeviceCannotPair
<1> DEFINE Step == \A k \in DOMAIN calls :
                     /\ calls[k].stage = "confirming" /\ calls'[k].stage = "done"
                     /\ RejectionFor(calls[k].device) = "revoked"
                     => calls[k].revokedSince
<1>1. PairingInv => Step
  BY DEF PairingInv, RevocationIsNoted
<1>2. RevokedDeviceCannotPair <=> [][Step]_pairingVars
  BY PTL DEF RevokedDeviceCannotPair
<1> HIDE DEF Step
<1> QED
  BY <1>1, <1>2, PairingInvariance, PTL DEF PairingSpec

-----------------------------------------------------------------------------
(* The decision before an approval (RiskPolicy).                           *)

(* The least of some numbers is one of them.                               *)
LEMMA LeastExists ==
  ASSUME NEW S \in SUBSET Nat, S # {}
  PROVE  Min(S) \in S /\ \A y \in S : Min(S) <= y
<1> DEFINE R == OpToRel(<, Nat)
<1>1. IsWellFoundedOn(R, Nat)
  BY NatLessThanWellFounded
<1>2. \A x, y \in Nat : x < y => <<x, y>> \in R
  BY DEF OpToRel
<1> HIDE DEF R
<1>3. PICK x \in S : \A y \in S : ~(<<y, x>> \in R)
  BY <1>1, WFMin
<1>4. \A y \in S : x <= y
  <2> SUFFICES ASSUME NEW y \in S PROVE x <= y
    OBVIOUS
  <2>1. x \in Nat /\ y \in Nat
    OBVIOUS
  <2>2. ~(y < x)
    BY <1>2, <1>3, <2>1
  <2> QED
    BY <2>1, <2>2
<1> QED
  BY <1>4 DEF Min

(* The rules are a sequence of registered ones.                            *)
RiskPolicyInv == rules \in Seq(PolicyRules) /\ defaultMode \in {"deny", "allow"}

LEMMA RiskPolicyInvariance == RiskPolicySpec => []RiskPolicyInv
<1>1. RiskPolicyInit => RiskPolicyInv
  BY DEF RiskPolicyInit, RiskPolicyInv
<1>2. RiskPolicyInv /\ [RiskPolicyNext]_riskPolicyVars => RiskPolicyInv'
  BY DEF RiskPolicyInv, RiskPolicyNext, riskPolicyVars, RegisterPolicy, RegisterClarification
<1> QED
  BY <1>1, <1>2, PTL DEF RiskPolicySpec

(* What FirstOf() finds is a rule of the kinds that applies, and it finds   *)
(* one when there is one.                                                  *)
LEMMA FirstApplies ==
  ASSUME RiskPolicyInv, NEW kinds, NEW command, NEW level
  PROVE  \/ /\ FirstOf(kinds, command, level) = <<>>
            /\ \A i \in DOMAIN rules : ~(rules[i].kind \in kinds /\ Matches(rules[i], command, level))
         \/ \E i \in DOMAIN rules :
              /\ FirstOf(kinds, command, level) = <<rules[i]>>
              /\ rules[i].kind \in kinds /\ Matches(rules[i], command, level)
<1> DEFINE applies == {i \in DOMAIN rules : /\ rules[i].kind \in kinds
                                            /\ Matches(rules[i], command, level)}
<1>1. CASE applies = {}
  BY <1>1 DEF FirstOf
<1>2. CASE applies # {}
  <2>1. applies \in SUBSET Nat
    BY DEF RiskPolicyInv
  <2>2. Min(applies) \in applies
    BY <1>2, <2>1, LeastExists
  <2> QED
    BY <1>2, <2>2 DEF FirstOf
<1> QED
  BY <1>1, <1>2

(* Risk levels stay levels, and only a low one is automatic by default.    *)
LEMMA RiskIsLevel ==
  ASSUME NEW command \in Commands
  PROVE  RiskOf(command) \in Levels
<1> DEFINE base == BaseLevel(Definitions[command.capability])
           context == command.context
           steps == OriginSteps(context.origin) + SensitivitySteps[context.sensitivity]
                      + Cardinality(context.impacts)
<1>1. base \in Levels /\ command.claimed \in Levels \cup {Unclaimed}
  BY RiskPolicyConstants DEF BaseLevel, Levels, Low, Critical, Medium
<1>2. steps \in Nat
  <2>1. OriginSteps(context.origin) \in Nat
    BY DEF OriginSteps
  <2>2. SensitivitySteps[context.sensitivity] \in Nat
    BY RiskPolicyConstants DEF SensitivitySteps
  <2>3. Cardinality(context.impacts) \in Nat
    BY RiskPolicyConstants, FS_CardinalityType
  <2> QED
    BY <2>1, <2>2, <2>3
<1>3. StartLevel(base, command.claimed) \in Levels
  BY <1>1 DEF StartLevel, Higher, Levels, Unclaimed, Low, Critical
<1>4. RiskOf(command) = RaiseRisk(StartLevel(base, command.claimed), steps)
  BY DEF RiskOf, EvaluateRisk
<1> HIDE DEF base, steps
<1> QED
  BY <1>2, <1>3, <1>4 DEF RaiseRisk, Levels, Low, Critical

LEMMA AutomaticIsLow ==
  ASSUME NEW definition, definition.always \in BOOLEAN, NEW level \in Levels, NEW origin,
         ApprovalStrategyFor(definition, level, origin) = "automatic"
  PROVE  level < High
<1>1. \A x \in Levels : RiskDefaultStrategy(x, FALSE) = "automatic" => x < High
  BY DEF RiskDefaultStrategy, Levels, Low, Critical, High
<1>2. RiskDefaultStrategy(level, TRUE) # "automatic"
  BY DEF RiskDefaultStrategy
<1> QED
  BY <1>1, <1>2 DEF ApprovalStrategyFor, EscalateForOrigin

(* What the decision to ask says of the rules.                             *)
LEMMA AskedOnlyIf ==
  ASSUME RiskPolicyInv, NEW c \in Commands, Decide(c).decision = "approval"
  PROVE  /\ \A i \in DOMAIN rules : Matches(rules[i], c, RiskOf(c))
                                      => rules[i].kind \notin {"deny", "requireClarification"}
         /\ \/ /\ \A i \in DOMAIN rules : Matches(rules[i], c, RiskOf(c))
                                            => rules[i].kind # "requireApproval"
               /\ \E level \in Levels :
                    Decide(c) = Asks(ApprovalStrategyFor(Definitions[c.capability], level, c.origin),
                                     level)
            \/ \E i \in DOMAIN rules :
                 /\ rules[i].kind = "requireApproval" /\ Matches(rules[i], c, RiskOf(c))
                 /\ Decide(c) = Asks(rules[i].strategy, RiskOf(c))
<1> DEFINE level == RiskOf(c)
           denial == FirstOf({"deny"}, c, level)
           question == FirstOf({"requireClarification"}, c, level)
           approval == FirstOf({"requireApproval"}, c, level)
           allowance == FirstOf({"allow"}, c, level)
           policy == EvaluatePolicy(c, level)
<1>1. level \in Levels
  BY RiskIsLevel
<1>2. /\ policy.decision \notin {"deny", "clarification_required"}
      /\ policy.decision = "approval_required" => Decide(c) = Asks(policy.strategy, level)
      /\ policy.decision # "approval_required" =>
           Decide(c) = Asks(ApprovalStrategyFor(Definitions[c.capability], policy.level, c.origin),
                            policy.level)
  BY DEF Decide, Refused, Unclear
<1>3. /\ denial = <<>> /\ question = <<>>
      /\ approval # <<>> => policy = [decision |-> "approval_required",
                                       strategy |-> approval[1].strategy]
      /\ approval = <<>> /\ allowance # <<>> =>
           policy = [decision |-> "allow", level |-> Higher(level, allowance[1].risk)]
      /\ approval = <<>> /\ allowance = <<>> => policy = [decision |-> "allow", level |-> level]
  BY <1>2 DEF EvaluatePolicy, ByDefault
<1>4. \A i \in DOMAIN rules : Matches(rules[i], c, level)
                                => rules[i].kind \notin {"deny", "requireClarification"}
  <2>1. \A i \in DOMAIN rules : ~(rules[i].kind \in {"deny"} /\ Matches(rules[i], c, level))
    BY <1>3, FirstApplies
  <2>2. \A i \in DOMAIN rules :
          ~(rules[i].kind \in {"requireClarification"} /\ Matches(rules[i], c, level))
    BY <1>3, FirstApplies
  <2> QED
    BY <2>1, <2>2
<1>5. CASE approval # <<>>
  <2>1. PICK i \in DOMAIN rules :
          /\ approval = <<rules[i]>>
          /\ rules[i].kind \in {"requireApproval"} /\ Matches(rules[i], c, level)
    BY <1>5, FirstApplies
  <2>2. Decide(c) = Asks(rules[i].strategy, level)
    BY <1>2, <1>3, <1>5, <2>1
  <2> QED
    BY <1>4, <2>1, <2>2
<1>6. CASE approval = <<>>
  <2>1. \A i \in DOMAIN rules :
          ~(rules[i].kind \in {"requireApproval"} /\ Matches(rules[i], c, level))
    BY <1>6, FirstApplies
  <2>2. policy.decision # "approval_required" /\ policy.level \in Levels
    <3>1. CASE allowance # <<>>
      <4>1. PICK i \in DOMAIN rules : allowance = <<rules[i]>> /\ rules[i].kind \in {"allow"}
        BY <3>1, FirstApplies
      <4>2. rules[i].risk \in Levels
        BY <4>1, RiskPolicyConstants DEF RiskPolicyInv
      <4> QED
        BY <1>1, <1>3, <1>6, <3>1, <4>1, <4>2 DEF Higher, Levels
    <3>2. CASE allowance = <<>>
      BY <1>1, <1>3, <1>6, <3>2
    <3> QED
      BY <3>1, <3>2
  <2> QED
    BY <1>2, <1>4, <2>1, <2>2
<1> QED
  BY <1>5, <1>6

(* Only below HIGH is an approval automatic, unless a policy rule names    *)
(* that strategy (security index.ts, handleApproval and                    *)
(* approvalStrategyFor), for any rules, definitions and commands.          *)
THEOREM HighIsNeverAutomatic == RiskPolicySpec => []AutomaticOnlyBelowHigh
<1>1. RiskPolicyInv => AutomaticOnlyBelowHigh
  <2> SUFFICES ASSUME RiskPolicyInv, NEW c \in Commands,
                      Decide(c).decision = "approval", Decide(c).strategy = "automatic",
                      ~\E i \in DOMAIN rules : /\ rules[i].kind = "requireApproval"
                                               /\ Matches(rules[i], c, RiskOf(c))
                                               /\ rules[i].strategy = "automatic"
               PROVE  Decide(c).level < High
    BY DEF AutomaticOnlyBelowHigh
  <2>1. PICK level \in Levels :
          Decide(c) = Asks(ApprovalStrategyFor(Definitions[c.capability], level, c.origin), level)
    BY AskedOnlyIf DEF Asks
  <2>2. /\ Decide(c).level = level
        /\ ApprovalStrategyFor(Definitions[c.capability], level, c.origin) = "automatic"
    BY <2>1 DEF Asks
  <2> QED
    BY <2>2, AutomaticIsLow, RiskPolicyConstants
<1> QED
  BY <1>1, RiskPolicyInvariance, PTL

(* No allowance outweighs a restriction (policy index.ts, evaluate), in    *)
(* whatever order any rules were registered.                               *)
THEOREM RestrictionsAlwaysHold == RiskPolicySpec => []RestrictionsHold
<1>1. RiskPolicyInv => RestrictionsHold
  <2> SUFFICES ASSUME RiskPolicyInv, NEW c \in Commands, Decide(c).decision = "approval"
               PROVE  LET matching == {i \in DOMAIN rules : Matches(rules[i], c, RiskOf(c))}
                          kinds == {rules[i].kind : i \in matching}
                      IN  /\ kinds \cap {"deny", "requireClarification"} = {}
                          /\ "requireApproval" \in kinds
                               => Decide(c).strategy \in {rules[i].strategy : i \in
                                     {j \in matching : rules[j].kind = "requireApproval"}}
    BY DEF RestrictionsHold
  <2> QED
    BY AskedOnlyIf DEF Asks
<1> QED
  BY <1>1, RiskPolicyInvariance, PTL

-----------------------------------------------------------------------------
(* The operator's policy of the gateway (McpPolicy).                       *)

(* Where the parts of a joined sequence are.                               *)
LEMMA JoinedAt ==
  ASSUME NEW T, NEW left \in Seq(T), NEW x \in T, NEW right \in Seq(T),
         NEW s, s = left \o <<x>> \o right
  PROVE  /\ DOMAIN s = 1..(Len(left) + 1 + Len(right))
         /\ \A i \in 1..Len(left) : s[i] = left[i]
         /\ \A i \in 1..Len(right) : s[Len(left) + 1 + i] = right[i]
<1> DEFINE front == left \o <<x>>
<1>1. /\ front \in Seq(T) /\ Len(front) = Len(left) + 1
      /\ \A i \in 1..Len(left) : front[i] = left[i]
  OBVIOUS
<1> HIDE DEF front
<1>2. s = front \o right
  BY DEF front
<1>3. s \in Seq(T) /\ Len(s) = Len(front) + Len(right)
  BY <1>1, <1>2, ConcatProperties
<1>4. \A i \in 1..(Len(front) + Len(right)) :
        s[i] = IF i <= Len(front) THEN front[i] ELSE right[i - Len(front)]
  BY <1>1, <1>2, ConcatProperties
<1>5. \A i \in 1..Len(right) : s[Len(front) + i] = right[i]
  BY <1>1, <1>4
<1> QED
  BY <1>1, <1>3, <1>4, <1>5

(* A rule that is put in takes no other out, and changes nothing else.     *)
LEMMA InsertKeepsRules ==
  ASSUME NEW policy \in McpPolicies, NEW at \in 0..Len(policy.rules), NEW rule
  PROVE  /\ \A i \in DOMAIN policy.rules :
              \E j \in DOMAIN InsertRule(policy, at, rule).rules :
                InsertRule(policy, at, rule).rules[j] = policy.rules[i]
         /\ \A f \in DOMAIN policy : f # "rules" => InsertRule(policy, at, rule)[f] = policy[f]
<1> DEFINE old == policy.rules
           new == SubSeq(old, 1, at) \o <<rule>> \o SubSeq(old, at + 1, Len(old))
           S == {old[i] : i \in DOMAIN old}
<1>1. /\ InsertRule(policy, at, rule).rules = new
      /\ \A f \in DOMAIN policy : f # "rules" => InsertRule(policy, at, rule)[f] = policy[f]
  BY McpPolicyConstants DEF InsertRule
<1>2. old \in Seq(S) /\ Len(old) \in Nat /\ at \in 0..Len(old)
  BY McpPolicyConstants
<1>3. PICK T : old \in Seq(T) /\ rule \in T
  <2>1. old \in Seq(S \cup {rule})
    BY <1>2
  <2> QED
    BY <2>1
<1> HIDE DEF old, S
<1> DEFINE left == SubSeq(old, 1, at)
           right == SubSeq(old, at + 1, Len(old))
<1>4. /\ left \in Seq(T) /\ Len(left) = at
      /\ \A i \in 1..at : left[i] = old[i]
      /\ right \in Seq(T) /\ Len(right) = Len(old) - at
      /\ \A i \in (at + 1)..Len(old) : right[i - at] = old[i]
  BY <1>2, <1>3
<1>5. /\ \A i \in 1..at : i \in DOMAIN new /\ new[i] = old[i]
      /\ \A i \in (at + 1)..Len(old) : i + 1 \in DOMAIN new /\ new[i + 1] = old[i]
  <2> HIDE DEF left, right
  <2> DEFINE joined == left \o <<rule>> \o right
  <2>1. /\ DOMAIN joined = 1..(Len(left) + 1 + Len(right))
        /\ \A i \in 1..Len(left) : joined[i] = left[i]
        /\ \A i \in 1..Len(right) : joined[Len(left) + 1 + i] = right[i]
    <3>1. rule \in T /\ left \in Seq(T) /\ right \in Seq(T)
      BY <1>3, <1>4
    <3>2. joined = left \o <<rule>> \o right
      OBVIOUS
    <3> HIDE DEF joined
    <3> QED
      BY <3>1, <3>2, JoinedAt
  <2> HIDE DEF joined
  <2>2. \A i \in 1..at : i \in DOMAIN joined /\ joined[i] = old[i]
    BY <1>2, <1>4, <2>1
  <2>3. \A i \in (at + 1)..Len(old) : i + 1 \in DOMAIN joined /\ joined[i + 1] = old[i]
    <3> SUFFICES ASSUME NEW i \in (at + 1)..Len(old)
                 PROVE  i + 1 \in DOMAIN joined /\ joined[i + 1] = old[i]
      OBVIOUS
    <3> DEFINE k == i - at
    <3>1. k \in 1..Len(right) /\ Len(left) + 1 + k = i + 1
      BY <1>2, <1>4
    <3>2. right[k] = old[i]
      BY <1>4
    <3> HIDE DEF k
    <3>3. joined[Len(left) + 1 + k] = right[k]
      BY <2>1, <3>1
    <3>4. Len(left) + 1 + k \in DOMAIN joined
      BY <1>2, <1>4, <2>1, <3>1
    <3> QED
      BY <3>1, <3>2, <3>3, <3>4
  <2> QED
    BY <2>2, <2>3 DEF joined, left, right
<1> HIDE DEF new
<1>6. \A i \in DOMAIN old : \E j \in DOMAIN new : new[j] = old[i]
  <2> SUFFICES ASSUME NEW i \in DOMAIN old PROVE \E j \in DOMAIN new : new[j] = old[i]
    OBVIOUS
  <2>1. i \in 1..at \/ i \in (at + 1)..Len(old)
    BY <1>2
  <2> QED
    BY <1>5, <2>1
<1> QED
  BY <1>1, <1>6 DEF old, new

(* A rule that allows, put anywhere into any configured policy, lets no    *)
(* invocation pass that was denied (policy.ts, evaluate).                  *)
THEOREM AllowancesOpenNothing ==
  ASSUME mcpPolicy \in McpPolicies
  PROVE  AllowRulesOpenNothing
<1> SUFFICES ASSUME NEW invocation \in Invocations, NEW at \in 0..Len(mcpPolicy.rules), NEW rule,
                    Allowed(InsertRule(mcpPolicy, at, rule), invocation)
             PROVE  Allowed(mcpPolicy, invocation)
  BY DEF AllowRulesOpenNothing
<1> DEFINE request == PolicyRequest(invocation)
           opened == InsertRule(mcpPolicy, at, rule)
<1>1. Verdict(opened, request)
  BY DEF Allowed
<1>2. \A f \in {"allowed", "denied", "explicitAdmin", "explicitWrite", "transports", "gates"} :
        opened[f] = mcpPolicy[f]
  <2>1. DOMAIN mcpPolicy = {"rules", "allowed", "denied", "explicitAdmin", "explicitWrite",
                            "transports", "gates"}
    BY McpPolicyConstants
  <2>2. \A f \in DOMAIN mcpPolicy : f # "rules" => opened[f] = mcpPolicy[f]
    BY InsertKeepsRules
  <2> HIDE DEF opened
  <2> QED
    BY <2>1, <2>2
<1>3. \A i \in DOMAIN mcpPolicy.rules :
        \E j \in DOMAIN opened.rules : opened.rules[j] = mcpPolicy.rules[i]
  BY InsertKeepsRules
<1> HIDE DEF opened, request
<1>4. /\ opened.allowed = mcpPolicy.allowed /\ opened.denied = mcpPolicy.denied
      /\ opened.explicitAdmin = mcpPolicy.explicitAdmin
      /\ opened.explicitWrite = mcpPolicy.explicitWrite
      /\ opened.transports = mcpPolicy.transports /\ opened.gates = mcpPolicy.gates
  BY <1>2
<1>5. ~RuleDenies(mcpPolicy, request)
  BY <1>1, <1>3 DEF Verdict, RuleDenies
<1>6. Verdict(mcpPolicy, request)
  BY <1>1, <1>4, <1>5 DEF Verdict, OperationDenied, NeedsExplicitApproval, GateDenies
<1> QED
  BY <1>6 DEF Allowed, request

-----------------------------------------------------------------------------
(* The sandbox (Sandbox).                                                  *)

Fields == {"phase", "plain", "ran", "staged", "environment", "boundary", "answer"}

(* What a run may be, whatever the other one is doing: a spawned one has a *)
(* boundary unless it was asked to be plain or is the Windows runner's,    *)
(* and no answer that vouches for it yet.                                  *)
SoundRun(x) ==
  /\ DOMAIN x = Fields
  /\ x.plain \in BOOLEAN /\ x.boundary.confined \in BOOLEAN /\ x.answer.sandboxed \in BOOLEAN
  /\ x.phase = "running" => ~x.answer.sandboxed
  /\ handle.platform # "win32" =>
        /\ x.phase = "running" => (x.boundary.confined <=> ~x.plain)
        /\ x.ran = "outside" => x.plain
  /\ x.ran = "inside" => x.boundary.confined

(* And what NeverFallsBack says of it.                                     *)
Confines(x, found) ==
  handle.platform # "win32" =>
    /\ x.boundary.confined /\ handle.platform = "linux" => found = "able"
    /\ x.answer.sandboxed => x.boundary.confined /\ x.ran # "outside"

SandboxInv ==
  /\ DOMAIN executions = Executions
  /\ \A e \in Executions : SoundRun(executions[e]) /\ Confines(executions[e], probe)

LEMMA NotStartedIsSound == SoundRun(NotStarted) /\ Confines(NotStarted, probe)
  BY DEF NotStarted, SoundRun, Confines, Fields, Unanswered, Unbounded

LEMMA UnboundedIsOpen == ~Unbounded.confined /\ Unbounded.confined \in BOOLEAN
  BY DEF Unbounded

LEMMA StartedIsSound ==
  ASSUME NEW extra, NEW plain \in BOOLEAN
  PROVE  LET x == Started(extra, plain)
         IN  /\ DOMAIN x = Fields /\ x.plain = plain /\ x.ran = "no"
             /\ x.boundary = Unbounded /\ x.answer = Unanswered
  BY DEF Started, NotStarted, Fields

LEMMA BoundaryConfines ==
  ASSUME NEW platform, NEW spec
  PROVE  /\ Boundary(platform, spec).confined \in BOOLEAN
         /\ platform \in {"darwin", "linux"} => Boundary(platform, spec).confined
<1>1. CASE platform = "darwin"
  BY <1>1 DEF Boundary, SeatbeltProfile
<1>2. CASE platform = "linux"
  BY <1>2 DEF Boundary, BubblewrapMounts
<1>3. CASE platform \notin {"darwin", "linux"}
  BY <1>3, UnboundedIsOpen DEF Boundary
<1> QED
  BY <1>1, <1>2, <1>3

(* A spawned run, and one that spawn() threw on.                           *)
LEMMA SpawnedIsSound ==
  ASSUME NEW x, DOMAIN x = Fields, x.plain \in BOOLEAN, x.ran = "no", x.answer = Unanswered,
         x.boundary.confined \in BOOLEAN, NEW verified, NEW found,
         handle.platform # "win32" => (x.boundary.confined <=> ~x.plain),
         x.boundary.confined /\ handle.platform = "linux" => found = "able",
         NEW y \in Spawned(x, verified)
  PROVE  SoundRun(y) /\ Confines(y, found)
<1>1. /\ DOMAIN y = Fields /\ y.plain = x.plain /\ y.boundary = x.boundary /\ y.ran = "no"
      /\ y.answer = Unanswered \/ (y.phase = "over" /\ y.answer = Answer(FALSE, FALSE, verified))
  <2>1. CASE y = [x EXCEPT !.phase = "running"]
    BY <2>1 DEF Fields
  <2>2. CASE y = [x EXCEPT !.phase = "over", !.answer = Answer(FALSE, FALSE, verified)]
    BY <2>2 DEF Fields
  <2> QED
    BY <2>1, <2>2 DEF Spawned
<1>2. y.answer.sandboxed = FALSE
  BY <1>1 DEF Unanswered, Answer
<1>3. SoundRun(y)
  BY <1>1, <1>2 DEF SoundRun
<1>4. Confines(y, found)
  BY <1>1, <1>2 DEF Confines
<1> QED
  BY <1>3, <1>4

(* A run that was answered before anything was spawned.                    *)
LEMMA RefusedIsSound ==
  ASSUME NEW extra, NEW found,
         NEW x, x = [Started(extra, FALSE) EXCEPT !.phase = "over",
                                                  !.answer = Answer(FALSE, FALSE, FALSE)]
  PROVE  SoundRun(x) /\ Confines(x, found)
<1>1. /\ DOMAIN x = Fields /\ x.plain = FALSE /\ x.boundary = Unbounded /\ x.ran = "no"
      /\ x.phase = "over" /\ x.answer = Answer(FALSE, FALSE, FALSE)
  BY StartedIsSound DEF Fields
<1>2. /\ ~x.boundary.confined /\ x.boundary.confined \in BOOLEAN
      /\ x.answer.sandboxed = FALSE
  <2>1. ~x.boundary.confined /\ x.boundary.confined \in BOOLEAN
    BY <1>1, UnboundedIsOpen
  <2>2. x.answer.sandboxed = FALSE
    BY <1>1 DEF Answer
  <2> QED
    BY <2>1, <2>2
<1>3. SoundRun(x)
  BY <1>1, <1>2 DEF SoundRun
<1>4. Confines(x, found)
  BY <1>1, <1>2 DEF Confines
<1> QED
  BY <1>3, <1>4

(* The step of one run, when the probe does not lose what it found.        *)
LEMMA OneRunKeeps ==
  ASSUME SandboxInv, NEW e \in Executions, NEW x,
         executions' = [executions EXCEPT ![e] = x],
         handle' = handle, probe = "able" => probe' = "able",
         SoundRun(x), Confines(x, probe')
  PROVE  SandboxInv'
<1>1. DOMAIN executions' = Executions
  BY DEF SandboxInv
<1>2. ASSUME NEW d \in Executions
      PROVE  SoundRun(executions'[d]) /\ Confines(executions'[d], probe')
  <2>1. CASE d = e
    BY <2>1 DEF SandboxInv
  <2>2. CASE d # e
    <3>1. executions'[d] = executions[d]
      BY <2>2 DEF SandboxInv
    <3>2. SoundRun(executions[d]) /\ Confines(executions[d], probe')
      BY DEF SandboxInv, Confines
    <3> QED
      BY <3>1, <3>2
  <2> QED
    BY <2>1, <2>2
<1> QED
  BY <1>1, <1>2 DEF SandboxInv, SoundRun, Confines

LEMMA SandboxStepInvariant == SandboxInv /\ [SandboxNext]_sandboxVars => SandboxInv'
<1> SUFFICES ASSUME SandboxInv, [SandboxNext]_sandboxVars PROVE SandboxInv'
  OBVIOUS
<1>1. ASSUME NEW e \in Executions, NEW extra, ExecutePlain(e, extra) PROVE SandboxInv'
  <2>1. PICK x \in Spawned(Started(extra, TRUE), FALSE) : executions' = [executions EXCEPT ![e] = x]
    BY <1>1 DEF ExecutePlain
  <2>2. SoundRun(x) /\ Confines(x, probe)
    <3> DEFINE start == Started(extra, TRUE)
    <3>1. /\ DOMAIN start = Fields /\ start.plain = TRUE /\ start.ran = "no"
          /\ start.boundary = Unbounded /\ start.answer = Unanswered
      BY StartedIsSound
    <3>2. x \in Spawned(start, FALSE)
      BY <2>1
    <3>3. ~start.boundary.confined /\ start.boundary.confined \in BOOLEAN
      BY <3>1, UnboundedIsOpen
    <3> HIDE DEF start
    <3> QED
      BY <3>1, <3>2, <3>3, SpawnedIsSound
  <2> QED
    BY <1>1, <2>1, <2>2, OneRunKeeps DEF ExecutePlain
<1>2. ASSUME NEW e \in Executions, NEW extra, NEW installed \in BOOLEAN, NEW able \in BOOLEAN,
             ExecuteSandboxed(e, extra, installed, able)
      PROVE  SandboxInv'
  <2> DEFINE onLinux == handle.platform = "linux"
             config == [Started(extra, FALSE) EXCEPT
                          !.staged = ~onLinux, !.boundary = Boundary(handle.platform, handle.spec)]
             refused == [Started(extra, FALSE) EXCEPT
                          !.phase = "over", !.answer = Answer(FALSE, FALSE, FALSE)]
  <2>1. PICK x : /\ executions' = [executions EXCEPT ![e] = x]
                 /\ x \in IF Ready(handle.platform, installed, able) /\ Enforceable(handle.spec)
                            THEN Spawned(config, TRUE) ELSE {refused}
    BY <1>2 DEF ExecuteSandboxed
  <2>2. /\ handle' = handle /\ probe' = IF onLinux /\ installed THEN Probed(able) ELSE probe
        /\ probe = "able" => probe' = "able"
    BY <1>2 DEF ExecuteSandboxed, Probed
  <2>3. CASE Ready(handle.platform, installed, able)
    <3>1. onLinux => probe' = "able"
      BY <2>2, <2>3 DEF Ready, BubblewrapReady
    <3>2. /\ DOMAIN config = Fields /\ config.plain = FALSE /\ config.ran = "no"
          /\ config.answer = Unanswered
          /\ config.boundary = Boundary(handle.platform, handle.spec)
      BY StartedIsSound DEF Fields
    <3>5. /\ config.boundary.confined \in BOOLEAN
          /\ handle.platform # "win32" => config.boundary.confined
      <4>1. handle.platform \in {"darwin", "linux", "win32"}
        BY <2>3 DEF Ready
      <4> HIDE DEF config
      <4> QED
        BY <3>2, <4>1, BoundaryConfines
    <3>3. CASE x \in Spawned(config, TRUE)
      <4> HIDE DEF config
      <4>1. SoundRun(x) /\ Confines(x, probe')
        BY <3>1, <3>2, <3>3, <3>5, SpawnedIsSound
      <4> QED
        BY <2>1, <2>2, <4>1, OneRunKeeps
    <3>4. CASE x = refused
      <4>1. SoundRun(x) /\ Confines(x, probe')
        BY <3>4, RefusedIsSound
      <4> QED
        BY <2>1, <2>2, <4>1, OneRunKeeps
    <3> QED
      BY <2>1, <3>3, <3>4
  <2>4. CASE ~Ready(handle.platform, installed, able)
    <3>1. x = refused
      BY <2>1, <2>4
    <3>2. SoundRun(x) /\ Confines(x, probe')
      BY <3>1, RefusedIsSound
    <3> QED
      BY <2>1, <2>2, <3>2, OneRunKeeps
  <2> QED
    BY <2>3, <2>4
<1>3. ASSUME NEW e \in Executions, CommandStarts(e) PROVE SandboxInv'
  <2> DEFINE x == executions[e]
             y == [x EXCEPT !.ran = IF x.boundary.confined THEN "inside" ELSE "outside"]
  <2>1. SoundRun(x) /\ Confines(x, probe) /\ x.phase = "running"
    BY <1>3 DEF CommandStarts, SandboxInv
  <2>2. executions' = [executions EXCEPT ![e] = y]
    BY <1>3 DEF CommandStarts, SandboxInv
  <2> HIDE DEF x
  <2>3. SoundRun(y) /\ Confines(y, probe)
    BY <2>1 DEF SoundRun, Confines, Fields
  <2> HIDE DEF y
  <2> QED
    BY <1>3, <2>2, <2>3, OneRunKeeps DEF CommandStarts
<1>4. ASSUME NEW e \in Executions, ChildErrs(e) PROVE SandboxInv'
  <2> DEFINE x == executions[e]
             y == Finish(x, Answer(FALSE, FALSE, ~x.plain))
  <2>1. SoundRun(x) /\ Confines(x, probe) /\ x.phase = "running"
    BY <1>4 DEF ChildErrs, SandboxInv
  <2>2. executions' = [executions EXCEPT ![e] = y]
    BY <1>4 DEF ChildErrs, SandboxInv
  <2> HIDE DEF x
  <2>3. SoundRun(y) /\ Confines(y, probe)
    BY <2>1 DEF SoundRun, Confines, Fields, Finish, Answer
  <2> HIDE DEF y
  <2> QED
    BY <1>4, <2>2, <2>3, OneRunKeeps DEF ChildErrs
<1>5. ASSUME NEW e \in Executions, NEW zero \in BOOLEAN,
             NEW said \in RunnerOutputs(executions[e].ran), ChildCloses(e, zero, said)
      PROVE  SandboxInv'
  <2> DEFINE x == executions[e]
             told == SaysSandboxed(said)
             answer == IF x.plain THEN Answer(zero, FALSE, FALSE)
                       ELSE IF handle.platform # "win32" THEN Answer(zero, TRUE, TRUE)
                       ELSE Answer(told /\ zero, told, told)
             y == [Finish(x, answer) EXCEPT !.phase = "over", !.staged = FALSE]
  <2>1. SoundRun(x) /\ Confines(x, probe) /\ x.phase = "running"
    BY <1>5 DEF ChildCloses, SandboxInv
  <2>2. executions' = [executions EXCEPT ![e] = y]
    BY <1>5 DEF ChildCloses
  <2>3. /\ answer.sandboxed \in BOOLEAN
        /\ answer.sandboxed => ~x.plain
    <3>1. told \in BOOLEAN
      BY DEF SaysSandboxed
    <3> QED
      BY <2>1, <3>1 DEF Answer, SoundRun
  <2> HIDE DEF x, answer
  <2>4. SoundRun(y) /\ Confines(y, probe)
    <3>1. /\ DOMAIN y = Fields /\ y.plain = x.plain /\ y.ran = x.ran
          /\ y.boundary = x.boundary /\ y.phase = "over"
          /\ y.answer = x.answer \/ y.answer = answer
      BY <2>1 DEF SoundRun, Fields, Finish
    <3> HIDE DEF y
    <3> QED
      BY <2>1, <2>3, <3>1 DEF SoundRun, Confines
  <2> HIDE DEF y
  <2> QED
    BY <1>5, <2>2, <2>4, OneRunKeeps DEF ChildCloses
<1>6. CASE UNCHANGED sandboxVars
  BY <1>6 DEF sandboxVars, SandboxInv, SoundRun, Confines
<1> QED
  BY <1>1, <1>2, <1>3, <1>4, <1>5, <1>6 DEF SandboxNext

(* Seatbelt and bubblewrap: no command runs outside a sandbox unasked, and *)
(* none that did is answered for (sandbox index.ts, execute and the two    *)
(* backends), for any specifications and number of executions.             *)
THEOREM NothingFallsBack == SandboxSpec => []NeverFallsBack
<1>1. SandboxInit => SandboxInv
  BY NotStartedIsSound DEF SandboxInit, SandboxInv
<1>2. SandboxInv => NeverFallsBack
  BY DEF SandboxInv, SoundRun, Confines, NeverFallsBack
<1> QED
  BY <1>1, <1>2, SandboxStepInvariant, PTL DEF SandboxSpec

-----------------------------------------------------------------------------
(* What the sandbox lets a command read, write and see.                    *)

(* The names of an environment are some of those assigned.                 *)
LEMMA DedupedNames ==
  ASSUME NEW env, NEW v \in Deduped(env)
  PROVE  \E i \in DOMAIN env :
           v.name = env[Min({j \in DOMAIN env : Folded[env[j].name] = Folded[env[i].name]})].name
<1> DEFINE Named(name) == {j \in DOMAIN env : env[j].name = name}
           Alike(i) == {j \in DOMAIN env : Folded[env[j].name] = Folded[env[i].name]}
           LastKey(i) == Max({j \in Alike(i) : j = Min(Named(env[j].name))})
           Name(i) == env[Min(Alike(i))].name
           Latest(i) == env[Max(Named(env[LastKey(i)].name))].value
<1>1. v \in {[name |-> Name(i), value |-> Latest(i)] : i \in DOMAIN env}
  BY DEF Deduped
<1> HIDE DEF Latest, Name
<1>2. PICK i \in DOMAIN env : v = [name |-> Name(i), value |-> Latest(i)]
  BY <1>1
<1>3. v.name = Name(i)
  BY <1>2
<1> QED
  BY <1>3 DEF Name

(* A variable that a command gets was considered and allowed, but for the  *)
(* two that are always set.                                                *)
LEMMA EnvironmentNames ==
  ASSUME NEW spec \in SandboxSpecs, NEW extra \in ExtraNames,
         NEW v \in BuildEnvironment(spec, extra), v.name \notin {"HOME", "TMPDIR"}
  PROVE  Considered(spec, v.name) /\ v.name \in AllowedKeys(spec)
<1> DEFINE keys == DefaultSafeKeys \o spec.allow
           names == keys \o <<"HOME", "TMPDIR">> \o extra
           settled == Len(keys) + 1 .. Len(keys) + 2
           inherited == {i \in DOMAIN keys : Considered(spec, names[i]) /\ names[i] \in HostNames}
           overridden == {i \in DOMAIN names \ (DOMAIN keys \cup settled) :
                            Considered(spec, names[i]) /\ names[i] \in AllowedKeys(spec)}
           Given(i) == IF i \in overridden THEN "extra"
                       ELSE IF names[i] \in HostNames THEN "host" ELSE "default"
           at == inherited \cup settled \cup overridden
           env == [i \in at |-> [name |-> names[i], value |-> Given(i)]]
<1>1. spec.allow \in Seq(DOMAIN Folded) /\ extra \in Seq(DOMAIN Folded)
  BY SandboxConstants
<1> DEFINE Names == {"PATH", "HOME", "TMPDIR"} \cup DOMAIN Folded
<1>2. keys \in Seq(Names) /\ names \in Seq(Names)
  <2>1. /\ "PATH" \in Names /\ "HOME" \in Names /\ "TMPDIR" \in Names
        /\ DOMAIN Folded \subseteq Names
    OBVIOUS
  <2> HIDE DEF Names
  <2>2. DefaultSafeKeys \in Seq(Names) /\ <<"HOME", "TMPDIR">> \in Seq(Names)
    BY <2>1 DEF DefaultSafeKeys
  <2>3. spec.allow \in Seq(Names) /\ extra \in Seq(Names)
    BY <1>1, <2>1
  <2> QED
    BY <2>2, <2>3
<1> HIDE DEF Names
<1>3. /\ \A i \in DOMAIN keys : i \in DOMAIN names /\ names[i] = keys[i]
      /\ names[Len(keys) + 1] = "HOME" /\ names[Len(keys) + 2] = "TMPDIR"
      /\ Len(keys) \in Nat
  BY <1>1, <1>2
<1>4. \A i \in DOMAIN keys : keys[i] \in AllowedKeys(spec)
  BY <1>1 DEF AllowedKeys, ToSet, DefaultSafeKeys
<1>5. at \subseteq Nat
  BY <1>2
<1>6. BuildEnvironment(spec, extra) = Deduped(env)
  BY DEF BuildEnvironment
<1>7. \A i \in at : env[i].name = names[i]
  OBVIOUS
<1>8. DOMAIN env = at
  OBVIOUS
<1>9. \A i \in at : \/ names[i] \in {"HOME", "TMPDIR"}
                    \/ Considered(spec, names[i]) /\ names[i] \in AllowedKeys(spec)
  <2>1. \A i \in settled : i = Len(keys) + 1 \/ i = Len(keys) + 2
    BY <1>3
  <2> QED
    BY <1>3, <1>4, <2>1
<1> HIDE DEF env, at, keys, names
<1>10. PICK i \in DOMAIN env :
         v.name = env[Min({j \in DOMAIN env : Folded[env[j].name] = Folded[env[i].name]})].name
  <2>1. v \in Deduped(env)
    BY <1>6
  <2> QED
    BY <2>1, DedupedNames
<1> DEFINE alike == {j \in DOMAIN env : Folded[env[j].name] = Folded[env[i].name]}
<1>11. Min(alike) \in at
  <2>1. alike \in SUBSET Nat /\ alike # {} /\ alike \subseteq at
    BY <1>5, <1>8
  <2> HIDE DEF alike
  <2> QED
    BY <2>1, LeastExists
<1>12. v.name = names[Min(alike)]
  BY <1>7, <1>10, <1>11
<1> QED
  BY <1>9, <1>11, <1>12

(* What is within a directory that was granted for an operation is allowed *)
(* that operation by the policy layer.                                     *)
LEMMA GrantedIsAllowed ==
  ASSUME NEW spec, NEW op, NEW p \in Paths, WithinSome(p, Dirs(spec, op))
  PROVE  IsPathAllowed(p, Allowlist(spec), op)
<1>1. PICK entry \in Allowlist(spec) : op \in entry.ops /\ IsWithin(p, Canonical(entry.path), TRUE)
  BY DEF WithinSome, Dirs
<1>2. entry.recursive = TRUE
  BY DEF Allowlist
<1>3. Canonical(p) = p
  BY PathsAreReal
<1> QED
  BY <1>1, <1>2, <1>3 DEF IsPathAllowed

(* Where the specification can be enforced, a directory to be written is a *)
(* real one, and can be read.                                              *)
LEMMA WriteDirsAreReal ==
  ASSUME NEW spec, Enforceable(spec), NEW w \in Dirs(spec, "write")
  PROVE  w \in Paths /\ w \in Dirs(spec, "read")
<1>1. PICK entry \in Allowlist(spec) : "write" \in entry.ops /\ w = Canonical(entry.path)
  BY DEF Dirs
<1>2. entry.path \in DOMAIN Disk /\ Disk[entry.path].directory
  BY DEF Enforceable
<1>3. w \in Paths
  BY <1>1, <1>2, SandboxConstants DEF Canonical
<1>4. "read" \in entry.ops
  BY <1>1 DEF Allowlist
<1> QED
  BY <1>1, <1>3, <1>4 DEF Dirs

LEMMA WithinItself ==
  ASSUME NEW dirs, NEW d \in dirs
  PROVE  WithinSome(d, dirs)
  BY DEF WithinSome, IsWithin

LEMMA WithinMore ==
  ASSUME NEW p, NEW A, NEW B
  PROVE  WithinSome(p, A \cup B) <=> WithinSome(p, A) \/ WithinSome(p, B)
  BY DEF WithinSome

(* What BoundaryIsAsGranted says of one boundary.                          *)
Grants(platform, spec, b) ==
  LET open == Scratch(platform)
  IN  /\ \A p \in b.writable : WithinSome(p, open) \/ IsPathAllowed(p, Allowlist(spec), "write")
      /\ \A p \in b.readable : \/ WithinSome(p, open \cup SystemDirs[platform])
                               \/ IsPathAllowed(p, Allowlist(spec), "read")
      /\ \A w \in Dirs(spec, "write") :
            \/ w \in b.writable
            \/ platform = "linux" /\ WithinSome(w, ReadOnlyDirs(spec))
      /\ \A r \in CarveOutsAll(spec) \cap b.writable :
            \/ \E w \in Dirs(spec, "write") : IsStrictPrefix(r, w)
            \/ platform = "linux" /\ IsWithin(r, Canonical(Workspace), TRUE)

LEMMA SeatbeltGrants ==
  ASSUME NEW spec, Enforceable(spec)
  PROVE  Grants("darwin", spec, SeatbeltProfile(spec))
<1> DEFINE b == SeatbeltProfile(spec)
           written == Dirs(spec, "write")
<1>1. Scratch("darwin") = {Canonical(Workspace), Canonical(Tmp)}
  BY DEF Scratch
<1>2. ASSUME NEW p \in b.writable
      PROVE  /\ p \in Paths /\ ~WithinSome(p, CarveOuts(spec))
             /\ WithinSome(p, Scratch("darwin")) \/ WithinSome(p, written)
  <2>1. /\ p \in Paths /\ ~WithinSome(p, CarveOuts(spec))
        /\ WithinSome(p, {Canonical(Workspace), Canonical(Tmp)} \cup written)
    BY DEF SeatbeltProfile
  <2> QED
    BY <1>1, <2>1, WithinMore
<1>3. ASSUME NEW p \in b.readable
      PROVE  \/ WithinSome(p, Scratch("darwin") \cup SystemDirs["darwin"])
             \/ IsPathAllowed(p, Allowlist(spec), "read")
  <2>1. p \in Paths /\ WithinSome(p, SystemDirs["darwin"] \cup {Canonical(Workspace)}
                                       \cup Dirs(spec, "read"))
    BY DEF SeatbeltProfile
  <2>2. CASE WithinSome(p, Dirs(spec, "read"))
    BY <2>1, <2>2, GrantedIsAllowed
  <2>3. CASE ~WithinSome(p, Dirs(spec, "read"))
    BY <1>1, <2>1, <2>3 DEF WithinSome
  <2> QED
    BY <2>2, <2>3
<1>4. ASSUME NEW w \in written PROVE w \in b.writable
  <2>1. w \in Paths
    BY WriteDirsAreReal
  <2>2. WithinSome(w, {Canonical(Workspace), Canonical(Tmp)} \cup written)
    BY WithinItself, WithinMore
  <2>3. ~WithinSome(w, CarveOuts(spec))
    BY DEF WithinSome, IsWithin, CarveOuts, ReadOnlyDirs
  <2> QED
    BY <2>1, <2>2, <2>3 DEF SeatbeltProfile
<1>5. ASSUME NEW r \in CarveOutsAll(spec) \cap b.writable
      PROVE  \E w \in written : IsStrictPrefix(r, w)
  <2>1. r \in ReadOnlyDirs(spec) /\ r \notin CarveOuts(spec)
    BY <1>2, WithinItself DEF CarveOutsAll
  <2> QED
    BY <2>1 DEF CarveOuts
<1>6. \A p \in b.writable :
        WithinSome(p, Scratch("darwin")) \/ IsPathAllowed(p, Allowlist(spec), "write")
  BY <1>2, GrantedIsAllowed
<1> HIDE DEF b
<1>7. Grants("darwin", spec, b)
  BY <1>3, <1>4, <1>5, <1>6 DEF Grants
<1> QED
  BY <1>7 DEF b

(* The mount that decides about a path is one of those that cover it, and  *)
(* no later one does.                                                      *)
LEMMA LastMount ==
  ASSUME NEW S \in SUBSET (1..5), S # {}
  PROVE  Max(S) \in S /\ \A i \in S : i <= Max(S)
<1>1. \E x \in S : \A y \in S : x >= y
  <2>1. CASE 5 \in S
    BY <2>1
  <2>2. CASE 5 \notin S /\ 4 \in S
    BY <2>2
  <2>3. CASE 5 \notin S /\ 4 \notin S /\ 3 \in S
    BY <2>3
  <2>4. CASE 5 \notin S /\ 4 \notin S /\ 3 \notin S /\ 2 \in S
    BY <2>4
  <2>5. CASE 5 \notin S /\ 4 \notin S /\ 3 \notin S /\ 2 \notin S
    <3>1. \A x \in S : x = 1
      BY <2>5
    <3>2. 1 \in S
      BY <3>1
    <3> QED
      BY <3>1, <3>2
  <2> QED
    BY <2>1, <2>2, <2>3, <2>4, <2>5
<1> QED
  BY <1>1 DEF Max

(* The mode of a path by the mounts, whose places are read off once.       *)
LEMMA ModeByMount ==
  ASSUME NEW spec, NEW p, ModeOf(spec, p) \in {"readOnly", "bound"}
  PROVE  \/ ModeOf(spec, p) = "readOnly" /\ WithinSome(p, SystemDirs["linux"])
         \/ ModeOf(spec, p) = "bound" /\ WithinSome(p, Dirs(spec, "write"))
            /\ ~WithinSome(p, ReadOnlyDirs(spec))
         \/ ModeOf(spec, p) = "readOnly" /\ WithinSome(p, ReadOnlyDirs(spec))
         \/ ModeOf(spec, p) = "bound" /\ WithinSome(p, {Canonical(Workspace)})
<1> DEFINE mounts == Mounts(spec)
           covering == {i \in DOMAIN mounts : WithinSome(p, mounts[i].dirs)}
<1>1. /\ DOMAIN mounts = 1..5
      /\ mounts[1].dirs = SystemDirs["linux"] /\ mounts[1].mode = "readOnly"
      /\ mounts[2].mode = "private"
      /\ mounts[3].dirs = Dirs(spec, "write") /\ mounts[3].mode = "bound"
      /\ mounts[4].dirs = ReadOnlyDirs(spec) /\ mounts[4].mode = "readOnly"
      /\ mounts[5].dirs = {Canonical(Workspace)} /\ mounts[5].mode = "bound"
  BY DEF Mounts
<1>2. ModeOf(spec, p) = IF covering = {} THEN "absent" ELSE mounts[Max(covering)].mode
  BY DEF ModeOf
<1> HIDE DEF mounts
<1>3. covering \in SUBSET (1..5) /\ covering # {}
  BY <1>1, <1>2
<1>4. \A i \in 1..5 : i \in covering <=> WithinSome(p, mounts[i].dirs)
  BY <1>1
<1> HIDE DEF covering
<1>5. Max(covering) \in covering /\ \A i \in covering : i <= Max(covering)
  BY <1>3, LastMount
<1>6. ModeOf(spec, p) = mounts[Max(covering)].mode
  BY <1>2, <1>3
<1> DEFINE last == Max(covering)
<1>7. last \in 1..5 /\ last \in covering /\ (4 \in covering => 4 <= last)
  BY <1>3, <1>5
<1> HIDE DEF last
<1>8. last \in {1, 2, 3, 4, 5}
  BY <1>7
<1>9. ModeOf(spec, p) = mounts[last].mode
  BY <1>6 DEF last
<1> QED
  BY <1>1, <1>4, <1>7, <1>8, <1>9

(* And what is to be written is, unless a mount that is only read covers   *)
(* it; what is only read is not, unless the workspace does.                *)
LEMMA ModeOfGranted ==
  ASSUME NEW spec, NEW p
  PROVE  /\ WithinSome(p, Dirs(spec, "write")) /\ ~WithinSome(p, ReadOnlyDirs(spec))
              => ModeOf(spec, p) = "bound"
         /\ WithinSome(p, ReadOnlyDirs(spec)) /\ ~WithinSome(p, {Canonical(Workspace)})
              => ModeOf(spec, p) # "bound"
<1> DEFINE mounts == Mounts(spec)
           covering == {i \in DOMAIN mounts : WithinSome(p, mounts[i].dirs)}
<1>1. /\ DOMAIN mounts = 1..5
      /\ mounts[3].dirs = Dirs(spec, "write") /\ mounts[3].mode = "bound"
      /\ mounts[4].dirs = ReadOnlyDirs(spec) /\ mounts[4].mode = "readOnly"
      /\ mounts[5].dirs = {Canonical(Workspace)} /\ mounts[5].mode = "bound"
  BY DEF Mounts
<1>2. ModeOf(spec, p) = IF covering = {} THEN "absent" ELSE mounts[Max(covering)].mode
  BY DEF ModeOf
<1> HIDE DEF mounts
<1>3. covering \in SUBSET (1..5)
  BY <1>1
<1>4. \A i \in 1..5 : i \in covering <=> WithinSome(p, mounts[i].dirs)
  BY <1>1
<1> HIDE DEF covering
<1> DEFINE last == Max(covering)
<1>5. covering # {} =>
        last \in 1..5 /\ last \in covering /\ \A i \in covering : i <= last
  BY <1>3, LastMount
<1>6. covering # {} => ModeOf(spec, p) = mounts[last].mode
  BY <1>2
<1> HIDE DEF last
<1>7. ASSUME WithinSome(p, Dirs(spec, "write")), ~WithinSome(p, ReadOnlyDirs(spec))
      PROVE  ModeOf(spec, p) = "bound"
  <2>1. 3 \in covering /\ 4 \notin covering
    BY <1>1, <1>4, <1>7
  <2>2. last = 3 \/ last = 5
    BY <1>5, <2>1
  <2> QED
    BY <1>1, <1>6, <2>1, <2>2
<1>8. ASSUME WithinSome(p, ReadOnlyDirs(spec)), ~WithinSome(p, {Canonical(Workspace)})
      PROVE  ModeOf(spec, p) # "bound"
  <2>1. 4 \in covering /\ 5 \notin covering
    BY <1>1, <1>4, <1>8
  <2>2. last = 4
    BY <1>5, <2>1
  <2> QED
    BY <1>1, <1>6, <2>1, <2>2
<1> QED
  BY <1>7, <1>8

LEMMA BubblewrapGrants ==
  ASSUME NEW spec, Enforceable(spec)
  PROVE  Grants("linux", spec, BubblewrapMounts(spec))
<1> DEFINE b == BubblewrapMounts(spec)
<1>1. Scratch("linux") = {Canonical(Workspace)}
  BY DEF Scratch
<1>2. ASSUME NEW p \in b.writable
      PROVE  WithinSome(p, Scratch("linux")) \/ IsPathAllowed(p, Allowlist(spec), "write")
  <2>1. p \in Paths /\ ModeOf(spec, p) = "bound"
    BY DEF BubblewrapMounts
  <2>2. WithinSome(p, Dirs(spec, "write")) \/ WithinSome(p, {Canonical(Workspace)})
    BY <2>1, ModeByMount
  <2> QED
    BY <1>1, <2>1, <2>2, GrantedIsAllowed
<1>3. ASSUME NEW p \in b.readable
      PROVE  \/ WithinSome(p, Scratch("linux") \cup SystemDirs["linux"])
             \/ IsPathAllowed(p, Allowlist(spec), "read")
  <2>1. p \in Paths /\ ModeOf(spec, p) \in {"readOnly", "bound"}
    BY DEF BubblewrapMounts
  <2>2. \/ WithinSome(p, SystemDirs["linux"]) \/ WithinSome(p, {Canonical(Workspace)})
        \/ WithinSome(p, Dirs(spec, "write")) \/ WithinSome(p, ReadOnlyDirs(spec))
    BY <2>1, ModeByMount
  <2>3. CASE WithinSome(p, Dirs(spec, "write")) \/ WithinSome(p, ReadOnlyDirs(spec))
    <3>1. WithinSome(p, Dirs(spec, "read"))
      BY <2>3, WriteDirsAreReal DEF WithinSome, ReadOnlyDirs
    <3> QED
      BY <2>1, <3>1, GrantedIsAllowed
  <2>4. CASE WithinSome(p, SystemDirs["linux"]) \/ WithinSome(p, {Canonical(Workspace)})
    BY <1>1, <2>4, WithinMore
  <2> QED
    BY <2>2, <2>3, <2>4
<1>4. ASSUME NEW w \in Dirs(spec, "write")
      PROVE  w \in b.writable \/ WithinSome(w, ReadOnlyDirs(spec))
  <2>1. w \in Paths /\ WithinSome(w, Dirs(spec, "write"))
    BY WriteDirsAreReal, WithinItself
  <2>2. WithinSome(w, ReadOnlyDirs(spec)) \/ ModeOf(spec, w) = "bound"
    BY <2>1, ModeOfGranted
  <2> QED
    BY <2>1, <2>2 DEF BubblewrapMounts
<1>5. ASSUME NEW r \in CarveOutsAll(spec) \cap b.writable
      PROVE  IsWithin(r, Canonical(Workspace), TRUE)
  <2>1. ModeOf(spec, r) = "bound" /\ WithinSome(r, ReadOnlyDirs(spec))
    BY WithinItself DEF BubblewrapMounts, CarveOutsAll
  <2>2. WithinSome(r, {Canonical(Workspace)})
    BY <2>1, ModeOfGranted
  <2> QED
    BY <2>2 DEF WithinSome
<1> HIDE DEF b
<1>6. Grants("linux", spec, b)
  BY <1>2, <1>3, <1>4, <1>5 DEF Grants
<1> QED
  BY <1>6 DEF b

(* What an execution that was started has: the boundary of its platform    *)
(* over a specification that can be enforced, or none, and one of the      *)
(* environments that specification gives.                                  *)
Prepared(x) ==
  /\ \/ x.boundary = Unbounded
     \/ /\ Enforceable(handle.spec) /\ handle.platform \in {"darwin", "linux", "win32"}
        /\ x.boundary = Boundary(handle.platform, handle.spec)
  /\ \/ x.environment = {}
     \/ \E extra \in ExtraNames : x.environment = BuildEnvironment(handle.spec, extra)

PreparedInv ==
  /\ handle.spec \in SandboxSpecs
  /\ DOMAIN executions = Executions
  /\ \A e \in Executions : DOMAIN executions[e] = Fields /\ Prepared(executions[e])

(* Only starting sets what Prepared reads.                                 *)
LEMMA OnePreparedKeeps ==
  ASSUME PreparedInv, NEW e \in Executions, NEW x, executions' = [executions EXCEPT ![e] = x],
         handle' = handle, DOMAIN x = Fields, Prepared(x)
  PROVE  PreparedInv'
<1>1. DOMAIN executions' = Executions /\ handle'.spec \in SandboxSpecs
  BY DEF PreparedInv
<1>2. ASSUME NEW d \in Executions
      PROVE  DOMAIN executions'[d] = Fields /\ Prepared(executions'[d])
  <2>1. executions'[d] = IF d = e THEN x ELSE executions[d]
    BY DEF PreparedInv
  <2> QED
    BY <2>1 DEF PreparedInv
<1>3. ASSUME NEW d \in Executions PROVE Prepared(executions[d])'
  BY <1>2 DEF Prepared
<1> QED
  BY <1>1, <1>2, <1>3 DEF PreparedInv

LEMMA PreparedStays ==
  ASSUME PreparedInv, NEW e \in Executions, NEW x, executions' = [executions EXCEPT ![e] = x],
         handle' = handle, DOMAIN x = Fields, x.boundary = executions[e].boundary,
         x.environment = executions[e].environment
  PROVE  PreparedInv'
<1>1. Prepared(x)
  BY DEF PreparedInv, Prepared
<1> QED
  BY <1>1, OnePreparedKeeps

LEMMA StartedIsPrepared ==
  ASSUME NEW extra \in ExtraNames, NEW plain \in BOOLEAN
  PROVE  /\ DOMAIN Started(extra, plain) = Fields
         /\ Started(extra, plain).boundary = Unbounded
         /\ Started(extra, plain).environment = BuildEnvironment(handle.spec, extra)
  BY DEF Started, NotStarted, Fields

LEMMA SpawnedIsPrepared ==
  ASSUME NEW x, DOMAIN x = Fields, Prepared(x), NEW verified, NEW y \in Spawned(x, verified)
  PROVE  DOMAIN y = Fields /\ Prepared(y)
<1>1. DOMAIN y = Fields /\ y.boundary = x.boundary /\ y.environment = x.environment
  <2>1. CASE y = [x EXCEPT !.phase = "running"]
    BY <2>1 DEF Fields
  <2>2. CASE y = [x EXCEPT !.phase = "over", !.answer = Answer(FALSE, FALSE, verified)]
    BY <2>2 DEF Fields
  <2> QED
    BY <2>1, <2>2 DEF Spawned
<1> QED
  BY <1>1 DEF Prepared

LEMMA PreparedStepInvariant == PreparedInv /\ [SandboxNext]_sandboxVars => PreparedInv'
<1> SUFFICES ASSUME PreparedInv, [SandboxNext]_sandboxVars PROVE PreparedInv'
  OBVIOUS
<1>1. ASSUME NEW e \in Executions, NEW extra \in ExtraNames, ExecutePlain(e, extra)
      PROVE  PreparedInv'
  <2> DEFINE start == Started(extra, TRUE)
  <2>1. PICK x \in Spawned(start, FALSE) : executions' = [executions EXCEPT ![e] = x]
    BY <1>1 DEF ExecutePlain
  <2>2. DOMAIN start = Fields /\ Prepared(start)
    BY StartedIsPrepared DEF Prepared
  <2> HIDE DEF start
  <2>3. DOMAIN x = Fields /\ Prepared(x)
    BY <2>1, <2>2, SpawnedIsPrepared
  <2> QED
    BY <1>1, <2>1, <2>3, OnePreparedKeeps DEF ExecutePlain
<1>2. ASSUME NEW e \in Executions, NEW extra \in ExtraNames,
             NEW installed \in BOOLEAN, NEW able \in BOOLEAN,
             ExecuteSandboxed(e, extra, installed, able)
      PROVE  PreparedInv'
  <2> DEFINE start == Started(extra, FALSE)
             onLinux == handle.platform = "linux"
             config == [start EXCEPT
                          !.staged = ~onLinux, !.boundary = Boundary(handle.platform, handle.spec)]
             refused == [start EXCEPT !.phase = "over", !.answer = Answer(FALSE, FALSE, FALSE)]
  <2>1. PICK x : /\ executions' = [executions EXCEPT ![e] = x]
                 /\ x \in IF Ready(handle.platform, installed, able) /\ Enforceable(handle.spec)
                            THEN Spawned(config, TRUE) ELSE {refused}
    BY <1>2 DEF ExecuteSandboxed
  <2>2. /\ DOMAIN start = Fields /\ start.boundary = Unbounded
        /\ start.environment = BuildEnvironment(handle.spec, extra)
    BY StartedIsPrepared
  <2> HIDE DEF start
  <2>3. CASE Ready(handle.platform, installed, able) /\ Enforceable(handle.spec)
    <3>1. handle.platform \in {"darwin", "linux", "win32"}
      BY <2>3 DEF Ready
    <3>2. DOMAIN config = Fields /\ Prepared(config)
      BY <2>2, <2>3, <3>1 DEF Prepared, Fields
    <3> HIDE DEF config
    <3>3. DOMAIN x = Fields /\ Prepared(x)
      BY <2>1, <2>3, <3>2, SpawnedIsPrepared
    <3> QED
      BY <1>2, <2>1, <3>3, OnePreparedKeeps DEF ExecuteSandboxed
  <2>4. CASE ~(Ready(handle.platform, installed, able) /\ Enforceable(handle.spec))
    <3>1. x = refused
      BY <2>1, <2>4
    <3>2. DOMAIN x = Fields /\ Prepared(x)
      BY <2>2, <3>1 DEF Prepared, Fields
    <3> QED
      BY <1>2, <2>1, <3>2, OnePreparedKeeps DEF ExecuteSandboxed
  <2> QED
    BY <2>3, <2>4
<1>3. ASSUME NEW e \in Executions, CommandStarts(e) PROVE PreparedInv'
  <2> DEFINE x == [executions[e] EXCEPT
                     !.ran = IF executions[e].boundary.confined THEN "inside" ELSE "outside"]
  <2>1. executions' = [executions EXCEPT ![e] = x] /\ handle' = handle
    BY <1>3 DEF CommandStarts, PreparedInv
  <2>2. /\ DOMAIN x = Fields /\ x.boundary = executions[e].boundary
        /\ x.environment = executions[e].environment
    BY DEF PreparedInv, Fields
  <2> HIDE DEF x
  <2> QED
    BY <2>1, <2>2, PreparedStays
<1>4. ASSUME NEW e \in Executions, ChildErrs(e) PROVE PreparedInv'
  <2> DEFINE x == Finish(executions[e], Answer(FALSE, FALSE, ~executions[e].plain))
  <2>1. executions' = [executions EXCEPT ![e] = x] /\ handle' = handle
    BY <1>4 DEF ChildErrs, PreparedInv
  <2>2. /\ DOMAIN x = Fields /\ x.boundary = executions[e].boundary
        /\ x.environment = executions[e].environment
    BY DEF PreparedInv, Fields, Finish
  <2> HIDE DEF x
  <2> QED
    BY <2>1, <2>2, PreparedStays
<1>5. ASSUME NEW e \in Executions, NEW zero \in BOOLEAN,
             NEW said \in RunnerOutputs(executions[e].ran), ChildCloses(e, zero, said)
      PROVE  PreparedInv'
  <2> DEFINE told == SaysSandboxed(said)
             answer == IF executions[e].plain THEN Answer(zero, FALSE, FALSE)
                       ELSE IF handle.platform # "win32" THEN Answer(zero, TRUE, TRUE)
                       ELSE Answer(told /\ zero, told, told)
             x == [Finish(executions[e], answer) EXCEPT !.phase = "over", !.staged = FALSE]
  <2>1. executions' = [executions EXCEPT ![e] = x] /\ handle' = handle
    BY <1>5 DEF ChildCloses
  <2> HIDE DEF answer
  <2>2. /\ DOMAIN x = Fields /\ x.boundary = executions[e].boundary
        /\ x.environment = executions[e].environment
    BY DEF PreparedInv, Fields, Finish
  <2> HIDE DEF x
  <2> QED
    BY <2>1, <2>2, PreparedStays
<1>6. CASE UNCHANGED sandboxVars
  BY <1>6 DEF sandboxVars, PreparedInv, Prepared
<1> QED
  BY <1>1, <1>2, <1>3, <1>4, <1>5, <1>6 DEF SandboxNext

LEMMA PreparedIsConfined == PreparedInv => ConfinedAsGranted
<1> SUFFICES ASSUME PreparedInv PROVE ConfinedAsGranted
  OBVIOUS
<1>1. ASSUME NEW e \in Executions, executions[e].boundary.confined
      PROVE  Grants(handle.platform, handle.spec, executions[e].boundary)
  <2>1. /\ Enforceable(handle.spec) /\ handle.platform \in {"darwin", "linux", "win32"}
        /\ executions[e].boundary = Boundary(handle.platform, handle.spec)
    BY <1>1, UnboundedIsOpen DEF PreparedInv, Prepared
  <2>2. CASE handle.platform = "darwin"
    BY <2>1, <2>2, SeatbeltGrants DEF Boundary
  <2>3. CASE handle.platform = "linux"
    BY <2>1, <2>3, BubblewrapGrants DEF Boundary
  <2>4. CASE handle.platform = "win32"
    BY <1>1, <2>1, <2>4, UnboundedIsOpen DEF Boundary
  <2> QED
    BY <2>1, <2>2, <2>3, <2>4
<1>2. BoundaryIsAsGranted
  BY <1>1 DEF BoundaryIsAsGranted, Grants
<1>3. ASSUME NEW e \in Executions, NEW v \in executions[e].environment,
             v.name \notin {"HOME", "TMPDIR"}
      PROVE  v.name \notin SecretShaped /\ Folded[v.name] \notin {Folded[d] : d \in handle.spec.deny}
  <2>1. PICK extra \in ExtraNames : executions[e].environment = BuildEnvironment(handle.spec, extra)
    BY <1>3 DEF PreparedInv, Prepared
  <2> QED
    BY <1>3, <2>1, EnvironmentNames DEF PreparedInv, Considered
<1>4. ASSUME NEW e \in Executions, NEW extra \in ExtraNames,
             executions[e].environment = BuildEnvironment(handle.spec, extra),
             NEW v \in executions[e].environment, v.name \notin {"HOME", "TMPDIR"}
      PROVE  v.name \notin Drops(handle.spec, extra)
  <2>1. Considered(handle.spec, v.name) /\ v.name \in AllowedKeys(handle.spec)
    BY <1>4, EnvironmentNames DEF PreparedInv
  <2> QED
    BY <2>1 DEF Considered, Drops
<1>5. EnvironmentIsClean
  BY <1>3, <1>4 DEF EnvironmentIsClean
<1> QED
  BY <1>2, <1>5 DEF ConfinedAsGranted

(* A command confined by Seatbelt or bubblewrap reads and writes what its  *)
(* specification grants, and the environment any backend is handed holds   *)
(* nothing denied, secret-shaped or reported as dropped (path.ts, env.ts,  *)
(* darwin.ts, linux.ts), for any tree, specification and environment.      *)
THEOREM ConfinesAsGranted == SandboxSpec => []ConfinedAsGranted
<1>1. SandboxInit => PreparedInv
  BY DEF SandboxInit, PreparedInv, Prepared, NotStarted, Fields
<1> QED
  BY <1>1, PreparedStepInvariant, PreparedIsConfined, PTL DEF SandboxSpec
-----------------------------------------------------------------------------
(* The credential vault (CredentialVault).                                 *)

(* A credential is kept under an id that was given out, and there is one   *)
(* of a scope and class.                                                   *)
VaultInv ==
  /\ stored \in Nat
  /\ DOMAIN vault \subseteq 1..stored
  /\ \A i, j \in DOMAIN vault :
       vault[i].scope = vault[j].scope /\ vault[i].class = vault[j].class => i = j

LEMMA DroppingEffect ==
  ASSUME NEW gone, vault' = Dropping(gone)
  PROVE  /\ DOMAIN vault' = DOMAIN vault \ gone
         /\ \A id \in DOMAIN vault' : vault'[id] = vault[id]
  BY DEF Dropping

(* What store() leaves: the new credential, and the others but for the one *)
(* it takes the place of.                                                  *)
LEMMA StoreEffect ==
  ASSUME NEW scope, NEW class, NEW expiresAt, Store(scope, class, expiresAt), VaultInv
  PROVE  /\ stored' = stored + 1 /\ stored' \in Nat
         /\ DOMAIN vault' \subseteq DOMAIN vault \cup {stored'}
         /\ vault'[stored'].scope = scope /\ vault'[stored'].class = class
         /\ \A id \in DOMAIN vault' \ {stored'} :
              /\ vault'[id] = vault[id]
              /\ ~(vault[id].scope = scope /\ vault[id].class = class)
<1> DEFINE existing == {id \in DOMAIN vault : vault[id].scope = scope /\ vault[id].class = class}
           record == [scope |-> scope, class |-> class, expiresAt |-> expiresAt]
<1>1. record.scope = scope /\ record.class = class
  OBVIOUS
<1>2. /\ stored' = stored + 1
      /\ vault' = [id \in (DOMAIN vault \ existing) \cup {stored'} |->
                     IF id = stored' THEN record ELSE vault[id]]
  BY DEF Store
<1> HIDE DEF record
<1>3. /\ DOMAIN vault' = (DOMAIN vault \ existing) \cup {stored'}
      /\ vault'[stored'] = record
      /\ \A id \in DOMAIN vault' \ {stored'} : vault'[id] = vault[id]
  BY <1>2
<1> QED
  BY <1>1, <1>2, <1>3 DEF VaultInv

LEMMA VaultStepInvariant == VaultInv /\ [VaultNext]_vaultVars => VaultInv'
<1> SUFFICES ASSUME VaultInv, [VaultNext]_vaultVars PROVE VaultInv'
  OBVIOUS
<1>1. ASSUME NEW scope, NEW class, NEW expiresAt, Store(scope, class, expiresAt)
      PROVE  VaultInv'
  <2>1. /\ stored' = stored + 1 /\ stored' \in Nat
        /\ DOMAIN vault' \subseteq DOMAIN vault \cup {stored'}
        /\ vault'[stored'].scope = scope /\ vault'[stored'].class = class
        /\ \A id \in DOMAIN vault' \ {stored'} :
             /\ vault'[id] = vault[id]
             /\ ~(vault[id].scope = scope /\ vault[id].class = class)
    BY <1>1, StoreEffect
  <2>2. DOMAIN vault' \subseteq 1..stored'
    BY <2>1 DEF VaultInv
  <2>3. ASSUME NEW i \in DOMAIN vault', NEW j \in DOMAIN vault',
               vault'[i].scope = vault'[j].scope, vault'[i].class = vault'[j].class
        PROVE  i = j
    <3>1. CASE i = stored' \/ j = stored'
      BY <2>1, <2>3, <3>1
    <3>2. CASE i # stored' /\ j # stored'
      BY <2>1, <2>3, <3>2 DEF VaultInv
    <3> QED
      BY <3>1, <3>2
  <2> QED
    BY <2>1, <2>2, <2>3 DEF VaultInv
<1>2. ASSUME NEW gone, vault' = Dropping(gone), stored' = stored PROVE VaultInv'
  <2>1. /\ DOMAIN vault' = DOMAIN vault \ gone
        /\ \A id \in DOMAIN vault' : vault'[id] = vault[id]
    BY <1>2, DroppingEffect
  <2> QED
    BY <1>2, <2>1 DEF VaultInv
<1>3. ASSUME NEW id, RevokeCredential(id) PROVE VaultInv'
  BY <1>2, <1>3 DEF RevokeCredential
<1>4. ASSUME NEW scope, RevokeScope(scope) PROVE VaultInv'
  BY <1>2, <1>4 DEF RevokeScope
<1>5. CASE PurgeExpired
  BY <1>2, <1>5 DEF PurgeExpired
<1>6. CASE InstantPasses \/ UNCHANGED vaultVars
  BY <1>6 DEF InstantPasses, vaultVars, VaultInv
<1> QED
  BY <1>1, <1>3, <1>4, <1>5, <1>6 DEF VaultNext

(* Storing, revoking and purging never leave two credentials of one scope  *)
(* and class (credentials.ts, store and findExact), however many there     *)
(* are: a lookup cannot go on finding the one that was replaced.           *)
THEOREM OneCredentialPerScope == VaultSpec => []VaultInv
<1>1. VaultInit => VaultInv
  BY DEF VaultInit, VaultInv
<1> QED
  BY <1>1, VaultStepInvariant, PTL DEF VaultSpec

(* What fits a scope and is found by a narrower lookup fits the scope.     *)
LEMMA NarrowerFits ==
  ASSUME NEW record, NEW scope, NEW lookup, Fits(record, lookup),
         lookup.server = scope.server, \A f \in Narrowing : scope[f] \in {"none", lookup[f]}
  PROVE  Fits(record, scope)
<1>1. ASSUME NEW f \in Narrowing
      PROVE  "none" \in {scope[f], record.scope[f]} \/ record.scope[f] = scope[f]
  BY DEF Fits
<1> QED
  BY <1>1 DEF Fits

(* A purge changes no answer (credentials.ts, purgeExpired and retrieve).  *)
THEOREM PurgesAreInvisible == VaultSpec => PurgeIsInvisible
<1>1. ASSUME PurgeExpired, NEW scope \in Scopes
      PROVE  Retrieve(vault', scope) = Retrieve(vault, scope)
  <2> DEFINE Found(records) ==
        {i \in DOMAIN records : Usable(records[i]) /\ Fits(records[i], scope)}
  <2>1. /\ DOMAIN vault' = DOMAIN vault \ {id \in DOMAIN vault : ~Usable(vault[id])}
        /\ \A id \in DOMAIN vault' : vault'[id] = vault[id]
    BY <1>1, DroppingEffect DEF PurgeExpired
  <2>2. Found(vault') = Found(vault)
    BY <2>1
  <2>3. \A i \in Found(vault) : vault'[i] = vault[i]
    BY <2>1
  <2> HIDE DEF Found
  <2> DEFINE Best(records) ==
        {i \in Found(records) : \A j \in Found(records) :
           \/ Specificity(records[j], scope) < Specificity(records[i], scope)
           \/ /\ Specificity(records[j], scope) = Specificity(records[i], scope)
              /\ j <= i}
  <2>4. Best(vault') = Best(vault)
    BY <2>2, <2>3
  <2>5. \A records : Retrieve(records, scope) = {records[i] : i \in Best(records)}
    BY DEF Retrieve, Found
  <2>6. \A i \in Best(vault) : vault'[i] = vault[i]
    BY <2>3
  <2> HIDE DEF Best
  <2> QED
    BY <2>4, <2>5, <2>6
<1>2. [VaultNext]_vaultVars =>
        [PurgeExpired => \A scope \in Scopes :
           Retrieve(vault', scope) = Retrieve(vault, scope)]_vaultVars
  BY <1>1
<1> QED
  BY <1>2, PTL DEF VaultSpec, PurgeIsInvisible

(* Revoking a scope reaches every credential a lookup of it could use      *)
(* (credentials.ts, revokeScope).                                          *)
THEOREM RevocationsReach == VaultSpec => RevocationReaches
<1>1. ASSUME NEW scope \in Scopes, RevokeScope(scope), NEW lookup \in Scopes,
             lookup.server = scope.server,
             \A f \in Narrowing : scope[f] \in {"none", lookup[f]}
      PROVE  Retrieve(vault', lookup) = {}
  <2>1. /\ DOMAIN vault' = DOMAIN vault \ {id \in DOMAIN vault : Fits(vault[id], scope)}
        /\ \A id \in DOMAIN vault' : vault'[id] = vault[id]
    BY <1>1, DroppingEffect DEF RevokeScope
  <2>2. \A id \in DOMAIN vault' : ~Fits(vault'[id], lookup)
    BY <1>1, <2>1, NarrowerFits
  <2> QED
    BY <2>2 DEF Retrieve
<1>2. [VaultNext]_vaultVars =>
        [\A scope \in Scopes : RevokeScope(scope) =>
           \A lookup \in Scopes :
              /\ lookup.server = scope.server
              /\ \A f \in Narrowing : scope[f] \in {"none", lookup[f]}
              => Retrieve(vault', lookup) = {}]_vaultVars
  BY <1>1
<1> QED
  BY <1>2, PTL DEF VaultSpec, RevocationReaches
-----------------------------------------------------------------------------
(* Texts on the wire (WireProtocol).                                       *)

Kinds == {"challenge", "pairing", "approval", "pairing_response"}

(* A text as its maker sends it.                                           *)
IsSent(text) ==
  /\ text.kind \in Kinds /\ text.prefix = PrefixOf[text.kind]
  /\ text.form = "canonical" /\ text.version = "v1"
  /\ DOMAIN text = {"prefix", "form", "version", "kind", "fields", "signature"}
  /\ DOMAIN text.fields = FieldsOf[text.kind]
  /\ text.signature.key \in Good /\ text.signature.body = SigningBody(text)

LEMMA SignedIs ==
  ASSUME NEW kind \in Kinds, NEW fields, DOMAIN fields = FieldsOf[kind], NEW key \in Good,
         NEW text, text = Signed(kind, fields, key)
  PROVE  /\ IsSent(text) /\ text.kind = kind /\ text.fields = fields
         /\ text.signature = [key |-> key, body |-> SigningBody(text)]
<1>1. /\ text.kind = kind /\ text.fields = fields /\ text.prefix = PrefixOf[kind]
      /\ text.form = "canonical" /\ text.version = "v1"
      /\ DOMAIN text = {"prefix", "form", "version", "kind", "fields", "signature"}
      /\ text.signature = [key |-> key, body |-> SigningBody([kind |-> kind, fields |-> fields])]
  BY DEF Signed
<1>2. SigningBody([kind |-> kind, fields |-> fields]) = SigningBody(text)
  BY <1>1 DEF SigningBody, Field
<1> QED
  BY <1>1, <1>2 DEF IsSent

LEMMA CreatedIs ==
  ASSUME NEW kind \in {"challenge", "pairing"}, NEW values, NEW key \in Good,
         NEW text, text = Created(kind, values, key)
  PROVE  /\ IsSent(text) /\ text.kind = kind /\ text.signature.key = key
         /\ DOMAIN text.fields = FieldsOf[kind]
         /\ \A f \in FieldsOf[kind] :
              text.fields[f] = IF f = "hostPublicKey" THEN key ELSE values[f]
         /\ Authentic(text, key)
<1> DEFINE fields == [f \in FieldsOf[kind] |->
                        IF f = "hostPublicKey" THEN key ELSE values[f]]
<1>1. kind \in Kinds /\ DOMAIN fields = FieldsOf[kind] /\ text = Signed(kind, fields, key)
  BY DEF Created, Kinds
<1> HIDE DEF fields
<1>2. /\ IsSent(text) /\ text.kind = kind /\ text.fields = fields
      /\ text.signature = [key |-> key, body |-> SigningBody(text)]
  BY <1>1, SignedIs
<1> QED
  BY <1>2 DEF fields, Authentic

LEMMA AnswersAre ==
  ASSUME NEW qr, qr.kind \in {"challenge", "pairing"}, NEW text \in Answers(qr)
  PROVE  /\ IsSent(text) /\ Authentic(text, "one")
         /\ qr.kind = "challenge" =>
              /\ text.kind = "approval"
              /\ \A f \in Binding : text.fields[f] = qr.fields[f]
              /\ text.fields["decision"] \in Good
              /\ text.fields["deviceId"] = "one" /\ text.fields["signedAt"] = "one"
         /\ qr.kind = "pairing" =>
              /\ text.kind = "pairing_response"
              /\ \A f \in {"pairingId", "hostId", "nonce"} : text.fields[f] = qr.fields[f]
              /\ text.fields["deviceName"] \in {"one", "malformed"}
              /\ \A f \in {"deviceId", "publicKeyJwk", "signedAt"} : text.fields[f] = "one"
<1>1. CASE qr.kind = "challenge"
  <2>1. PICK d \in Good : text = SignApproval(qr, d)
    BY <1>1 DEF Answers
  <2> DEFINE fields == [f \in FieldsOf["approval"] |->
              IF f \in Binding THEN qr.fields[f] ELSE IF f = "decision" THEN d ELSE "one"]
  <2>2. /\ text = Signed("approval", fields, "one") /\ DOMAIN fields = FieldsOf["approval"]
        /\ "approval" \in Kinds /\ "one" \in Good
    BY <2>1 DEF SignApproval, Kinds, Good
  <2>3. /\ \A f \in Binding : fields[f] = qr.fields[f]
        /\ fields["decision"] = d /\ fields["deviceId"] = "one" /\ fields["signedAt"] = "one"
    BY DEF FieldsOf, Binding
  <2> HIDE DEF fields
  <2>4. /\ IsSent(text) /\ text.kind = "approval" /\ text.fields = fields
        /\ text.signature = [key |-> "one", body |-> SigningBody(text)]
    BY <2>2, SignedIs
  <2> QED
    BY <1>1, <2>3, <2>4 DEF Authentic
<1>2. CASE qr.kind = "pairing"
  <2>1. PICK name \in {"one", "malformed"} : text = SignPairingResponse(qr, name)
    BY <1>2 DEF Answers
  <2> DEFINE fields == [f \in FieldsOf["pairing_response"] |->
              IF f \in {"pairingId", "hostId", "nonce"} THEN qr.fields[f]
              ELSE IF f = "deviceName" THEN name ELSE "one"]
  <2>2. /\ text = Signed("pairing_response", fields, "one")
        /\ DOMAIN fields = FieldsOf["pairing_response"]
        /\ "pairing_response" \in Kinds /\ "one" \in Good
    BY <2>1 DEF SignPairingResponse, Kinds, Good
  <2>3. /\ \A f \in {"pairingId", "hostId", "nonce"} : fields[f] = qr.fields[f]
        /\ fields["deviceName"] = name
        /\ \A f \in {"deviceId", "publicKeyJwk", "signedAt"} : fields[f] = "one"
    BY DEF FieldsOf
  <2> HIDE DEF fields
  <2>4. /\ IsSent(text) /\ text.kind = "pairing_response" /\ text.fields = fields
        /\ text.signature = [key |-> "one", body |-> SigningBody(text)]
    BY <2>2, SignedIs
  <2> QED
    BY <1>2, <2>3, <2>4 DEF Authentic
<1> QED
  BY <1>1, <1>2

-----------------------------------------------------------------------------
(* What can arrive: the fields of a text of some kind, under a signature   *)
(* that somebody made of a text, or one that is none.                      *)
CanArrive(text) ==
  /\ \E kind \in Kinds : DOMAIN text.fields = FieldsOf[kind]
  /\ \/ text.signature.key = "malformed"
     \/ \E t \in Codes \cup Replies : text.signature = t.signature

(* Bodies tell texts apart: a text signed with the body of another is that *)
(* text.                                                                   *)
LEMMA SameBodyIsSameText ==
  ASSUME NEW s, NEW t, s.kind \in Kinds, SigningBody(s) = SigningBody(t),
         DOMAIN s.fields = FieldsOf[s.kind], DOMAIN t.fields = FieldsOf[t.kind]
  PROVE  /\ SameText(t, s)
         /\ \A f \in FieldsOf[s.kind] : t.fields[f] \in Good \cup {"short"}
                                          => s.fields[f] = t.fields[f]
<1>1. s.kind = t.kind
  BY DEF SigningBody
<1>2. \A f \in FieldsOf[s.kind] :
        /\ Field(s, f) = s.fields[f] /\ Field(t, f) = t.fields[f]
        /\ (IF Field(s, f) = "absent" THEN "null" ELSE Field(s, f))
             = (IF Field(t, f) = "absent" THEN "null" ELSE Field(t, f))
  <2>1. /\ SigningBody(s).signed = SigningBody(t).signed
        /\ SigningBody(s).signed = [f \in FieldsOf[s.kind] |->
                IF Field(s, f) = "absent" THEN "null" ELSE Field(s, f)]
        /\ SigningBody(t).signed = [f \in FieldsOf[s.kind] |->
                IF Field(t, f) = "absent" THEN "null" ELSE Field(t, f)]
    BY <1>1 DEF SigningBody, SignedFields
  <2> QED
    BY <1>1, <2>1 DEF Field
<1>3. Content(s) = Content(t)
  <2>1. \A f \in FieldsOf[s.kind] :
          (IF s.fields[f] = "null" THEN "absent" ELSE s.fields[f])
            = (IF t.fields[f] = "null" THEN "absent" ELSE t.fields[f])
    BY <1>2
  <2> QED
    BY <1>1, <2>1 DEF Content
<1>4. \A f \in FieldsOf[s.kind] : t.fields[f] \in Good \cup {"short"} => s.fields[f] = t.fields[f]
  BY <1>2 DEF Good
<1> QED
  BY <1>1, <1>3, <1>4 DEF SameText

(* The fields tell the kinds apart.                                        *)
LEMMA FieldsTellKinds ==
  ASSUME NEW kind \in Kinds, NEW k \in Kinds, \A f \in FieldsOf[kind] \ {"userHint"} : f \in FieldsOf[k]
  PROVE  k = kind
  BY DEF Kinds, FieldsOf, Binding

LEMMA ReadHasItsFields ==
  ASSUME NEW text, CanArrive(text), text.kind \in Kinds, ReadByPhone(text) \/ ReadByHost(text)
  PROVE  DOMAIN text.fields = FieldsOf[text.kind]
<1>1. PICK k \in Kinds : DOMAIN text.fields = FieldsOf[k]
  BY DEF CanArrive
<1>2. \A f \in FieldsOf[text.kind] \ {"userHint"} : Field(text, f) # "absent"
  BY DEF ReadByPhone, ReadByHost, Good
<1>3. \A f \in FieldsOf[text.kind] \ {"userHint"} : f \in FieldsOf[k]
  BY <1>1, <1>2 DEF Field
<1>4. k = text.kind
  BY <1>3, FieldsTellKinds
<1> QED
  BY <1>1, <1>4

(* A code the host made of its caller's values; the codes of before are of *)
(* that form too.                                                          *)
IsShown(qr) ==
  \E kind \in {"challenge", "pairing"} : \E f \in FieldsOf[kind], v \in Oddities :
    qr = Created(kind, Caller(kind, f, v), "one")

(* What the phone shows it has accepted, whole and as somebody sent it.    *)
IsSeen(qr) ==
  /\ PhoneAccepts(qr) /\ qr.kind \in {"challenge", "pairing"}
  /\ DOMAIN qr.fields = FieldsOf[qr.kind]

(* The invariant AcceptedAsSigned rests on: the phone answers what it has  *)
(* seen, and the host takes nothing before it has asked.                   *)
WireInv ==
  /\ \A qr \in shown : IsShown(qr)
  /\ \A a, b \in shown : a = b
  /\ \A qr \in seen : IsSeen(qr)
  /\ \A text \in replied : \E qr \in seen : text \in Answers(qr)
  /\ taken # {} => shown # {}
  /\ AcceptedAsSigned

LEMMA CodesAreSent ==
  ASSUME WireInv, NEW code \in Codes
  PROVE  IsSent(code) /\ code.kind \in {"challenge", "pairing"}
<1>1. PICK kind \in {"challenge", "pairing"}, key \in Good :
        \E values : code = Created(kind, values, key)
  BY DEF WireInv, IsShown, Codes, EarlierCodes, Good
<1>2. PICK values : code = Created(kind, values, key)
  BY <1>1
<1>3. IsSent(code) /\ code.kind = kind
  BY <1>1, <1>2, CreatedIs
<1> QED
  BY <1>3

LEMMA EarlierAreSeen ==
  ASSUME NEW qr \in EarlierCodes, PhoneAccepts(qr)
  PROVE  IsSeen(qr)
<1>1. PICK kind \in {"challenge", "pairing"}, key \in Good :
        \E values : qr = Created(kind, values, key)
  BY DEF EarlierCodes
<1>2. PICK values : qr = Created(kind, values, key)
  BY <1>1
<1>3. IsSent(qr) /\ qr.kind = kind
  BY <1>1, <1>2, CreatedIs
<1> QED
  BY <1>3 DEF IsSeen, IsSent

LEMMA RepliesAreAnswers ==
  ASSUME WireInv, NEW reply \in Replies
  PROVE  \E qr \in seen \cup EarlierCodes : IsSeen(qr) /\ reply \in Answers(qr)
<1>1. CASE reply \in replied
  BY <1>1 DEF WireInv
<1>2. CASE reply \in EarlierAnswers
  <2>1. PICK qr \in EarlierCodes : PhoneAccepts(qr) /\ reply \in Answers(qr)
    BY <1>2 DEF EarlierAnswers
  <2> QED
    BY <2>1, EarlierAreSeen
<1> QED
  BY <1>1, <1>2 DEF Replies

LEMMA RepliesAreSent ==
  ASSUME WireInv, NEW reply \in Replies
  PROVE  IsSent(reply) /\ reply.kind \in {"approval", "pairing_response"}
<1>1. PICK qr \in seen \cup EarlierCodes : IsSeen(qr) /\ reply \in Answers(qr)
  BY RepliesAreAnswers
<1> QED
  BY <1>1, AnswersAre DEF IsSeen

(* What goes on the way arrives in one of the forms above.                 *)
LEMMA ArrivalsAre ==
  ASSUME WireInv, NEW text \in Codes \cup Replies
  PROVE  /\ \A f \in FieldsOf[text.kind] : \A v, signature :
              signature \in Signatures => CanArrive(Changed(text, f, v, signature))
         /\ \A envelope : CanArrive(Readdressed(text, envelope))
<1>1. IsSent(text)
  BY CodesAreSent, RepliesAreSent
<1>2. ASSUME NEW f \in FieldsOf[text.kind], NEW v, NEW signature \in Signatures
      PROVE  CanArrive(Changed(text, f, v, signature))
  <2> DEFINE new == Changed(text, f, v, signature)
  <2>1. new.signature = signature /\ DOMAIN new.fields = DOMAIN text.fields
    BY <1>1 DEF Changed, IsSent
  <2>2. signature.key = "malformed" \/ \E t \in Codes \cup Replies : signature = t.signature
    BY DEF Signatures
  <2> HIDE DEF new
  <2>3. CanArrive(new)
    BY <1>1, <2>1, <2>2 DEF CanArrive, IsSent
  <2> QED
    BY <2>3 DEF new
<1>3. ASSUME NEW envelope PROVE CanArrive(Readdressed(text, envelope))
  <2> DEFINE new == Readdressed(text, envelope)
  <2>1. new.signature = text.signature /\ new.fields = text.fields
    BY <1>1 DEF Readdressed, IsSent
  <2> HIDE DEF new
  <2>2. CanArrive(new)
    BY <1>1, <2>1 DEF CanArrive, IsSent
  <2> QED
    BY <2>2 DEF new
<1> QED
  BY <1>2, <1>3

(* An authentic text under a key of the right form was sent.               *)
LEMMA AuthenticWasSent ==
  ASSUME WireInv, NEW text, CanArrive(text), NEW key \in Good, Authentic(text, key)
  PROVE  \E t \in Codes \cup Replies : /\ IsSent(t) /\ SigningBody(t) = SigningBody(text)
                                       /\ t.signature.key = key
<1>1. text.signature.key = key /\ text.signature.body = SigningBody(text)
  BY DEF Authentic
<1>2. PICK t \in Codes \cup Replies : text.signature = t.signature
  BY <1>1 DEF CanArrive, Good
<1>3. IsSent(t)
  BY CodesAreSent, RepliesAreSent
<1> QED
  BY <1>1, <1>2, <1>3 DEF IsSent

(* What the phone accepts is a code as it was sent.                        *)
LEMMA PhoneAcceptsCodes ==
  ASSUME WireInv, NEW qr, CanArrive(qr), PhoneAccepts(qr)
  PROVE  IsSeen(qr) /\ \E code \in Codes : SameText(qr, code)
<1>1. /\ qr.kind \in {"challenge", "pairing"} /\ ReadByPhone(qr)
      /\ Authentic(qr, qr.fields["hostPublicKey"])
  BY DEF PhoneAccepts, Enveloped
<1>2. DOMAIN qr.fields = FieldsOf[qr.kind]
  BY <1>1, ReadHasItsFields DEF Kinds
<1>3. qr.fields["hostPublicKey"] \in Good
  <2>1. "hostPublicKey" \in FieldsOf[qr.kind] /\ "hostPublicKey" # "userHint"
    BY <1>1 DEF FieldsOf
  <2>2. Field(qr, "hostPublicKey") \in Good
    BY <1>1, <2>1 DEF ReadByPhone
  <2> QED
    BY <1>2, <2>1, <2>2 DEF Field
<1>4. PICK t \in Codes \cup Replies : IsSent(t) /\ SigningBody(t) = SigningBody(qr)
  BY <1>1, <1>3, AuthenticWasSent
<1>5. SameText(qr, t) /\ t.kind = qr.kind
  BY <1>2, <1>4, SameBodyIsSameText DEF IsSent, SameText
<1>6. t \in Codes
  BY <1>1, <1>5, RepliesAreSent
<1> QED
  BY <1>1, <1>2, <1>5, <1>6 DEF IsSeen

(* What the host takes is an answer as it was sent.                        *)
LEMMA HostTakesReplies ==
  ASSUME WireInv, NEW text, CanArrive(text), NEW qr \in shown, HostTakes(qr, text)
  PROVE  \E reply \in Replies :
           /\ SameText(text, reply) /\ reply.kind = text.kind
           /\ text.kind = "approval" =>
                \A f \in Binding : text.fields[f] = reply.fields[f] /\ text.fields[f] = qr.fields[f]
<1>1. /\ text.kind \in {"approval", "pairing_response"} /\ ReadByHost(text)
      /\ Authentic(text, text.fields["deviceId"])
      /\ text.kind = "approval" => \A f \in Binding : text.fields[f] = qr.fields[f]
  BY DEF HostTakes, Enveloped, Answered
<1>2. DOMAIN text.fields = FieldsOf[text.kind]
  BY <1>1, ReadHasItsFields DEF Kinds
<1>3. \A f \in FieldsOf[text.kind] : text.fields[f] \in Good \cup {"short"}
  BY <1>1, <1>2 DEF ReadByHost, Field
<1>4. text.fields["deviceId"] \in Good
  <2>1. "deviceId" \in FieldsOf[text.kind] /\ "deviceId" \notin {"nonce", "publicKeyJwk"}
    BY <1>1 DEF FieldsOf
  <2>2. Field(text, "deviceId") \in Good
    BY <1>1, <2>1 DEF ReadByHost
  <2> QED
    BY <1>2, <2>1, <2>2 DEF Field
<1>5. PICK t \in Codes \cup Replies : IsSent(t) /\ SigningBody(t) = SigningBody(text)
  BY <1>1, <1>4, AuthenticWasSent
<1>6. /\ SameText(text, t) /\ t.kind = text.kind
      /\ \A f \in FieldsOf[t.kind] : t.fields[f] = text.fields[f]
  <2>1. /\ SameText(text, t)
        /\ \A f \in FieldsOf[t.kind] : text.fields[f] \in Good \cup {"short"}
                                         => t.fields[f] = text.fields[f]
    BY <1>2, <1>5, SameBodyIsSameText DEF IsSent
  <2> QED
    BY <1>3, <2>1 DEF SameText
<1>7. t \in Replies
  BY <1>1, <1>6, CodesAreSent
<1>8. text.kind = "approval" => Binding \subseteq FieldsOf[t.kind]
  BY <1>6 DEF FieldsOf
<1> QED
  BY <1>1, <1>6, <1>7, <1>8

(* Codes with the nonce of before are the same code, when both are the     *)
(* host's own.                                                             *)
LEMMA SameNonceIsSameCode ==
  ASSUME NEW qr, IsShown(qr), qr.kind = "challenge", qr.fields["nonce"] = "two",
         NEW code \in EarlierCodes, code.kind = "challenge", code.fields["hostPublicKey"] = "one"
  PROVE  qr = code
<1>1. PICK kind \in {"challenge", "pairing"} : \E f \in FieldsOf[kind], v \in Oddities :
        qr = Created(kind, Caller(kind, f, v), "one")
  BY DEF IsShown
<1>2. PICK f \in FieldsOf[kind], v \in Oddities : qr = Created(kind, Caller(kind, f, v), "one")
  BY <1>1
<1>3. PICK k \in {"challenge", "pairing"}, key \in Good :
        code = Created(k, Caller(k, "nonce", "two"), key)
  BY DEF EarlierCodes
<1>4. /\ qr.kind = kind
      /\ \A g \in FieldsOf[kind] :
           qr.fields[g] = IF g = "hostPublicKey" THEN "one" ELSE Caller(kind, f, v)[g]
  BY <1>2, CreatedIs DEF Good
<1>5. /\ code.kind = k
      /\ \A g \in FieldsOf[k] :
           code.fields[g] = IF g = "hostPublicKey" THEN key ELSE Caller(k, "nonce", "two")[g]
  BY <1>3, CreatedIs
<1>6. kind = "challenge" /\ k = "challenge" /\ {"nonce", "hostPublicKey"} \subseteq FieldsOf["challenge"]
  BY <1>4, <1>5 DEF FieldsOf, Binding
<1>7. key = "one"
  BY <1>5, <1>6
<1>8. f = "nonce" /\ v = "two"
  <2>1. Caller("challenge", f, v)["nonce"] = "two"
    BY <1>4, <1>6
  <2>2. Caller("challenge", f, v)["nonce"] = IF "nonce" = f THEN v ELSE "one"
    BY <1>6 DEF Caller
  <2> QED
    BY <2>1, <2>2
<1> QED
  BY <1>2, <1>3, <1>6, <1>7, <1>8

(* An approval the host takes for its code answers that very code.         *)
LEMMA ApprovesWhatWasShown ==
  ASSUME WireInv, NEW text, CanArrive(text), NEW qr \in shown, HostTakes(qr, text),
         text.kind = "approval"
  PROVE  \E code \in seen \cup EarlierCodes : PhoneAccepts(code) /\ SameText(code, qr)
<1>1. PICK reply \in Replies :
        /\ reply.kind = "approval"
        /\ \A f \in Binding : qr.fields[f] = reply.fields[f]
  BY HostTakesReplies
<1>2. PICK c \in seen \cup EarlierCodes : IsSeen(c) /\ reply \in Answers(c)
  BY RepliesAreAnswers
<1>3. c.kind = "challenge" /\ \A f \in Binding : reply.fields[f] = c.fields[f]
  BY <1>1, <1>2, AnswersAre DEF IsSeen
<1>4. PhoneAccepts(c) /\ c.fields["hostPublicKey"] = "one" /\ qr.fields["nonce"] = c.fields["nonce"]
  BY <1>1, <1>2, <1>3 DEF IsSeen, PhoneAccepts, Enveloped, Binding
<1>5. IsShown(qr) /\ qr.kind = "challenge"
  BY DEF WireInv, HostTakes, Enveloped
<1>6. \A code \in EarlierCodes : code.kind = "challenge" => code.fields["nonce"] = "two"
  <2> SUFFICES ASSUME NEW code \in EarlierCodes, code.kind = "challenge"
               PROVE  code.fields["nonce"] = "two"
    OBVIOUS
  <2>1. PICK k \in {"challenge", "pairing"}, key \in Good :
          code = Created(k, Caller(k, "nonce", "two"), key)
    BY DEF EarlierCodes
  <2>2. /\ code.kind = k
        /\ \A g \in FieldsOf[k] :
             code.fields[g] = IF g = "hostPublicKey" THEN key ELSE Caller(k, "nonce", "two")[g]
    BY <2>1, CreatedIs
  <2>3. "nonce" \in FieldsOf["challenge"]
    BY DEF FieldsOf, Binding
  <2> QED
    BY <2>2, <2>3 DEF Caller
<1>7. CASE c \in EarlierCodes
  <2>1. qr = c
    BY <1>3, <1>4, <1>5, <1>6, <1>7, SameNonceIsSameCode
  <2> QED
    BY <1>2, <1>4, <2>1 DEF SameText
<1>8. CASE c \in seen
  <2>1. PICK code \in Codes : SameText(c, code)
    BY <1>8 DEF WireInv, AcceptedAsSigned
  <2>2. CASE code \in shown
    BY <1>4, <1>8, <2>1, <2>2 DEF WireInv
  <2>3. CASE code \in EarlierCodes
    <3>1. /\ code.kind = "challenge" /\ "nonce" \in FieldsOf["challenge"]
          /\ "hostPublicKey" \in FieldsOf["challenge"]
      BY <1>3, <2>1 DEF SameText, FieldsOf, Binding
    <3>2. \A f \in FieldsOf["challenge"] :
            (IF c.fields[f] = "null" THEN "absent" ELSE c.fields[f])
              = (IF code.fields[f] = "null" THEN "absent" ELSE code.fields[f])
      <4>1. Content(c) = Content(code) /\ c.kind = "challenge"
        BY <1>3, <2>1, <3>1 DEF SameText
      <4>2. Content(c) = [f \in FieldsOf["challenge"] |->
                            IF c.fields[f] = "null" THEN "absent" ELSE c.fields[f]]
        BY <4>1 DEF Content
      <4>3. Content(code) = [f \in FieldsOf["challenge"] |->
                               IF code.fields[f] = "null" THEN "absent" ELSE code.fields[f]]
        BY <3>1 DEF Content
      <4> QED
        BY <4>1, <4>2, <4>3
    <3>3. code.fields["nonce"] = "two" /\ code.fields["hostPublicKey"] \in Good
      <4>1. PICK k \in {"challenge", "pairing"}, key \in Good :
              code = Created(k, Caller(k, "nonce", "two"), key)
        BY <2>3 DEF EarlierCodes
      <4>2. /\ code.kind = k
            /\ \A g \in FieldsOf[k] :
                 code.fields[g] = IF g = "hostPublicKey" THEN key ELSE Caller(k, "nonce", "two")[g]
        BY <4>1, CreatedIs
      <4> QED
        BY <1>6, <2>3, <3>1, <4>2
    <3>4. c.fields["nonce"] = "two" /\ code.fields["hostPublicKey"] = "one"
      BY <1>4, <3>1, <3>2, <3>3 DEF Good
    <3>5. qr = code
      BY <1>4, <1>5, <2>3, <3>1, <3>4, SameNonceIsSameCode
    <3> QED
      BY <1>4, <1>8, <2>1, <3>5
  <2> QED
    BY <2>2, <2>3 DEF Codes
<1> QED
  BY <1>7, <1>8

(* A step that only adds to what was sent, shown and seen.                 *)
LEMMA MoreKeepsAccepted ==
  ASSUME WireInv, Codes \subseteq Codes', Replies \subseteq Replies', seen \subseteq seen',
         taken' = taken, shown' = shown \/ taken = {},
         \A qr \in seen' \ seen : \E code \in Codes : SameText(qr, code)
  PROVE  AcceptedAsSigned'
<1>1. \A qr \in seen' : \E code \in Codes' : SameText(qr, code)
  BY DEF WireInv, AcceptedAsSigned
<1>2. \A text \in taken' : \E reply \in Replies' : SameText(text, reply)
  BY DEF WireInv, AcceptedAsSigned
<1>3. \A text \in taken', qr \in shown' : text.kind = "approval" =>
        \E code \in seen' \cup EarlierCodes : PhoneAccepts(code) /\ SameText(code, qr)
  <2>1. CASE taken = {}
    BY <2>1
  <2>2. CASE shown' = shown
    BY <2>2 DEF WireInv, AcceptedAsSigned
  <2> QED
    BY <2>1, <2>2
<1> QED
  BY <1>1, <1>2, <1>3 DEF AcceptedAsSigned

LEMMA ReceivesKeeps ==
  ASSUME WireInv, NEW text, CanArrive(text), Receives(text)
  PROVE  WireInv'
<1>1. CASE PhoneReads(text)
  <2>1. /\ seen' = {text} /\ seen = {} /\ PhoneAccepts(text)
        /\ shown' = shown /\ replied' = replied /\ taken' = taken
    BY <1>1 DEF PhoneReads
  <2>2. IsSeen(text) /\ \E code \in Codes : SameText(text, code)
    BY <2>1, PhoneAcceptsCodes
  <2>3. AcceptedAsSigned'
    BY <2>1, <2>2, MoreKeepsAccepted DEF Codes, Replies
  <2> QED
    BY <2>1, <2>2, <2>3 DEF WireInv
<1>2. CASE HostReceives(text)
  <2>1. /\ taken' = {text} /\ shown' = shown /\ seen' = seen /\ replied' = replied
    BY <1>2 DEF HostReceives
  <2>2. PICK qr \in shown : HostTakes(qr, text)
    BY <1>2 DEF HostReceives
  <2>3. \E reply \in Replies : SameText(text, reply)
    BY <2>2, HostTakesReplies
  <2>4. text.kind = "approval" =>
          \E code \in seen \cup EarlierCodes : PhoneAccepts(code) /\ SameText(code, qr)
    BY <2>2, ApprovesWhatWasShown
  <2>5. shown = {qr}
    BY <2>2 DEF WireInv
  <2>6. AcceptedAsSigned'
    BY <2>1, <2>3, <2>4, <2>5 DEF WireInv, AcceptedAsSigned, Codes, Replies
  <2> QED
    BY <2>1, <2>5, <2>6 DEF WireInv
<1> QED
  BY <1>1, <1>2 DEF Receives

LEMMA WireStepInvariant == WireInv /\ [WireNext]_wireVars => WireInv'
<1> SUFFICES ASSUME WireInv, [WireNext]_wireVars PROVE WireInv'
  OBVIOUS
<1>1. ASSUME NEW kind \in {"challenge", "pairing"}, NEW f \in FieldsOf[kind], NEW v \in Oddities,
             HostShows(Created(kind, Caller(kind, f, v), "one"))
      PROVE  WireInv'
  <2> DEFINE qr == Created(kind, Caller(kind, f, v), "one")
  <2>1. IsShown(qr)
    BY DEF IsShown
  <2> HIDE DEF qr
  <2>2. /\ shown' = {qr} /\ shown = {} /\ seen' = seen /\ replied' = replied /\ taken' = taken
    BY <1>1 DEF HostShows, qr
  <2>3. taken = {}
    BY <2>2 DEF WireInv
  <2>4. AcceptedAsSigned'
    BY <2>2, <2>3, MoreKeepsAccepted DEF Codes, Replies
  <2> QED
    BY <2>1, <2>2, <2>3, <2>4 DEF WireInv
<1>2. ASSUME NEW text \in Codes \cup Replies, NEW f \in FieldsOf[text.kind], NEW v,
             NEW signature \in Signatures, Receives(Changed(text, f, v, signature))
      PROVE  WireInv'
  <2> DEFINE new == Changed(text, f, v, signature)
  <2>1. CanArrive(new)
    BY ArrivalsAre
  <2>2. Receives(new)
    BY <1>2
  <2> HIDE DEF new
  <2> QED
    BY <2>1, <2>2, ReceivesKeeps
<1>3. ASSUME NEW text \in Codes \cup Replies, NEW envelope, Receives(Readdressed(text, envelope))
      PROVE  WireInv'
  <2> DEFINE new == Readdressed(text, envelope)
  <2>1. CanArrive(new)
    BY ArrivalsAre
  <2>2. Receives(new)
    BY <1>3
  <2> HIDE DEF new
  <2> QED
    BY <2>1, <2>2, ReceivesKeeps
<1>4. ASSUME NEW qr \in seen, NEW text \in Answers(qr), PhoneReplies(text) PROVE WireInv'
  <2>1. /\ replied' = {text} /\ replied = {} /\ shown' = shown /\ seen' = seen /\ taken' = taken
    BY <1>4 DEF PhoneReplies
  <2>2. AcceptedAsSigned'
    BY <2>1, MoreKeepsAccepted DEF Codes, Replies
  <2> QED
    BY <1>4, <2>1, <2>2 DEF WireInv
<1>5. CASE UNCHANGED wireVars
  <2>1. shown' = shown /\ seen' = seen /\ replied' = replied /\ taken' = taken
    BY <1>5 DEF wireVars
  <2>2. AcceptedAsSigned'
    BY <2>1, MoreKeepsAccepted DEF Codes, Replies
  <2> QED
    BY <2>1, <2>2 DEF WireInv
<1> QED
  BY <1>1, <1>2, <1>3, <1>4, <1>5 DEF WireNext

LEMMA WireInvariance == WireSpec => []WireInv
<1>1. WireInit => WireInv
  BY DEF WireInit, WireInv, AcceptedAsSigned
<1> QED
  BY <1>1, WireStepInvariant, PTL DEF WireSpec

(* Whatever is changed on the way, phone and host take only what was       *)
(* signed, and an approval is of the code that was shown (protocol.ts,     *)
(* protocol.dart), for any values a field can hold.                        *)
THEOREM AcceptedIsAsSigned == WireSpec => []AcceptedAsSigned
<1>1. WireInv => AcceptedAsSigned
  BY DEF WireInv
<1> QED
  BY <1>1, WireInvariance, PTL

(* The two implementations of the protocol understand one another: the     *)
(* phone reads the host's codes, the host takes the phone's answers        *)
(* (protocol.ts:735-929, protocol.dart:250-384).                           *)
THEOREM AnswersAreAlwaysTaken == WireSpec => []AnswersAreTaken
<1>1. ASSUME WireInv, NEW qr \in shown, \A f \in DOMAIN qr.fields : qr.fields[f] \in Good
      PROVE  PhoneAccepts(qr)
  <2>1. PICK kind \in {"challenge", "pairing"} : \E f \in FieldsOf[kind], v \in Oddities :
          qr = Created(kind, Caller(kind, f, v), "one")
    BY <1>1 DEF WireInv, IsShown
  <2>2. PICK values : qr = Created(kind, values, "one")
    BY <2>1
  <2>3. /\ IsSent(qr) /\ qr.kind = kind /\ Authentic(qr, "one")
        /\ DOMAIN qr.fields = FieldsOf[kind]
        /\ \A f \in FieldsOf[kind] :
             qr.fields[f] = IF f = "hostPublicKey" THEN "one" ELSE values[f]
    BY <2>2, CreatedIs DEF Good
  <2>4. qr.fields["hostPublicKey"] = "one"
    BY <2>3 DEF FieldsOf
  <2>5. ReadByPhone(qr)
    BY <1>1, <2>3 DEF ReadByPhone, Field
  <2>6. CASE kind = "challenge"
    <3>1. Enveloped(qr, "challenge", {"rtq://challenge", "rtq://approval"})
      BY <2>3, <2>6 DEF Enveloped, IsSent, PrefixOf
    <3> QED
      BY <2>3, <2>4, <2>5, <3>1 DEF PhoneAccepts
  <2>7. CASE kind = "pairing"
    <3>1. Enveloped(qr, "pairing", {"rtq://pair"})
      BY <2>3, <2>7 DEF Enveloped, IsSent, PrefixOf
    <3> QED
      BY <2>3, <2>4, <2>5, <3>1 DEF PhoneAccepts
  <2> QED
    BY <2>6, <2>7
<1>2. ASSUME WireInv, NEW qr \in seen \cap shown, NEW text \in Answers(qr),
             "one" \in {Field(text, "decision"), Field(text, "deviceName")}
      PROVE  HostTakes(qr, text)
  <2>1. IsSeen(qr) /\ ReadByPhone(qr)
    BY <1>2 DEF WireInv, IsSeen, PhoneAccepts
  <2>2. \A f \in FieldsOf[qr.kind] \ {"userHint"} : qr.fields[f] \in Good
    BY <2>1 DEF ReadByPhone, Field, IsSeen
  <2>3. IsSent(text) /\ Authentic(text, "one")
    BY <2>1, AnswersAre DEF IsSeen
  <2>4. CASE qr.kind = "challenge"
    <3>1. /\ text.kind = "approval" /\ \A f \in Binding : text.fields[f] = qr.fields[f]
          /\ text.fields["decision"] \in Good
          /\ text.fields["deviceId"] = "one" /\ text.fields["signedAt"] = "one"
      BY <2>1, <2>4, AnswersAre DEF IsSeen
    <3>2. \A f \in Binding : f \in FieldsOf["challenge"] /\ f # "userHint"
      BY DEF FieldsOf, Binding
    <3>3. \A f \in FieldsOf["approval"] : f \in Binding \cup {"decision", "deviceId", "signedAt"}
      BY DEF FieldsOf
    <3>4. ReadByHost(text)
      BY <2>2, <2>3, <2>4, <3>1, <3>2, <3>3 DEF ReadByHost, Field, IsSent, Good
    <3>5. text.fields["decision"] = "one"
      BY <1>2, <2>3, <3>1 DEF Field, IsSent, FieldsOf, Binding
    <3>6. Enveloped(text, "approval", {"none"})
      <4>1. text.form = "canonical" /\ text.version = "v1" /\ text.prefix = PrefixOf[text.kind]
        BY <2>3 DEF IsSent
      <4>2. text.prefix = "none"
        BY <3>1, <4>1 DEF PrefixOf
      <4> QED
        BY <3>1, <4>1, <4>2 DEF Enveloped
    <3>7. Authentic(text, text.fields["deviceId"]) /\ Answered(qr, text, Binding)
      BY <2>3, <3>1 DEF Answered
    <3> QED
      BY <2>4, <3>4, <3>5, <3>6, <3>7 DEF HostTakes
  <2>5. CASE qr.kind = "pairing"
    <3>1. /\ text.kind = "pairing_response"
          /\ \A f \in {"pairingId", "hostId", "nonce"} : text.fields[f] = qr.fields[f]
          /\ text.fields["deviceName"] \in {"one", "malformed"}
          /\ \A f \in {"deviceId", "publicKeyJwk", "signedAt"} : text.fields[f] = "one"
      BY <2>1, <2>5, AnswersAre DEF IsSeen
    <3>2. text.fields["deviceName"] = "one"
      BY <1>2, <2>3, <3>1 DEF Field, IsSent, FieldsOf, Binding
    <3>3. \A f \in {"pairingId", "hostId", "nonce"} : text.fields[f] \in Good
      BY <2>2, <2>5, <3>1 DEF FieldsOf
    <3>4. ReadByHost(text)
      BY <2>3, <3>1, <3>2, <3>3 DEF ReadByHost, Field, IsSent, Good, FieldsOf
    <3>6. Enveloped(text, "pairing_response", {"none"})
      <4>1. text.form = "canonical" /\ text.version = "v1" /\ text.prefix = PrefixOf[text.kind]
        BY <2>3 DEF IsSent
      <4>2. text.prefix = "none"
        BY <3>1, <4>1 DEF PrefixOf
      <4> QED
        BY <3>1, <4>1, <4>2 DEF Enveloped
    <3>7. /\ Authentic(text, text.fields["deviceId"])
          /\ text.fields["deviceId"] = text.fields["publicKeyJwk"]
          /\ Answered(qr, text, {"pairingId", "hostId", "nonce"})
      BY <2>3, <3>1 DEF Answered
    <3> QED
      BY <2>5, <3>4, <3>6, <3>7 DEF HostTakes
  <2> QED
    BY <2>1, <2>4, <2>5 DEF IsSeen
<1>3. WireInv => AnswersAreTaken
  BY <1>1, <1>2 DEF AnswersAreTaken
<1> QED
  BY <1>3, WireInvariance, PTL
=============================================================================
