------------------------------ MODULE RTQProofs ------------------------------
(***************************************************************************)
(* RTQ for every value of its constants: its types, that one approval      *)
(* starts at most one run, that a device's strategy needs the consent of   *)
(* its holder, that the pending table and the challenge registry agree,    *)
(* how stale a run can be, what it is bound to, and that the runtime uses  *)
(* the ticket store as specified, so that what TicketStoreProofs proves of *)
(* the store holds inside it.                                              *)
(***************************************************************************)
EXTENDS RTQ, FiniteSets, TLAPS

(* The sequences behind TypeOK's pointwise statement.                      *)
Shapes ==
  /\ registry \in [Capabilities -> Seq([mcp : Mcp, from : Nat])]
  /\ auths \in Seq(Authorization)

(* An authorization names a version its capability has had.                *)
VersionsExist ==
  \A a \in DOMAIN auths : auths[a].version <= Current(auths[a].capability)

(* issue() leaves the MCP operation out.                                   *)
NoTicketNamesAnOperation == \A t \in DOMAIN tickets : tickets[t].body.mcp = NoMcp

(* Only a host provider or the prompt is ever asked.                       *)
AskedOfHosts ==
  \A a \in DOMAIN auths : auths[a].stage = "asking" =>
    auths[a].strategy \in HostProviders \cup {"user_confirmation"}

(* While submitApproval() still accepts an entry the registry has its      *)
(* challenge with the same deadline, which is why a purge cannot take it.  *)
PendingAgrees ==
  \A a \in DOMAIN auths : Live(a) =>
    /\ a \in DOMAIN challenges /\ ~challenges[a].redeemed
    /\ challenges[a].expiresAt = auths[a].expiresAt

(* A ticket stands for one granted authorization and binds what that       *)
(* authorization captured.                                                 *)
TicketsStandForGrants ==
  \A t \in DOMAIN tickets :
    /\ ChallengeOf(t) \in DOMAIN auths
    /\ AuthOf(t).stage = "granted"
    /\ tickets[t].body.capability = AuthOf(t).capability
    /\ tickets[t].body.capabilityVersion = AuthOf(t).version

(* No two tickets stand for the same one.                                  *)
OneTicketPerGrant ==
  \A t, u \in DOMAIN tickets : ChallengeOf(t) = ChallengeOf(u) => t = u

(* A handler has been started at most once, for an issued ticket, which    *)
(* has been redeemed and was inside its lifetime.                          *)
StartedWasRedeemed ==
  \A t \in TicketIds : Started(t) =>
    /\ runs[t].starts = 1 /\ t <= issued
    /\ t \in DOMAIN tickets => /\ tickets[t].status = "redeemed"
                               /\ runs[t].at <= tickets[t].body.expiresAt

(* A ticket that was granted through a pending challenge lapses one ticket *)
(* lifetime after that challenge at the latest.                            *)
FreshTickets ==
  \A t \in DOMAIN tickets :
    AuthOf(t).strategy \in Interactive \ HostProviders =>
      tickets[t].body.expiresAt <= AuthOf(t).expiresAt + TicketTtl

IInv ==
  /\ TypeOK /\ Shapes
  /\ VersionsExist /\ AskedOfHosts /\ PendingAgrees
  /\ TicketsStandForGrants /\ OneTicketPerGrant /\ FreshTickets
  /\ StartedWasRedeemed /\ NoTicketNamesAnOperation
  /\ DeviceConsentNeeded /\ OnlyNativeHandlersRun /\ LiveStaleTicketsAreLateGrants

-----------------------------------------------------------------------------
(* What the store's operations do, for callers that never edit a ticket.   *)

(* Entries may go or be closed; nothing else about them changes.           *)
OnlyCloses ==
  /\ DOMAIN tickets' \subseteq DOMAIN tickets
  /\ \A i \in DOMAIN tickets' :
       /\ tickets'[i].body = tickets[i].body
       /\ tickets'[i].status = "issued" => tickets[i].status = "issued"
       /\ tickets[i].status = "redeemed" => tickets'[i].status = "redeemed"

TicketBody(b) ==
  [capability |-> b.capability, capabilityVersion |-> b.capabilityVersion,
   mcp |-> NoMcp, payload |-> b.payload, issuedAt |-> now, expiresAt |-> now + TicketTtl]

LEMMA IssueEffect ==
  ASSUME Store!TypeOK, NEW b \in Store!Bindings, Store!Issue(b)
  PROVE  /\ issued \in Nat /\ issued' = issued + 1 /\ issued + 1 \in TicketIds
         /\ UNCHANGED now
         /\ DOMAIN tickets' \subseteq DOMAIN tickets \cup {issued + 1}
         /\ \A i \in DOMAIN tickets' :
              IF i = issued + 1
              THEN tickets'[i].body = TicketBody(b) /\ tickets'[i].status = "issued"
              ELSE tickets'[i] = tickets[i]
         /\ Store!TypeOK'
<1> DEFINE stored == [i \in DOMAIN tickets \cup {issued + 1} |->
                        IF i = issued + 1 THEN Store!NewEntry(b) ELSE tickets[i]]
<1>1. /\ issued' = issued + 1 /\ issued < MaxIssued /\ issued \in Nat
      /\ tickets' = Store!Without(stored, Store!Excess(stored))
      /\ UNCHANGED <<now, uses, revoked>>
  BY RuntimeAssumption DEF Store!Issue, Store!TypeOK, MaxIssued
<1>2. DOMAIN tickets' \subseteq DOMAIN tickets \cup {issued + 1}
  BY <1>1 DEF Store!Without
<1>3. \A i \in DOMAIN tickets' :
        tickets'[i] = IF i = issued + 1 THEN Store!NewEntry(b) ELSE tickets[i]
  BY <1>1 DEF Store!Without
<1> HIDE DEF stored
<1>4. /\ Store!NewEntry(b) \in Store!Entries
      /\ Store!NewEntry(b).signature.issuedAt <= now
      /\ Store!NewEntry(b).signature.expiresAt = Store!NewEntry(b).signature.issuedAt + TicketTtl
      /\ Store!NewEntry(b).body = TicketBody(b) /\ Store!NewEntry(b).status = "issued"
  BY RuntimeAssumption DEF Store!NewEntry, Store!Entries, Store!Bodies, Store!Bindings, Store!Time,
     Store!Status, Store!Mcp, Store!TypeOK, TicketBody
<1>5. issued + 1 \in TicketIds
  BY <1>1, RuntimeAssumption DEF TicketIds, MaxIssued
<1>6. Store!TypeOK'
  BY <1>1, <1>2, <1>3, <1>4, RuntimeAssumption DEF Store!TypeOK, MaxIssued
<1> QED
  BY <1>1, <1>2, <1>3, <1>4, <1>5, <1>6

LEMMA VerdictIsCode ==
  ASSUME Store!TypeOK, NEW t \in TicketIds, NEW ctx
  PROVE  /\ Store!Verdict(t, ctx) \in Store!Codes
         /\ Store!Verdict(t, ctx) # "not_found" => t \in DOMAIN tickets
         /\ Store!Verdict(t, ctx) = "ok" =>
              /\ tickets[t].status # "redeemed"
              /\ now <= tickets[t].body.expiresAt
              /\ ctx.mcp # NoMcp => tickets[t].body.mcp = ctx.mcp
         /\ Store!Verdict(t, ctx) \in {"tampered", "expired"} => tickets[t].status # "redeemed"
<1>1. CASE t \notin DOMAIN tickets
  BY <1>1 DEF Store!Verdict, Store!Codes
<1>2. CASE t \in DOMAIN tickets
  <2>1. /\ tickets[t].status \in Store!Status
        /\ now \in Nat /\ tickets[t].body.expiresAt \in Nat
    BY <1>2, RuntimeAssumption DEF Store!TypeOK, Store!Entries, Store!Bodies, Store!Time
  <2> QED
    BY <1>2, <2>1 DEF Store!Verdict, Store!Closed, Store!Expired, Store!Authentic,
       Store!BoundToOperation, Store!ClosedCode, Store!Codes, Store!Status
<1> QED
  BY <1>1, <1>2

LEMMA RedeemEffect ==
  ASSUME Store!TypeOK, NEW t \in TicketIds, NEW ctx, Store!Redeem(t, ctx)
  PROVE  /\ OnlyCloses /\ UNCHANGED <<now, issued>>
         /\ Store!Verdict(t, ctx) = "ok" =>
              /\ t \in DOMAIN tickets /\ tickets[t].status # "redeemed"
              /\ now <= tickets[t].body.expiresAt
              /\ ctx.mcp # NoMcp => tickets[t].body.mcp = ctx.mcp
              /\ tickets'[t].status = "redeemed"
         /\ Store!TypeOK'
<1> DEFINE code == Store!Verdict(t, ctx)
<1>1. /\ code \in Store!Codes
      /\ code # "not_found" => t \in DOMAIN tickets
      /\ code = "ok" =>
              /\ tickets[t].status # "redeemed"
              /\ now <= tickets[t].body.expiresAt
              /\ ctx.mcp # NoMcp => tickets[t].body.mcp = ctx.mcp
      /\ code \in {"tampered", "expired"} => tickets[t].status # "redeemed"
  BY VerdictIsCode
<1>2. UNCHANGED <<now, issued, revoked>>
  BY DEF Store!Redeem
<1>4. t \in DOMAIN tickets => tickets[t] \in Store!Entries
  BY DEF Store!TypeOK
<1>5. CASE /\ code = "ok"
           /\ tickets' = [tickets EXCEPT ![t].status = "redeemed"]
           /\ uses' = [uses EXCEPT ![t] = Store!OneMore(@)]
  <2>1. /\ t \in DOMAIN tickets
        /\ DOMAIN tickets' = DOMAIN tickets
        /\ \A i \in DOMAIN tickets : i # t => tickets'[i] = tickets[i]
        /\ tickets'[t] = [tickets[t] EXCEPT !.status = "redeemed"]
    BY <1>1, <1>5
  <2>2. /\ tickets'[t] \in Store!Entries /\ tickets'[t].status = "redeemed"
        /\ tickets'[t].body = tickets[t].body
        /\ tickets'[t].signature = tickets[t].signature
    BY <1>4, <2>1 DEF Store!Entries, Store!Status
  <2>3. uses' \in [Store!Ids -> 0..2]
    <3>1. uses \in [Store!Ids -> 0..2] /\ t \in Store!Ids
      BY DEF Store!TypeOK, Store!Ids, TicketIds
    <3>2. Store!OneMore(uses[t]) \in 0..2
      BY <3>1 DEF Store!OneMore
    <3> QED
      BY <1>5, <3>1, <3>2
  <2>4. Store!TypeOK'
    <3>1. \A i \in DOMAIN tickets' :
            /\ tickets'[i] \in Store!Entries
            /\ tickets'[i].signature = tickets[i].signature
      BY <2>1, <2>2 DEF Store!TypeOK
    <3>2. \A i \in DOMAIN tickets' :
            /\ tickets'[i].signature.issuedAt <= now
            /\ tickets'[i].signature.expiresAt = tickets'[i].signature.issuedAt + TicketTtl
      BY <2>1, <3>1 DEF Store!TypeOK
    <3> QED
      BY <1>2, <2>1, <2>3, <3>1, <3>2 DEF Store!TypeOK
  <2>5. OnlyCloses
    BY <2>1, <2>2 DEF OnlyCloses
  <2> QED
    BY <1>1, <1>2, <1>5, <2>1, <2>2, <2>4, <2>5
<1>6. CASE /\ code = "tampered"
           /\ tickets' = [tickets EXCEPT ![t].status = "tampered"]
           /\ UNCHANGED uses
  <2>1. /\ t \in DOMAIN tickets
        /\ DOMAIN tickets' = DOMAIN tickets
        /\ \A i \in DOMAIN tickets : i # t => tickets'[i] = tickets[i]
        /\ tickets'[t] = [tickets[t] EXCEPT !.status = "tampered"]
    BY <1>1, <1>6
  <2>2. /\ tickets'[t] \in Store!Entries /\ tickets'[t].status = "tampered"
        /\ tickets'[t].body = tickets[t].body
        /\ tickets'[t].signature = tickets[t].signature
    BY <1>4, <2>1 DEF Store!Entries, Store!Status
  <2>3. Store!TypeOK'
    BY <1>2, <1>6, <2>1, <2>2 DEF Store!TypeOK
  <2>4. OnlyCloses
    BY <1>1, <1>6, <2>1, <2>2 DEF OnlyCloses
  <2> QED
    BY <1>2, <1>6, <2>3, <2>4
<1>7. CASE /\ code = "expired"
           /\ tickets' = Store!Without(tickets, {t})
           /\ UNCHANGED uses
  <2>1. /\ DOMAIN tickets' = DOMAIN tickets \ {t}
        /\ \A i \in DOMAIN tickets' : tickets'[i] = tickets[i]
    BY <1>7 DEF Store!Without
  <2>2. Store!TypeOK'
    BY <1>2, <1>7, <2>1 DEF Store!TypeOK
  <2> QED
    BY <1>2, <1>7, <2>1, <2>2 DEF OnlyCloses
<1>8. CASE /\ code \notin {"ok", "tampered", "expired"}
           /\ UNCHANGED <<tickets, uses>>
  <2>1. Store!TypeOK'
    BY <1>2, <1>8 DEF Store!TypeOK
  <2> QED
    BY <1>2, <1>8, <2>1 DEF OnlyCloses
<1> QED
  BY <1>5, <1>6, <1>7, <1>8 DEF Store!Redeem

LEMMA CancelEffect ==
  ASSUME Store!TypeOK, NEW S, Store!Cancel(S)
  PROVE  /\ OnlyCloses /\ UNCHANGED <<now, issued>>
         /\ \A i \in S \cap DOMAIN tickets' : tickets'[i].status # "issued"
         /\ Store!TypeOK'
<1> DEFINE hit == {i \in S \cap DOMAIN tickets : Store!Live(i)}
<1>1. /\ revoked' = revoked \cup hit
      /\ UNCHANGED <<now, issued, uses>>
      /\ DOMAIN tickets' = DOMAIN tickets
      /\ \A i \in hit : tickets'[i] = [tickets[i] EXCEPT !.status = "invalidated"]
      /\ \A i \in DOMAIN tickets \ hit : tickets'[i] = tickets[i]
  BY DEF Store!Cancel
<1>2. \A i \in hit : /\ i \in DOMAIN tickets /\ i \in Store!Ids
                     /\ tickets[i] \in Store!Entries /\ tickets[i].status = "issued"
  BY RuntimeAssumption DEF Store!Live, Store!TypeOK, Store!Ids, MaxIssued
<1>3. \A i \in hit : /\ tickets'[i] \in Store!Entries
                     /\ tickets'[i].status = "invalidated"
                     /\ tickets'[i].body = tickets[i].body
                     /\ tickets'[i].signature = tickets[i].signature
  BY <1>1, <1>2 DEF Store!Entries, Store!Status
<1>4. \A i \in S \cap DOMAIN tickets : i \notin hit => tickets[i].status # "issued"
  BY DEF Store!Live
<1> HIDE DEF hit
<1>5. Store!TypeOK'
  BY <1>1, <1>2, <1>3 DEF Store!TypeOK
<1>6. OnlyCloses
  BY <1>1, <1>2, <1>3 DEF OnlyCloses
<1> QED
  BY <1>1, <1>3, <1>4, <1>5, <1>6

-----------------------------------------------------------------------------
(* What every step keeps of the authorizations: a request never changes    *)
(* what it asked for, and a grant is not withdrawn.                        *)
AuthsKept ==
  \A a \in DOMAIN auths :
    /\ a \in DOMAIN auths'
    /\ auths'[a].capability = auths[a].capability
    /\ auths'[a].version = auths[a].version
    /\ auths'[a].strategy = auths[a].strategy
    /\ auths'[a].expiresAt = auths[a].expiresAt
    /\ auths[a].stage = "granted" => auths'[a].stage = "granted"

(* What holds of the tickets alone.                                        *)
TicketInv == /\ TicketsStandForGrants /\ OneTicketPerGrant
             /\ FreshTickets /\ DeviceConsentNeeded

LEMMA ClosingKeepsTickets ==
  ASSUME TicketInv, OnlyCloses, AuthsKept, consent \subseteq consent'
  PROVE  TicketInv'
<1>1. \A t \in DOMAIN tickets' : /\ t \in DOMAIN tickets
                                 /\ tickets'[t].body = tickets[t].body
                                 /\ ChallengeOf(t)' = ChallengeOf(t)
  BY DEF OnlyCloses, ChallengeOf
<1>2. \A t \in DOMAIN tickets' :
        /\ ChallengeOf(t) \in DOMAIN auths'
        /\ AuthOf(t)' = auths'[ChallengeOf(t)]
        /\ AuthOf(t)'.stage = "granted"
        /\ AuthOf(t)'.capability = AuthOf(t).capability
        /\ AuthOf(t)'.version = AuthOf(t).version
        /\ AuthOf(t)'.strategy = AuthOf(t).strategy
        /\ AuthOf(t)'.expiresAt = AuthOf(t).expiresAt
  BY <1>1 DEF AuthsKept, AuthOf, TicketInv, TicketsStandForGrants
<1>3. TicketsStandForGrants'
  BY <1>1, <1>2 DEF TicketInv, TicketsStandForGrants
<1>4. OneTicketPerGrant'
  BY <1>1 DEF TicketInv, OneTicketPerGrant
<1>5. FreshTickets' /\ DeviceConsentNeeded'
  BY <1>1, <1>2 DEF TicketInv, FreshTickets, DeviceConsentNeeded
<1> QED
  BY <1>3, <1>4, <1>5 DEF TicketInv

(* What a ticket is bound to, and the runs it has had.                     *)
RunInv == /\ StartedWasRedeemed /\ NoTicketNamesAnOperation /\ OnlyNativeHandlersRun
          /\ LiveStaleTicketsAreLateGrants

LEMMA ClosingKeepsRuns ==
  ASSUME RunInv, OnlyCloses, UNCHANGED <<issued, registry>>,
         \A t \in TicketIds : /\ runs'[t].starts = runs[t].starts
                              /\ runs'[t].at = runs[t].at,
         Store!TypeOK
  PROVE  RunInv'
<1>1. \A t \in DOMAIN tickets' : /\ t \in DOMAIN tickets /\ t \in TicketIds
                                 /\ tickets'[t].body = tickets[t].body
  BY RuntimeAssumption DEF OnlyCloses, Store!TypeOK, TicketIds, MaxIssued
<1>2. StartedWasRedeemed'
  BY <1>1 DEF RunInv, StartedWasRedeemed, Started, OnlyCloses
<1>3. OnlyNativeHandlersRun'
  BY <1>1 DEF RunInv, OnlyNativeHandlersRun, Started
<1>4. LiveTickets' \subseteq LiveTickets
  BY <1>1 DEF LiveTickets, Store!Live, OnlyCloses
<1>5. LiveStaleTicketsAreLateGrants'
  BY <1>1, <1>4 DEF RunInv, LiveStaleTicketsAreLateGrants, Superseded, Current, LiveTickets
<1>6. NoTicketNamesAnOperation'
  BY <1>1 DEF RunInv, NoTicketNamesAnOperation
<1> QED
  BY <1>2, <1>3, <1>5, <1>6 DEF RunInv

(* Granting authorization a, whose record is r: the ticket it brings.      *)
LEMMA GrantKeeps ==
  ASSUME IInv, NEW a \in Auths, NEW r, FinalizeAuthorization(r, a),
         UNCHANGED <<registry, consent, runs>>,
         AuthsKept, a \in DOMAIN auths', auths'[a].stage = "granted",
         r.capability = auths'[a].capability, r.version = auths'[a].version,
         r.capability \in Capabilities, r.version \in 1..MaxVersion,
         r.version <= Current(r.capability),
         r.mcp \in Mcp, r.input \in Inputs,
         auths'[a].expiresAt \in Nat,
         \A t \in DOMAIN tickets : ChallengeOf(t) # a,
         auths'[a].strategy \in Interactive \ HostProviders => now <= auths'[a].expiresAt,
         auths'[a].strategy \in DeviceStrategies \ HostProviders => a \in consent
  PROVE  Store!TypeOK' /\ TicketInv' /\ RunInv' /\ issued' = issued + 1 /\ UNCHANGED now
<1> DEFINE b == [capability |-> r.capability, capabilityVersion |-> r.version,
                 mcp |-> r.mcp, payload |-> [input |-> r.input, challenge |-> a]]
<1>1. b \in Store!Bindings /\ Store!Issue(b)
  BY DEF FinalizeAuthorization, Store!Bindings, Store!Mcp, Mcp
<1>2. Store!TypeOK
  BY DEF IInv, TypeOK
<1>3. PICK n \in TicketIds :
      /\ issued \in Nat /\ n = issued + 1 /\ issued' = n
      /\ UNCHANGED now
      /\ DOMAIN tickets' \subseteq DOMAIN tickets \cup {n}
      /\ \A i \in DOMAIN tickets' :
           IF i = n THEN tickets'[i].body = TicketBody(b) /\ tickets'[i].status = "issued"
           ELSE tickets'[i] = tickets[i]
      /\ Store!TypeOK'
  BY <1>1, <1>2, IssueEffect
<1>4. /\ TicketBody(b).capability = r.capability /\ TicketBody(b).capabilityVersion = r.version
      /\ TicketBody(b).mcp = NoMcp /\ TicketBody(b).payload.challenge = a
      /\ TicketBody(b).expiresAt = now + TicketTtl
  BY DEF TicketBody
<1> HIDE DEF b
<1>5. \A t \in DOMAIN tickets' : t # n =>
        /\ t \in DOMAIN tickets /\ tickets'[t] = tickets[t]
        /\ ChallengeOf(t) \in DOMAIN auths /\ ChallengeOf(t)' = ChallengeOf(t)
        /\ AuthOf(t)' = auths'[ChallengeOf(t)]
        /\ AuthOf(t).stage = "granted" /\ AuthOf(t)'.stage = "granted"
        /\ AuthOf(t)'.capability = AuthOf(t).capability
        /\ AuthOf(t)'.version = AuthOf(t).version
        /\ AuthOf(t)'.strategy = AuthOf(t).strategy
        /\ AuthOf(t)'.expiresAt = AuthOf(t).expiresAt
  <2> SUFFICES ASSUME NEW t \in DOMAIN tickets', t # n
               PROVE  /\ t \in DOMAIN tickets /\ tickets'[t] = tickets[t]
                      /\ ChallengeOf(t) \in DOMAIN auths /\ ChallengeOf(t)' = ChallengeOf(t)
                      /\ AuthOf(t)' = auths'[ChallengeOf(t)]
                      /\ AuthOf(t).stage = "granted" /\ AuthOf(t)'.stage = "granted"
                      /\ AuthOf(t)'.capability = AuthOf(t).capability
                      /\ AuthOf(t)'.version = AuthOf(t).version
                      /\ AuthOf(t)'.strategy = AuthOf(t).strategy
                      /\ AuthOf(t)'.expiresAt = AuthOf(t).expiresAt
    OBVIOUS
  <2>1. t \in DOMAIN tickets /\ tickets'[t] = tickets[t]
    BY <1>3
  <2>2. ChallengeOf(t) \in DOMAIN auths /\ AuthOf(t).stage = "granted"
    BY <2>1 DEF IInv, TicketsStandForGrants
  <2>3. ChallengeOf(t)' = ChallengeOf(t) /\ AuthOf(t)' = auths'[ChallengeOf(t)]
    BY <2>1 DEF ChallengeOf, AuthOf
  <2> QED
    BY <2>1, <2>2, <2>3 DEF AuthOf, AuthsKept
<1>6. n \in DOMAIN tickets' => /\ ChallengeOf(n)' = a /\ AuthOf(n)' = auths'[a]
                               /\ tickets'[n].body = TicketBody(b)
  BY <1>3, <1>4 DEF ChallengeOf, AuthOf
<1>7. TicketsStandForGrants'
  <2> SUFFICES ASSUME NEW t \in DOMAIN tickets'
               PROVE  /\ ChallengeOf(t)' \in DOMAIN auths'
                      /\ AuthOf(t)'.stage = "granted"
                      /\ tickets'[t].body.capability = AuthOf(t)'.capability
                      /\ tickets'[t].body.capabilityVersion = AuthOf(t)'.version
    BY DEF TicketsStandForGrants
  <2>1. CASE t = n
    BY <1>4, <1>6, <2>1
  <2>2. CASE t # n
    BY <1>5, <2>2 DEF IInv, TicketsStandForGrants, AuthsKept
  <2> QED
    BY <2>1, <2>2
<1>8. OneTicketPerGrant'
  BY <1>5, <1>6 DEF IInv, OneTicketPerGrant
<1>9. FreshTickets'
  <2>1. auths'[a].strategy \in Interactive \ HostProviders =>
          now + TicketTtl <= auths'[a].expiresAt + TicketTtl
    BY <1>2, RuntimeAssumption DEF Store!TypeOK
  <2> QED
    BY <1>4, <1>5, <1>6, <2>1 DEF IInv, FreshTickets
<1>10. DeviceConsentNeeded'
  BY <1>5, <1>6 DEF IInv, DeviceConsentNeeded
<1>11. runs[n].starts \in Nat /\ ~(runs[n].starts > 0)
  BY <1>3 DEF IInv, StartedWasRedeemed, Started, TypeOK, RunRecords
<1>12. StartedWasRedeemed'
  <2> SUFFICES ASSUME NEW t \in TicketIds, runs[t].starts > 0
               PROVE  /\ runs[t].starts = 1 /\ t <= n
                      /\ t \in DOMAIN tickets' => /\ tickets'[t].status = "redeemed"
                                                  /\ runs[t].at <= tickets'[t].body.expiresAt
    BY <1>3 DEF StartedWasRedeemed, Started
  <2>1. t # n /\ t <= issued /\ t \in Nat
    BY <1>11 DEF IInv, StartedWasRedeemed, Started, TicketIds
  <2> QED
    BY <1>3, <1>5, <2>1 DEF IInv, StartedWasRedeemed, Started
<1>13. OnlyNativeHandlersRun'
  BY <1>5, <1>11 DEF IInv, OnlyNativeHandlersRun, Started
<1>14. NoTicketNamesAnOperation'
  BY <1>4, <1>5, <1>6 DEF IInv, NoTicketNamesAnOperation
<1>15. LiveStaleTicketsAreLateGrants'
  <2>1. ASSUME r.version < Current(r.capability)
        PROVE  n > registry[r.capability][r.version + 1].from
    <3>1. r.version + 1 \in 1..Current(r.capability)
      BY <2>1, RuntimeAssumption DEF IInv, Shapes, Current
    <3>2. registry[r.capability][r.version + 1] \in [mcp : Mcp, from : 0..issued]
      BY <3>1 DEF IInv, TypeOK
    <3> QED
      BY <1>3, <3>2
  <2> SUFFICES ASSUME NEW t \in LiveTickets', Superseded(t)'
               PROVE  LET c == tickets'[t].body
                      IN  t > registry[c.capability][c.capabilityVersion + 1].from
    BY DEF LiveStaleTicketsAreLateGrants
  <2>2. CASE t = n
    BY <1>4, <1>6, <2>1, <2>2 DEF Superseded, Current, LiveTickets
  <2>3. CASE t # n
    BY <1>5, <2>3 DEF IInv, LiveStaleTicketsAreLateGrants, Superseded, Current,
       LiveTickets, Store!Live
  <2> QED
    BY <2>2, <2>3
<1> QED
  BY <1>3, <1>7, <1>8, <1>9, <1>10, <1>12, <1>13, <1>14, <1>15 DEF TicketInv, RunInv

(* What holds of the authorizations and the challenges.                    *)
AuthInv == /\ auths \in Seq(Authorization) /\ Len(auths) <= MaxAuths
           /\ VersionsExist /\ AskedOfHosts /\ PendingAgrees

LEMMA AuthTypes ==
  ASSUME IInv, NEW a \in DOMAIN auths
  PROVE  /\ a \in Auths /\ auths[a] \in Authorization
         /\ DOMAIN auths = 1..Len(auths) /\ Len(auths) \in Nat
         /\ auths[a].version <= Current(auths[a].capability)
         /\ auths[a].expiresAt \in Nat
<1>1. auths \in Seq(Authorization) /\ Len(auths) <= MaxAuths
  BY DEF IInv, TypeOK, Shapes
<1>2. /\ DOMAIN auths = 1..Len(auths) /\ Len(auths) \in Nat
      /\ auths[a] \in Authorization
  BY <1>1
<1>3. a \in Auths
  BY <1>1, <1>2, RuntimeAssumption DEF Auths
<1>4. auths[a].expiresAt \in Nat
  BY <1>2, RuntimeAssumption DEF Authorization, Time
<1>5. auths[a].version <= Current(auths[a].capability)
  BY DEF IInv, VersionsExist
<1> QED
  BY <1>2, <1>3, <1>4, <1>5

(* A request that leaves its stage for good, and at most its own challenge *)
(* changes.                                                                *)
LEMMA StageChange ==
  ASSUME IInv, NEW a \in DOMAIN auths, NEW s \in {"granted", "closed"},
         auths[a].stage # "granted",
         auths' = [auths EXCEPT ![a].stage = s],
         UNCHANGED <<now, registry>>,
         \A x \in DOMAIN challenges : x # a => x \in DOMAIN challenges' /\ challenges'[x] = challenges[x]
  PROVE  /\ AuthInv' /\ AuthsKept
         /\ DOMAIN auths' = DOMAIN auths
         /\ auths'[a] = [auths[a] EXCEPT !.stage = s]
<1>1. /\ DOMAIN auths' = DOMAIN auths /\ Len(auths') = Len(auths)
      /\ auths'[a] = [auths[a] EXCEPT !.stage = s]
      /\ \A x \in DOMAIN auths : x # a => auths'[x] = auths[x]
  BY DEF IInv, Shapes
<1>2. auths[a] \in Authorization
  BY AuthTypes
<1>3. /\ auths'[a] \in Authorization /\ auths'[a].stage = s
      /\ auths'[a].capability = auths[a].capability /\ auths'[a].version = auths[a].version
      /\ auths'[a].strategy = auths[a].strategy /\ auths'[a].expiresAt = auths[a].expiresAt
  BY <1>1, <1>2 DEF Authorization
<1>4. auths' \in Seq(Authorization) /\ Len(auths') <= MaxAuths
  BY <1>1, <1>3 DEF IInv, Shapes, TypeOK
<1>5. AuthsKept
  BY <1>1, <1>3 DEF AuthsKept
<1>6. VersionsExist'
  BY <1>1, <1>3 DEF IInv, VersionsExist, Current
<1>7. AskedOfHosts'
  BY <1>1, <1>3 DEF IInv, AskedOfHosts
<1>8. PendingAgrees'
  BY <1>1, <1>3 DEF IInv, PendingAgrees, Live, Pending
<1> QED
  BY <1>1, <1>4, <1>5, <1>6, <1>7, <1>8 DEF AuthInv

(* No ticket stands for a request that has not been granted.               *)
LEMMA UngrantedHasNoTicket ==
  ASSUME IInv, NEW a \in DOMAIN auths, auths[a].stage # "granted"
  PROVE  \A t \in DOMAIN tickets : ChallengeOf(t) # a
  BY DEF IInv, TicketsStandForGrants, AuthOf

(* The rest of TypeOK and Shapes, for the steps that leave it alone.       *)
LEMMA TypesKept ==
  ASSUME IInv, AuthInv', Store!TypeOK', UNCHANGED registry, issued' >= issued,
         consent' \subseteq DOMAIN auths', runs' \in [TicketIds -> RunRecords],
         DOMAIN challenges' \subseteq DOMAIN auths',
         \A a \in DOMAIN challenges' :
           challenges'[a] \in [expiresAt : Time, redeemed : BOOLEAN]
  PROVE  TypeOK' /\ Shapes'
<1>1. issued \in Nat /\ issued' \in Nat
  BY RuntimeAssumption DEF Store!TypeOK, MaxIssued, IInv, TypeOK
<1>2. 0..issued \subseteq 0..issued'
  BY <1>1
<1>3. \A c \in Capabilities : \A v \in 1..Len(registry[c]) :
        v <= MaxVersion /\ registry[c][v] \in [mcp : Mcp, from : 0..issued']
  BY <1>2 DEF IInv, TypeOK, Current
<1>4. \A a \in DOMAIN auths' : auths'[a] \in Authorization
  BY DEF AuthInv
<1>5. TypeOK'
  BY <1>3, <1>4 DEF TypeOK, AuthInv, Current
<1>6. Shapes'
  BY DEF Shapes, AuthInv, IInv
<1> QED
  BY <1>5, <1>6

-----------------------------------------------------------------------------
LEMMA ApprovalAnsweredKeeps ==
  ASSUME IInv, NEW a \in DOMAIN auths, NEW granted \in BOOLEAN, ApprovalAnswered(a, granted)
  PROVE  IInv'
<1>1. /\ auths[a].stage = "asking"
      /\ auths' = [auths EXCEPT ![a].stage = IF granted THEN "granted" ELSE "closed"]
      /\ IF granted THEN FinalizeAuthorization(auths[a], a) ELSE UNCHANGED <<now, storeVars>>
      /\ UNCHANGED <<registry, challenges, consent, runs>>
  BY DEF ApprovalAnswered
<1>2. /\ a \in Auths /\ auths[a] \in Authorization
      /\ auths[a].version <= Current(auths[a].capability) /\ auths[a].expiresAt \in Nat
  BY AuthTypes
<1>3. auths[a].strategy \notin Interactive \ HostProviders
  BY <1>1 DEF IInv, AskedOfHosts, Interactive
<1>4. auths[a].strategy \notin DeviceStrategies \ HostProviders
  BY <1>3 DEF Interactive, DeviceStrategies
<1>5. UNCHANGED now
  BY <1>1 DEF FinalizeAuthorization, Store!Issue
<1>6. /\ AuthInv' /\ AuthsKept
      /\ DOMAIN auths' = DOMAIN auths
      /\ auths'[a] = [auths[a] EXCEPT !.stage = IF granted THEN "granted" ELSE "closed"]
  BY <1>1, <1>5, StageChange
<1>7. Store!TypeOK' /\ TicketInv' /\ RunInv' /\ issued' \in Nat /\ issued \in Nat /\ issued' >= issued
  <2>0. issued \in Nat
    BY RuntimeAssumption DEF Store!TypeOK, MaxIssued, IInv, TypeOK
  <2>1. CASE granted
    <3>1. /\ auths'[a].stage = "granted"
          /\ auths'[a].capability = auths[a].capability /\ auths'[a].version = auths[a].version
          /\ auths'[a].strategy = auths[a].strategy
          /\ auths'[a].expiresAt = auths[a].expiresAt
      BY <1>2, <1>6, <2>1 DEF Authorization
    <3>2. /\ auths[a].capability \in Capabilities /\ auths[a].version \in 1..MaxVersion
          /\ auths[a].mcp \in Mcp /\ auths[a].input \in Inputs
      BY <1>2 DEF Authorization
    <3>3. \A t \in DOMAIN tickets : ChallengeOf(t) # a
      BY <1>1, UngrantedHasNoTicket
    <3>4. FinalizeAuthorization(auths[a], a)
      BY <1>1, <2>1
    <3>5. Store!TypeOK' /\ TicketInv' /\ RunInv' /\ issued' = issued + 1
      BY <1>1, <1>2, <1>3, <1>4, <1>6, <3>1, <3>2, <3>3, <3>4, GrantKeeps
    <3> QED
      BY <2>0, <3>5
  <2>2. CASE ~granted
    <3>1. OnlyCloses /\ UNCHANGED <<issued, now, tickets, uses, revoked>>
      BY <1>1, <2>2 DEF OnlyCloses, storeVars
    <3>2. Store!TypeOK'
      BY <3>1 DEF IInv, TypeOK, Store!TypeOK
    <3>3. TicketInv'
      BY <1>1, <1>6, <3>1, ClosingKeepsTickets DEF IInv, TicketInv
    <3>4. RunInv'
      BY <1>1, <3>1, ClosingKeepsRuns DEF IInv, TypeOK, RunInv
    <3> QED
      BY <2>0, <3>1, <3>2, <3>3, <3>4
  <2> QED
    BY <2>1, <2>2
<1>8. TypeOK' /\ Shapes'
  BY <1>1, <1>6, <1>7, TypesKept DEF IInv, TypeOK
<1> QED
  BY <1>6, <1>7, <1>8 DEF IInv, AuthInv, TicketInv, RunInv

LEMMA SubmitExpiredKeeps ==
  ASSUME IInv, NEW a \in DOMAIN auths, SubmitExpired(a)
  PROVE  IInv'
<1>1. /\ auths[a].stage = "pending"
      /\ auths' = [auths EXCEPT ![a].stage = "closed"]
      /\ UNCHANGED <<now, tickets, issued, uses, revoked,
                     registry, challenges, consent, runs>>
  BY DEF SubmitExpired, Pending, storeVars
<1>2. AuthInv' /\ AuthsKept /\ DOMAIN auths' = DOMAIN auths
  BY <1>1, StageChange
<1>3. OnlyCloses /\ Store!TypeOK' /\ issued \in Nat
  BY <1>1, RuntimeAssumption DEF OnlyCloses, Store!TypeOK, IInv, TypeOK, MaxIssued
<1>4. TicketInv'
  BY <1>1, <1>2, <1>3, ClosingKeepsTickets DEF IInv, TicketInv
<1>5. RunInv'
  BY <1>1, <1>3, ClosingKeepsRuns DEF IInv, TypeOK, RunInv
<1>6. TypeOK' /\ Shapes'
  BY <1>1, <1>2, <1>3, TypesKept DEF IInv, TypeOK
<1> QED
  BY <1>2, <1>4, <1>5, <1>6 DEF IInv, AuthInv, TicketInv, RunInv

LEMMA SubmitHostProofKeeps ==
  ASSUME IInv, NEW a \in DOMAIN auths, SubmitHostProof(a)
  PROVE  IInv'
<1>1. /\ auths[a].stage = "pending" /\ ~(now > auths[a].expiresAt)
      /\ auths[a].strategy \in {"biometric", "custom"}
      /\ auths' = [auths EXCEPT ![a].stage = "granted"]
      /\ FinalizeAuthorization(auths[a], a)
      /\ UNCHANGED <<registry, challenges, consent, runs>>
  BY DEF SubmitHostProof, Live, Pending
<1>2. /\ a \in Auths /\ auths[a] \in Authorization
      /\ auths[a].version <= Current(auths[a].capability) /\ auths[a].expiresAt \in Nat
  BY AuthTypes
<1>3. now \in Nat /\ issued \in Nat /\ UNCHANGED now
  BY <1>1, RuntimeAssumption
     DEF FinalizeAuthorization, Store!Issue, Store!TypeOK, IInv, TypeOK, MaxIssued
<1>4. /\ AuthInv' /\ AuthsKept /\ DOMAIN auths' = DOMAIN auths
      /\ auths'[a] = [auths[a] EXCEPT !.stage = "granted"]
  BY <1>1, <1>3, StageChange
<1>5. /\ auths'[a].stage = "granted"
      /\ auths'[a].capability = auths[a].capability /\ auths'[a].version = auths[a].version
      /\ auths'[a].strategy = auths[a].strategy /\ auths'[a].expiresAt = auths[a].expiresAt
      /\ auths[a].capability \in Capabilities /\ auths[a].version \in 1..MaxVersion
      /\ auths[a].mcp \in Mcp /\ auths[a].input \in Inputs
  BY <1>2, <1>4 DEF Authorization
<1>6. auths[a].strategy \notin DeviceStrategies \ HostProviders
  BY <1>1 DEF DeviceStrategies
<1>7. \A t \in DOMAIN tickets : ChallengeOf(t) # a
  BY <1>1, UngrantedHasNoTicket
<1>8. now <= auths[a].expiresAt
  BY <1>1, <1>2, <1>3
<1>9. Store!TypeOK' /\ TicketInv' /\ RunInv' /\ issued' = issued + 1
  BY <1>1, <1>2, <1>4, <1>5, <1>6, <1>7, <1>8, GrantKeeps
<1>10. TypeOK' /\ Shapes'
  BY <1>1, <1>3, <1>4, <1>9, TypesKept DEF IInv, TypeOK
<1> QED
  BY <1>4, <1>9, <1>10 DEF IInv, AuthInv, TicketInv, RunInv

(* The approval that is accepted is a genuine one: its challenge was       *)
(* signed as granted by a device's holder.                                 *)
LEMMA SubmitDeviceApprovalKeeps ==
  ASSUME IInv, NEW a \in DOMAIN auths, NEW p \in Approvals, SubmitDeviceApproval(a, p)
  PROVE  IInv'
<1>1. /\ auths[a].stage = "pending" /\ ~(now > auths[a].expiresAt)
      /\ p.challengeId = a /\ Verified(p)
      /\ challenges' = [challenges EXCEPT ![a].redeemed = TRUE]
      /\ auths' = [auths EXCEPT ![a].stage = "granted"]
      /\ FinalizeAuthorization(auths[a], a)
      /\ UNCHANGED <<registry, consent, runs>>
  BY DEF SubmitDeviceApproval, Live, Pending
<1>2. /\ a \in Auths /\ auths[a] \in Authorization
      /\ auths[a].version <= Current(auths[a].capability) /\ auths[a].expiresAt \in Nat
  BY AuthTypes
<1>3. a \in consent /\ a \in DOMAIN challenges
  BY <1>1 DEF Approvals, Verified
<1>4. now \in Nat /\ issued \in Nat /\ UNCHANGED now
  BY <1>1, RuntimeAssumption
     DEF FinalizeAuthorization, Store!Issue, Store!TypeOK, IInv, TypeOK, MaxIssued
<1>5. /\ DOMAIN challenges' = DOMAIN challenges
      /\ \A x \in DOMAIN challenges : x # a => challenges'[x] = challenges[x]
      /\ challenges'[a] = [challenges[a] EXCEPT !.redeemed = TRUE]
  BY <1>1, <1>3
<1>6. /\ AuthInv' /\ AuthsKept /\ DOMAIN auths' = DOMAIN auths
      /\ auths'[a] = [auths[a] EXCEPT !.stage = "granted"]
  BY <1>1, <1>4, <1>5, StageChange
<1>7. /\ auths'[a].stage = "granted"
      /\ auths'[a].capability = auths[a].capability /\ auths'[a].version = auths[a].version
      /\ auths'[a].strategy = auths[a].strategy /\ auths'[a].expiresAt = auths[a].expiresAt
      /\ auths[a].capability \in Capabilities /\ auths[a].version \in 1..MaxVersion
      /\ auths[a].mcp \in Mcp /\ auths[a].input \in Inputs
  BY <1>2, <1>6 DEF Authorization
<1>8. \A t \in DOMAIN tickets : ChallengeOf(t) # a
  BY <1>1, UngrantedHasNoTicket
<1>9. now <= auths[a].expiresAt
  BY <1>1, <1>2, <1>4
<1>10. Store!TypeOK' /\ TicketInv' /\ RunInv' /\ issued' = issued + 1
  BY <1>1, <1>2, <1>3, <1>6, <1>7, <1>8, <1>9, GrantKeeps
<1>11. \A x \in DOMAIN challenges' :
         challenges'[x] \in [expiresAt : Time, redeemed : BOOLEAN]
  <2>1. challenges[a] \in [expiresAt : Time, redeemed : BOOLEAN]
    BY <1>3 DEF IInv, TypeOK
  <2>2. challenges'[a] \in [expiresAt : Time, redeemed : BOOLEAN]
    BY <1>5, <2>1
  <2> QED
    BY <1>5, <2>2 DEF IInv, TypeOK
<1>12. /\ issued' >= issued /\ consent' \subseteq DOMAIN auths'
       /\ DOMAIN challenges' \subseteq DOMAIN auths'
       /\ runs' \in [TicketIds -> RunRecords]
  BY <1>1, <1>4, <1>5, <1>6, <1>10 DEF IInv, TypeOK
<1>13. TypeOK' /\ Shapes'
  BY <1>1, <1>6, <1>10, <1>11, <1>12, TypesKept
<1> QED
  BY <1>6, <1>10, <1>13 DEF IInv, AuthInv, TicketInv, RunInv

(* The caller's edit changes the input alone.                              *)
LEMMA CallerEditsCommandKeeps ==
  ASSUME IInv, NEW a \in DOMAIN auths, NEW x \in Inputs, CallerEditsCommand(a, x)
  PROVE  IInv'
<1>1. /\ auths' = [auths EXCEPT ![a].input = x]
      /\ UNCHANGED <<now, tickets, issued, uses, revoked,
                     registry, challenges, consent, runs>>
  BY DEF CallerEditsCommand, storeVars
<1>2. a \in Auths /\ auths[a] \in Authorization
  BY AuthTypes
<1>3. /\ DOMAIN auths' = DOMAIN auths /\ Len(auths') = Len(auths)
      /\ auths'[a] = [auths[a] EXCEPT !.input = x]
      /\ \A y \in DOMAIN auths : y # a => auths'[y] = auths[y]
  BY <1>1 DEF IInv, Shapes
<1>4. /\ auths'[a] \in Authorization /\ auths'[a].stage = auths[a].stage
      /\ auths'[a].capability = auths[a].capability /\ auths'[a].version = auths[a].version
      /\ auths'[a].strategy = auths[a].strategy /\ auths'[a].expiresAt = auths[a].expiresAt
  BY <1>2, <1>3 DEF Authorization
<1>5. AuthsKept
  BY <1>3, <1>4 DEF AuthsKept
<1>6. auths' \in Seq(Authorization) /\ Len(auths') <= MaxAuths
  BY <1>1, <1>3, <1>4 DEF IInv, Shapes, TypeOK
<1>7. VersionsExist' /\ AskedOfHosts'
  BY <1>1, <1>3, <1>4 DEF IInv, VersionsExist, AskedOfHosts, Current
<1>8. PendingAgrees'
  BY <1>1, <1>3, <1>4 DEF IInv, PendingAgrees, Live, Pending
<1>9. OnlyCloses /\ Store!TypeOK' /\ issued \in Nat
  BY <1>1, RuntimeAssumption DEF OnlyCloses, Store!TypeOK, IInv, TypeOK, MaxIssued
<1>10. TicketInv' /\ RunInv'
  BY <1>1, <1>5, <1>9, ClosingKeepsTickets, ClosingKeepsRuns DEF IInv, TypeOK, TicketInv, RunInv
<1>11. AuthInv'
  BY <1>6, <1>7, <1>8 DEF AuthInv
<1>12. TypeOK' /\ Shapes'
  BY <1>1, <1>3, <1>9, <1>11, TypesKept DEF IInv, TypeOK
<1> QED
  BY <1>7, <1>8, <1>10, <1>12 DEF IInv, TicketInv, RunInv

-----------------------------------------------------------------------------
(* Steps that leave the authorizations alone.                              *)
LEMMA AuthsUntouched ==
  ASSUME IInv, UNCHANGED <<auths, challenges>>, now \in Nat, now' \in Nat, now' >= now,
         \A c \in Capabilities : Current(c)' >= Current(c) /\ Current(c) \in Nat /\ Current(c)' \in Nat
  PROVE  AuthInv' /\ AuthsKept
<1>1. AuthsKept
  BY DEF AuthsKept
<1>2. auths' \in Seq(Authorization) /\ Len(auths') <= MaxAuths
  BY DEF IInv, Shapes, TypeOK
<1>3. VersionsExist'
  <2> SUFFICES ASSUME NEW a \in DOMAIN auths
               PROVE  auths[a].version <= Current(auths[a].capability)'
    BY DEF VersionsExist
  <2>1. auths[a] \in Authorization /\ auths[a].version <= Current(auths[a].capability)
    BY AuthTypes
  <2>2. auths[a].version \in Nat /\ auths[a].capability \in Capabilities
    BY <2>1, RuntimeAssumption DEF Authorization
  <2> QED
    BY <2>1, <2>2
<1>4. AskedOfHosts'
  BY DEF IInv, AskedOfHosts
<1>5. PendingAgrees'
  <2> SUFFICES ASSUME NEW a \in DOMAIN auths, Live(a)'
               PROVE  /\ a \in DOMAIN challenges /\ ~challenges[a].redeemed
                      /\ challenges[a].expiresAt = auths[a].expiresAt
    BY DEF PendingAgrees
  <2>1. auths[a].expiresAt \in Nat
    BY AuthTypes
  <2>2. Live(a)
    BY <2>1 DEF Live, Pending
  <2> QED
    BY <2>2 DEF IInv, PendingAgrees
<1> QED
  BY <1>1, <1>2, <1>3, <1>4, <1>5 DEF AuthInv

LEMMA BasicTypes ==
  ASSUME IInv
  PROVE  /\ now \in Nat /\ issued \in Nat /\ Store!TypeOK
         /\ \A c \in Capabilities : Current(c) \in Nat
  BY RuntimeAssumption DEF IInv, TypeOK, Store!TypeOK, MaxIssued, Shapes, Current

(* Steps that only close tickets, and at most report runs or add consent.  *)
LEMMA ClosingKeeps ==
  ASSUME IInv, OnlyCloses, Store!TypeOK', UNCHANGED <<now, issued, registry, auths, challenges>>,
         consent \subseteq consent', consent' \subseteq DOMAIN auths,
         runs' \in [TicketIds -> RunRecords],
         \A t \in TicketIds : runs'[t].starts = runs[t].starts /\ runs'[t].at = runs[t].at
  PROVE  IInv'
<1>1. AuthInv' /\ AuthsKept
  BY BasicTypes, AuthsUntouched DEF Current
<1>2. TicketInv'
  BY <1>1, ClosingKeepsTickets DEF IInv, TicketInv
<1>3. RunInv'
  BY BasicTypes, ClosingKeepsRuns DEF IInv, RunInv
<1>4. /\ issued' >= issued /\ consent' \subseteq DOMAIN auths'
      /\ DOMAIN challenges' \subseteq DOMAIN auths'
      /\ \A a \in DOMAIN challenges' :
           challenges'[a] \in [expiresAt : Time, redeemed : BOOLEAN]
  BY BasicTypes DEF IInv, TypeOK
<1>5. TypeOK' /\ Shapes'
  BY <1>1, <1>4, TypesKept
<1> QED
  BY <1>1, <1>2, <1>3, <1>5 DEF IInv, AuthInv, TicketInv, RunInv

LEMMA StoreUntouched ==
  ASSUME IInv, UNCHANGED <<now, storeVars>>
  PROVE  /\ OnlyCloses /\ Store!TypeOK' /\ UNCHANGED <<now, issued>>
  BY BasicTypes DEF OnlyCloses, storeVars, Store!TypeOK

LEMMA RunsUntouched ==
  ASSUME IInv, UNCHANGED runs
  PROVE  /\ runs' \in [TicketIds -> RunRecords]
         /\ \A t \in TicketIds : runs'[t].starts = runs[t].starts /\ runs'[t].at = runs[t].at
  BY DEF IInv, TypeOK

LEMMA DeviceConsentsKeeps ==
  ASSUME IInv, NEW a \in DOMAIN auths, DeviceConsents(a)
  PROVE  IInv'
<1>1. /\ consent' = consent \cup {a}
      /\ UNCHANGED <<now, storeVars>>
      /\ UNCHANGED <<registry, auths, challenges, runs>>
  BY DEF DeviceConsents
<1>2. consent \subseteq consent' /\ consent' \subseteq DOMAIN auths
  BY <1>1 DEF IInv, TypeOK
<1> QED
  BY <1>1, <1>2, StoreUntouched, RunsUntouched, ClosingKeeps

LEMMA InvalidateKeeps ==
  ASSUME IInv, NEW S, Store!Cancel(S), UNCHANGED <<registry, auths, challenges, consent, runs>>
  PROVE  IInv'
<1>1. OnlyCloses /\ UNCHANGED <<now, issued>> /\ Store!TypeOK'
  BY BasicTypes, CancelEffect
<1>2. consent \subseteq consent' /\ consent' \subseteq DOMAIN auths
  BY DEF IInv, TypeOK
<1> QED
  BY <1>1, <1>2, RunsUntouched, ClosingKeeps

LEMMA ReportKeeps ==
  ASSUME IInv, NEW t \in TicketIds, HandlerSettles(t, TRUE) \/ HandlerSettles(t, FALSE) \/ ExecuteTimesOut(t)
  PROVE  IInv'
<1>1. PICK h \in {"none", "running", "done", "threw"}, r \in {"none", "ok", "failed"} :
        runs' = [runs EXCEPT ![t].handler = h, ![t].report = r]
  <2>1. runs[t] \in RunRecords
    BY DEF IInv, TypeOK
  <2>2. CASE HandlerSettles(t, TRUE)
    BY <2>1, <2>2 DEF HandlerSettles, RunRecords
  <2>3. CASE HandlerSettles(t, FALSE)
    BY <2>1, <2>3 DEF HandlerSettles, RunRecords
  <2>4. CASE ExecuteTimesOut(t)
    <3>1. runs' = [runs EXCEPT ![t].report = "failed"]
      BY <2>4 DEF ExecuteTimesOut
    <3>2. runs' = [runs EXCEPT ![t].handler = runs[t].handler, ![t].report = "failed"]
      BY <2>1, <3>1 DEF IInv, TypeOK, RunRecords
    <3> QED
      BY <2>1, <3>2 DEF RunRecords
  <2> QED
    BY <2>2, <2>3, <2>4
<1>2. UNCHANGED <<now, storeVars>> /\ UNCHANGED <<registry, auths, challenges, consent>>
  BY DEF HandlerSettles, ExecuteTimesOut
<1>3. /\ runs' \in [TicketIds -> RunRecords]
      /\ \A u \in TicketIds : runs'[u].starts = runs[u].starts /\ runs'[u].at = runs[u].at
  <2>1. runs \in [TicketIds -> RunRecords] /\ runs[t] \in RunRecords
    BY DEF IInv, TypeOK
  <2>2. /\ runs'[t] = [runs[t] EXCEPT !.handler = h, !.report = r]
        /\ \A u \in TicketIds : u # t => runs'[u] = runs[u]
        /\ DOMAIN runs' = TicketIds
    BY <1>1, <2>1
  <2>3. runs'[t] \in RunRecords /\ runs'[t].starts = runs[t].starts /\ runs'[t].at = runs[t].at
    BY <2>1, <2>2 DEF RunRecords
  <2>4. runs' \in [TicketIds -> RunRecords]
    BY <1>1, <2>1, <2>2, <2>3
  <2> QED
    BY <2>2, <2>3, <2>4
<1>4. consent \subseteq consent' /\ consent' \subseteq DOMAIN auths
  BY <1>2 DEF IInv, TypeOK
<1> QED
  BY <1>2, <1>3, <1>4, StoreUntouched, ClosingKeeps

(* execute() starts a handler only for a live ticket that it has redeemed. *)
LEMMA ExecuteKeeps ==
  ASSUME IInv, NEW t \in TicketIds, NEW sandboxReady \in BOOLEAN, Execute(t, sandboxReady)
  PROVE  IInv'
<1> DEFINE b == tickets[t].body
           definition == registry[b.capability][b.capabilityVersion]
           ctx == [capability |-> b.capability, capabilityVersion |-> b.capabilityVersion,
                   mcp |-> definition.mcp]
           bound == ~(definition.mcp = NoMcp /\ b.mcp # NoMcp)
           starts == Store!Verdict(t, ctx) = "ok" /\ bound /\ sandboxReady
<1>1. /\ now \in Nat /\ issued \in Nat /\ Store!TypeOK
      /\ t \in DOMAIN tickets
      /\ Store!Redeem(t, ctx)
      /\ UNCHANGED <<registry, auths, challenges, consent>>
  BY BasicTypes DEF Execute
<1>2. runs' = IF starts THEN [runs EXCEPT ![t].starts = @ + 1, ![t].handler = "running",
                                          ![t].at = now]
              ELSE runs
  BY DEF Execute
<1>3. ctx.mcp = definition.mcp
  OBVIOUS
<1>4. /\ OnlyCloses /\ UNCHANGED <<now, issued>> /\ Store!TypeOK'
      /\ Store!Verdict(t, ctx) = "ok" =>
           /\ t \in DOMAIN tickets /\ tickets[t].status # "redeemed"
           /\ now <= b.expiresAt
           /\ definition.mcp # NoMcp => b.mcp = definition.mcp
           /\ tickets'[t].status = "redeemed"
  <2> HIDE DEF ctx
  <2> QED
    BY <1>1, <1>3, RedeemEffect
<1>5. consent \subseteq consent' /\ consent' \subseteq DOMAIN auths
  BY <1>1 DEF IInv, TypeOK
<1>6. CASE ~starts
  <2>1. UNCHANGED runs
    BY <1>2, <1>6
  <2> HIDE DEF ctx, b, definition, bound
  <2> QED
    BY <1>1, <1>4, <1>5, <2>1, RunsUntouched, ClosingKeeps
<1>7. CASE starts
  <2>0. b.mcp = NoMcp
    BY <1>1 DEF IInv, NoTicketNamesAnOperation
  <2>1. /\ tickets[t].status # "redeemed" /\ now <= b.expiresAt
        /\ definition.mcp = NoMcp /\ tickets'[t].status = "redeemed"
    BY <1>4, <1>7, <2>0
  <2>2. runs \in [TicketIds -> RunRecords] /\ runs[t] \in RunRecords
    BY DEF IInv, TypeOK
  <2>3. runs[t].starts = 0
    BY <1>1, <2>1, <2>2 DEF IInv, StartedWasRedeemed, Started, RunRecords
  <2>4. runs' = [runs EXCEPT ![t].starts = @ + 1, ![t].handler = "running", ![t].at = now]
    BY <1>2, <1>7
  <2>5. /\ runs'[t] = [runs[t] EXCEPT !.starts = @ + 1, !.handler = "running", !.at = now]
        /\ \A u \in TicketIds : u # t => runs'[u] = runs[u]
        /\ DOMAIN runs' = TicketIds
    BY <2>2, <2>4
  <2>6. runs'[t].starts = 1 /\ runs'[t].at = now /\ runs'[t] \in RunRecords
    <3> DEFINE counted == [runs[t] EXCEPT !.starts = @ + 1]
    <3>1. counted \in RunRecords /\ counted.starts = 1
      BY <2>2, <2>3 DEF RunRecords
    <3>2. runs'[t] = [counted EXCEPT !.handler = "running", !.at = now]
      BY <2>5
    <3> HIDE DEF counted
    <3> QED
      BY <1>1, <3>1, <3>2 DEF RunRecords, Store!TypeOK
  <2>7. runs' \in [TicketIds -> RunRecords]
    BY <2>2, <2>4, <2>5, <2>6
  <2> HIDE DEF ctx, b, definition, bound
  <2>8. AuthInv' /\ AuthsKept
    BY <1>1, <1>4, BasicTypes, AuthsUntouched DEF Current
  <2>9. TicketInv'
    BY <1>1, <1>4, <1>5, <2>8, ClosingKeepsTickets DEF IInv, TicketInv
  <2>10. \A u \in DOMAIN tickets' : /\ u \in DOMAIN tickets /\ u \in TicketIds /\ u <= issued
                                    /\ tickets'[u].body = tickets[u].body
    BY <1>1, <1>4, RuntimeAssumption DEF OnlyCloses, Store!TypeOK, TicketIds, MaxIssued
  <2>11. StartedWasRedeemed'
    <3> SUFFICES ASSUME NEW u \in TicketIds, runs'[u].starts > 0
                 PROVE  /\ runs'[u].starts = 1 /\ u <= issued
                        /\ u \in DOMAIN tickets' =>
                             /\ tickets'[u].status = "redeemed"
                             /\ runs'[u].at <= tickets'[u].body.expiresAt
      BY <1>4 DEF StartedWasRedeemed, Started
    <3>1. CASE u = t
      <4>1. t <= issued
        BY <1>1 DEF Store!TypeOK
      <4> QED
        BY <1>1, <2>1, <2>6, <2>10, <3>1, <4>1 DEF b
    <3>2. CASE u # t
      BY <1>4, <2>5, <2>10, <3>2 DEF IInv, StartedWasRedeemed, Started, OnlyCloses
    <3> QED
      BY <3>1, <3>2
  <2>12. OnlyNativeHandlersRun'
    <3> SUFFICES ASSUME NEW u \in DOMAIN tickets', runs'[u].starts > 0
                 PROVE  /\ tickets'[u].body.mcp = NoMcp
                        /\ registry[tickets'[u].body.capability]
                                   [tickets'[u].body.capabilityVersion].mcp = NoMcp
      BY <1>1 DEF OnlyNativeHandlersRun, Started
    <3>1. CASE u = t
      BY <2>0, <2>1, <2>10, <3>1 DEF b, definition
    <3>2. CASE u # t
      BY <2>5, <2>10, <3>2 DEF IInv, OnlyNativeHandlersRun, Started
    <3> QED
      BY <3>1, <3>2
  <2>13. LiveStaleTicketsAreLateGrants'
    <3>1. LiveTickets' \subseteq LiveTickets
      BY <1>4, <2>10 DEF LiveTickets, Store!Live, OnlyCloses
    <3> QED
      BY <1>1, <2>10, <3>1
         DEF IInv, LiveStaleTicketsAreLateGrants, Superseded, Current, LiveTickets
  <2>14. /\ issued' >= issued /\ consent' \subseteq DOMAIN auths'
         /\ DOMAIN challenges' \subseteq DOMAIN auths'
         /\ \A a \in DOMAIN challenges' :
              challenges'[a] \in [expiresAt : Time, redeemed : BOOLEAN]
    BY <1>1, <1>4 DEF IInv, TypeOK
  <2>15. TypeOK' /\ Shapes'
    BY <1>1, <1>4, <2>7, <2>8, <2>14, TypesKept
  <2>16. NoTicketNamesAnOperation'
    BY <2>10 DEF IInv, NoTicketNamesAnOperation
  <2> QED
    BY <2>8, <2>9, <2>11, <2>12, <2>13, <2>15, <2>16 DEF IInv, AuthInv, TicketInv
<1> QED
  BY <1>6, <1>7

LEMMA TickKeeps ==
  ASSUME IInv, Tick
  PROVE  IInv'
<1>1. /\ now \in Nat /\ now' = now + 1 /\ now' <= MaxTime /\ now' >= now /\ now' \in Nat
      /\ issued \in Nat /\ Store!TypeOK
      /\ UNCHANGED <<tickets, issued, uses, revoked,
                     registry, auths, challenges, consent, runs>>
  BY BasicTypes, RuntimeAssumption DEF Tick, storeVars, IInv, TypeOK, Store!TypeOK
<1>2. Store!TypeOK'
  <2>1. \A i \in DOMAIN tickets : /\ tickets[i] \in Store!Entries
                                  /\ tickets[i].signature.issuedAt \in Nat
                                  /\ tickets[i].signature.issuedAt <= now
    BY <1>1, RuntimeAssumption DEF Store!TypeOK, Store!Entries, Store!Bodies, Store!Time
  <2>2. \A i \in DOMAIN tickets : tickets[i].signature.issuedAt <= now + 1
    BY <1>1, <2>1
  <2> QED
    BY <1>1, <2>1, <2>2 DEF Store!TypeOK
<1>3. AuthInv' /\ AuthsKept
  BY <1>1, BasicTypes, AuthsUntouched DEF Current
<1>4. OnlyCloses
  BY <1>1 DEF OnlyCloses
<1>5. TicketInv'
  BY <1>1, <1>3, <1>4, ClosingKeepsTickets DEF IInv, TicketInv
<1>6. RunInv'
  BY <1>1, <1>4, RunsUntouched, ClosingKeepsRuns DEF IInv, RunInv
<1>7. TypeOK' /\ Shapes'
  BY <1>1, <1>2, <1>3, TypesKept DEF IInv, TypeOK
<1> QED
  BY <1>3, <1>5, <1>6, <1>7 DEF IInv, AuthInv, TicketInv, RunInv

-----------------------------------------------------------------------------
(* A ticket's version is one its capability has had.                       *)
LEMMA TicketVersions ==
  ASSUME IInv, NEW t \in DOMAIN tickets
  PROVE  LET b == tickets[t].body
         IN  b.capability \in Capabilities /\ b.capabilityVersion \in 1..Current(b.capability)
<1>1. /\ ChallengeOf(t) \in DOMAIN auths
      /\ tickets[t].body.capability = AuthOf(t).capability
      /\ tickets[t].body.capabilityVersion = AuthOf(t).version
  BY DEF IInv, TicketsStandForGrants
<1>2. AuthOf(t) \in Authorization /\ AuthOf(t).version <= Current(AuthOf(t).capability)
  BY <1>1, AuthTypes DEF AuthOf
<1>3. AuthOf(t).capability \in Capabilities /\ AuthOf(t).version \in 1..MaxVersion
  BY <1>2 DEF Authorization
<1>4. Current(AuthOf(t).capability) \in Nat
  BY <1>3, BasicTypes
<1> QED
  BY <1>1, <1>2, <1>3, <1>4, RuntimeAssumption

(* A new version of c, and no live ticket left of the one it supersedes.   *)
LEMMA NewVersionKeeps ==
  ASSUME IInv, NEW c \in Capabilities, NEW m \in Mcp,
         registry' = [registry EXCEPT ![c] = Append(@, Definition(m))],
         Current(c) < MaxVersion,
         OnlyCloses, Store!TypeOK',
         \A i \in DOMAIN tickets' :
           tickets'[i].body.capability = c /\ tickets'[i].body.capabilityVersion = Current(c)
             => tickets'[i].status # "issued",
         UNCHANGED <<now, issued, auths, challenges, consent, runs>>
  PROVE  IInv'
<1>1. /\ now \in Nat /\ issued \in Nat /\ Store!TypeOK /\ Current(c) \in Nat
      /\ registry \in [Capabilities -> Seq([mcp : Mcp, from : Nat])]
  BY BasicTypes DEF IInv, Shapes
<1>2. Definition(m) \in [mcp : Mcp, from : Nat] /\ Definition(m) \in [mcp : Mcp, from : 0..issued]
  BY <1>1 DEF Definition
<1>3. /\ registry'[c] = Append(registry[c], Definition(m))
      /\ \A d \in Capabilities : d # c => registry'[d] = registry[d]
      /\ DOMAIN registry' = Capabilities
  BY <1>1
<1>4. registry[c] \in Seq([mcp : Mcp, from : Nat])
  BY <1>1
<1>5. /\ registry'[c] \in Seq([mcp : Mcp, from : Nat])
      /\ Len(registry'[c]) = Len(registry[c]) + 1
      /\ registry'[c][Len(registry[c]) + 1] = Definition(m)
      /\ \A v \in 1..Len(registry[c]) : registry'[c][v] = registry[c][v]
  BY <1>2, <1>3, <1>4
<1>6. registry' \in [Capabilities -> Seq([mcp : Mcp, from : Nat])]
  BY <1>1, <1>3, <1>5
<1>7. /\ Current(c)' = Current(c) + 1
      /\ \A d \in Capabilities : d # c => Current(d)' = Current(d)
  BY <1>3, <1>5 DEF Current
<1>8. \A d \in Capabilities : Current(d)' >= Current(d) /\ Current(d) \in Nat /\ Current(d)' \in Nat
  <2>1. \A d \in Capabilities : Current(d) \in Nat
    BY BasicTypes
  <2> QED
    BY <1>3, <1>5, <2>1 DEF Current
<1>9. AuthInv' /\ AuthsKept
  BY <1>1, <1>8, AuthsUntouched
<1>10. TicketInv'
  BY <1>9, ClosingKeepsTickets DEF IInv, TicketInv
<1>11. \A d \in Capabilities : \A v \in 1..Current(d) : registry'[d][v] = registry[d][v]
  BY <1>3, <1>5 DEF Current
<1>12. \A t \in DOMAIN tickets' :
         /\ t \in DOMAIN tickets /\ tickets'[t].body = tickets[t].body
         /\ tickets[t].body.capability \in Capabilities
         /\ tickets[t].body.capabilityVersion \in 1..Current(tickets[t].body.capability)
  BY TicketVersions DEF OnlyCloses
<1>13. StartedWasRedeemed' /\ NoTicketNamesAnOperation'
  BY <1>12 DEF IInv, StartedWasRedeemed, Started, OnlyCloses, NoTicketNamesAnOperation
<1>14. OnlyNativeHandlersRun'
  <2> SUFFICES ASSUME NEW t \in DOMAIN tickets', runs[t].starts > 0
               PROVE  /\ tickets'[t].body.mcp = NoMcp
                      /\ registry'[tickets'[t].body.capability]
                                  [tickets'[t].body.capabilityVersion].mcp = NoMcp
    BY DEF OnlyNativeHandlersRun, Started
  <2>1. /\ tickets[t].body.mcp = NoMcp
        /\ registry[tickets[t].body.capability][tickets[t].body.capabilityVersion].mcp = NoMcp
    BY <1>12 DEF IInv, OnlyNativeHandlersRun, Started
  <2>2. PICK d \in Capabilities, v \in Nat :
          /\ d = tickets[t].body.capability /\ v = tickets[t].body.capabilityVersion
          /\ v \in 1..Current(d)
    BY <1>12
  <2>3. registry'[d][v] = registry[d][v]
    BY <1>11, <2>2
  <2>4. tickets'[t].body = tickets[t].body
    BY <1>12
  <2> QED
    BY <2>1, <2>2, <2>3, <2>4
<1>15. LiveStaleTicketsAreLateGrants'
  <2> SUFFICES ASSUME NEW t \in LiveTickets', Superseded(t)'
               PROVE  LET b == tickets'[t].body
                      IN  t > registry'[b.capability][b.capabilityVersion + 1].from
    BY DEF LiveStaleTicketsAreLateGrants
  <2> DEFINE d == tickets[t].body.capability
             v == tickets[t].body.capabilityVersion
  <2>1. /\ t \in LiveTickets /\ t \in DOMAIN tickets' /\ tickets'[t].status = "issued"
        /\ tickets'[t].body = tickets[t].body
        /\ d \in Capabilities /\ v \in 1..Current(d) /\ v < Current(d)'
    BY <1>12 DEF LiveTickets, Store!Live, OnlyCloses, Superseded, Current
  <2>2. ~(d = c /\ v = Current(c))
    BY <2>1
  <2>3. v < Current(d) /\ v + 1 \in 1..Current(d)
    <3>1. v \in Nat /\ v >= 1 /\ v <= Current(d)
      BY <2>1
    <3>2. v # Current(d)
      BY <1>1, <1>7, <1>8, <2>1, <2>2
    <3>3. Current(d) \in Nat
      BY <2>1, <1>8
    <3> QED
      BY <3>1, <3>2, <3>3
  <2>4. t > registry[d][v + 1].from
    BY <2>1, <2>3 DEF IInv, LiveStaleTicketsAreLateGrants, Superseded
  <2>5. registry'[d][v + 1] = registry[d][v + 1]
    BY <1>11, <2>1, <2>3
  <2> QED
    BY <2>1, <2>4, <2>5
<1>16. TypeOK'
  <2>1. \A d \in Capabilities : \A v \in 1..Len(registry'[d]) :
          v <= MaxVersion /\ registry'[d][v] \in [mcp : Mcp, from : 0..issued]
    BY <1>1, <1>2, <1>3, <1>4, <1>5, RuntimeAssumption DEF IInv, TypeOK, Current
  <2> QED
    BY <2>1, <1>9 DEF IInv, TypeOK, Current
<1>17. Shapes'
  BY <1>6, <1>9 DEF Shapes, AuthInv
<1> QED
  BY <1>9, <1>10, <1>13, <1>14, <1>15, <1>16, <1>17 DEF IInv, AuthInv, TicketInv

LEMMA RegisterCapabilityKeeps ==
  ASSUME IInv, NEW c \in Capabilities, NEW m \in Mcp, RegisterCapability(c, m)
  PROVE  IInv'
<1>1. /\ registry[c] = << >> /\ registry' = [registry EXCEPT ![c] = <<Definition(m)>>]
      /\ UNCHANGED <<now, storeVars>> /\ UNCHANGED <<auths, challenges, consent, runs>>
  BY DEF RegisterCapability
<1>2. registry' = [registry EXCEPT ![c] = Append(@, Definition(m))]
  BY <1>1 DEF IInv, Shapes
<1>3. Current(c) = 0 /\ Current(c) < MaxVersion
  BY <1>1, RuntimeAssumption DEF Current
<1>4. \A i \in DOMAIN tickets : ~(/\ tickets[i].body.capability = c
                                  /\ tickets[i].body.capabilityVersion = Current(c))
  BY <1>3, TicketVersions
<1>5. OnlyCloses /\ Store!TypeOK' /\ UNCHANGED <<now, issued>>
  BY <1>1, StoreUntouched
<1>6. \A i \in DOMAIN tickets' :
        tickets'[i].body.capability = c /\ tickets'[i].body.capabilityVersion = Current(c)
          => tickets'[i].status # "issued"
  BY <1>4, <1>5 DEF OnlyCloses
<1> QED
  BY <1>1, <1>2, <1>3, <1>5, <1>6, NewVersionKeeps

LEMMA ReplaceCapabilityKeeps ==
  ASSUME IInv, NEW c \in Capabilities, NEW m \in Mcp, ReplaceCapability(c, m)
  PROVE  IInv'
<1>1. /\ Current(c) < MaxVersion
      /\ registry' = [registry EXCEPT ![c] = Append(@, Definition(m))]
      /\ Store!Cancel(Store!BoundTo(c, Current(c)))
      /\ UNCHANGED <<auths, challenges, consent, runs>>
  BY DEF ReplaceCapability, Store!InvalidateForCapabilityVersion
<1>2. /\ OnlyCloses /\ UNCHANGED <<now, issued>> /\ Store!TypeOK'
      /\ \A i \in Store!BoundTo(c, Current(c)) \cap DOMAIN tickets' : tickets'[i].status # "issued"
  BY <1>1, BasicTypes, CancelEffect
<1>3. \A i \in DOMAIN tickets' :
        tickets'[i].body.capability = c /\ tickets'[i].body.capabilityVersion = Current(c)
          => i \in Store!BoundTo(c, Current(c))
  BY <1>2 DEF OnlyCloses, Store!BoundTo
<1> QED
  BY <1>1, <1>2, <1>3, NewVersionKeeps

-----------------------------------------------------------------------------
(* A new request, its challenge registered after the purge.                *)
LEMMA NewRequest ==
  ASSUME IInv, NEW rec \in Authorization, UNCHANGED <<now, registry>>,
         auths' = Append(auths, rec), Len(auths) + 1 <= MaxAuths,
         rec.version <= Current(rec.capability),
         rec.stage = "asking" => rec.strategy \in HostProviders \cup {"user_confirmation"},
         rec.expiresAt = now + ChallengeTtl,
         challenges' = WithChallenge(Len(auths) + 1)
  PROVE  /\ AuthInv' /\ AuthsKept
         /\ DOMAIN auths' = 1..(Len(auths) + 1)
         /\ auths'[Len(auths) + 1] = rec
         /\ DOMAIN challenges' \subseteq DOMAIN auths'
         /\ \A x \in DOMAIN challenges' :
              challenges'[x] \in [expiresAt : Time, redeemed : BOOLEAN]
<1>1. auths \in Seq(Authorization) /\ Len(auths) \in Nat /\ DOMAIN auths = 1..Len(auths)
  BY DEF IInv, Shapes
<1>2. PICK n \in Nat : n = Len(auths) + 1
  BY <1>1
<1>3. /\ auths' \in Seq(Authorization) /\ Len(auths') = n /\ DOMAIN auths' = 1..n
      /\ auths'[n] = rec
      /\ \A x \in DOMAIN auths : x \in DOMAIN auths' /\ x # n /\ auths'[x] = auths[x]
      /\ \A x \in DOMAIN auths' : x # n => x \in DOMAIN auths
  BY <1>1, <1>2
<1>4. AuthsKept
  BY <1>3 DEF AuthsKept
<1>5. /\ now \in Nat /\ now <= MaxTime
  BY BasicTypes DEF Store!TypeOK
<1>6. /\ DOMAIN challenges' = Unexpired \cup {n}
      /\ challenges'[n] = [expiresAt |-> now + ChallengeTtl, redeemed |-> FALSE]
      /\ \A x \in Unexpired : x # n => challenges'[x] = challenges[x]
  BY <1>2 DEF WithChallenge
<1>7. VersionsExist'
  <2> SUFFICES ASSUME NEW x \in DOMAIN auths'
               PROVE  auths'[x].version <= Len(registry[auths'[x].capability])
    BY DEF VersionsExist, Current
  <2>2. CASE x = n
    BY <1>3, <2>2 DEF Current
  <2>3. CASE x # n
    BY <1>3, <2>3 DEF IInv, VersionsExist, Current
  <2> QED
    BY <2>2, <2>3
<1>8. AskedOfHosts'
  BY <1>3 DEF IInv, AskedOfHosts
<1>9. PendingAgrees'
  <2> SUFFICES ASSUME NEW x \in DOMAIN auths', Live(x)'
               PROVE  /\ x \in DOMAIN challenges' /\ ~challenges'[x].redeemed
                      /\ challenges'[x].expiresAt = auths'[x].expiresAt
    BY DEF PendingAgrees
  <2>1. CASE x = n
    BY <1>3, <1>6, <2>1
  <2>2. CASE x # n
    <3>1. x \in DOMAIN auths /\ auths'[x] = auths[x] /\ Live(x)
      BY <1>3, <2>2 DEF Live, Pending
    <3>2. /\ x \in DOMAIN challenges /\ ~challenges[x].redeemed
          /\ challenges[x].expiresAt = auths[x].expiresAt
      BY <3>1 DEF IInv, PendingAgrees
    <3>3. x \in Unexpired
      BY <3>1, <3>2 DEF Unexpired, Live
    <3> QED
      BY <1>6, <2>2, <3>1, <3>2, <3>3
  <2> QED
    BY <2>1, <2>2
<1>10. DOMAIN challenges' \subseteq DOMAIN auths'
  BY <1>2, <1>3, <1>6 DEF Unexpired, IInv, TypeOK
<1>11. \A x \in DOMAIN challenges' :
         challenges'[x] \in [expiresAt : Time, redeemed : BOOLEAN]
  <2>1. now + ChallengeTtl \in Time
    BY <1>5, RuntimeAssumption DEF Time
  <2>2. \A x \in Unexpired : challenges[x] \in [expiresAt : Time, redeemed : BOOLEAN]
    BY DEF Unexpired, IInv, TypeOK
  <2>3. [expiresAt |-> now + ChallengeTtl, redeemed |-> FALSE]
          \in [expiresAt : Time, redeemed : BOOLEAN]
    BY <2>1
  <2>4. challenges'[n] \in [expiresAt : Time, redeemed : BOOLEAN]
    BY <1>6, <2>3
  <2> QED
    BY <1>6, <2>2, <2>4
<1> QED
  BY <1>2, <1>3, <1>4, <1>7, <1>8, <1>9, <1>10, <1>11 DEF AuthInv

LEMMA AuthorizeKeeps ==
  ASSUME IInv, NEW c \in Capabilities, NEW m \in Mcp, NEW s \in Strategies, NEW x \in Inputs,
         Authorize(c, m, s, x)
  PROVE  IInv'
<1> DEFINE rec(stage) == [stage |-> stage, capability |-> c, version |-> Current(c), mcp |-> m,
                          strategy |-> s, shown |-> x, input |-> x,
                          expiresAt |-> now + ChallengeTtl]
<1>1. PICK a \in Nat :
        /\ a = Len(auths) + 1 /\ a <= MaxAuths /\ registry[c] # << >>
        /\ challenges' = WithChallenge(a)
        /\ \/ /\ s \in HostProviders \/ s = "user_confirmation"
              /\ auths' = Append(auths, rec("asking"))
              /\ UNCHANGED <<now, storeVars>>
           \/ /\ s = "automatic" /\ s \notin HostProviders
              /\ auths' = Append(auths, rec("granted"))
              /\ FinalizeAuthorization(rec("granted"), a)
           \/ /\ s \in Interactive \ HostProviders
              /\ auths' = Append(auths, rec("pending"))
              /\ UNCHANGED <<now, storeVars>>
        /\ UNCHANGED <<registry, consent, runs>>
  BY DEF Authorize, IInv, Shapes
<1>2. /\ now \in Nat /\ now <= MaxTime /\ issued \in Nat /\ Store!TypeOK
  BY BasicTypes DEF Store!TypeOK
<1>3. Current(c) \in 1..MaxVersion
  <2>1. Len(registry[c]) \in Nat /\ Len(registry[c]) # 0
    BY <1>1 DEF IInv, Shapes
  <2>2. Current(c) \in 1..Current(c)
    BY <2>1 DEF Current
  <2> QED
    BY <2>2 DEF IInv, TypeOK
<1>4. \A stage \in {"asking", "pending", "granted"} : rec(stage) \in Authorization
  BY <1>2, <1>3, RuntimeAssumption DEF Authorization, Time
<1>5. \A stage : /\ rec(stage).stage = stage /\ rec(stage).capability = c
                 /\ rec(stage).version = Current(c) /\ rec(stage).mcp = m
                 /\ rec(stage).strategy = s /\ rec(stage).input = x
                 /\ rec(stage).expiresAt = now + ChallengeTtl
  OBVIOUS
<1>6. Current(c) \in Nat /\ Current(c) <= Current(c)
  BY <1>3
<1>7. a \in Auths /\ a \notin DOMAIN auths /\ 1 <= a
  BY <1>1 DEF Auths, IInv, Shapes
<1> HIDE DEF rec
<1>8. consent' \subseteq DOMAIN auths /\ consent \subseteq consent'
      /\ runs' \in [TicketIds -> RunRecords]
  BY <1>1 DEF IInv, TypeOK
<1>9. ASSUME NEW stage \in {"asking", "pending"}, UNCHANGED <<now, storeVars>>,
             auths' = Append(auths, rec(stage)),
             stage = "asking" => s \in HostProviders \cup {"user_confirmation"}
      PROVE  IInv'
  <2>1. /\ AuthInv' /\ AuthsKept /\ DOMAIN auths' = 1..(Len(auths) + 1)
        /\ DOMAIN challenges' \subseteq DOMAIN auths'
        /\ \A y \in DOMAIN challenges' :
             challenges'[y] \in [expiresAt : Time, redeemed : BOOLEAN]
    BY <1>1, <1>4, <1>5, <1>6, <1>9, NewRequest
  <2>2. OnlyCloses /\ Store!TypeOK' /\ UNCHANGED <<now, issued>>
    BY <1>9, StoreUntouched
  <2>3. TicketInv'
    BY <1>8, <2>1, <2>2, ClosingKeepsTickets DEF IInv, TicketInv
  <2>4. RunInv'
    BY <1>1, <1>2, <2>2, RunsUntouched, ClosingKeepsRuns DEF IInv, RunInv
  <2>5. consent' \subseteq DOMAIN auths' /\ issued' >= issued
    BY <1>2, <1>8, <2>1, <2>2 DEF AuthsKept
  <2>6. TypeOK' /\ Shapes'
    BY <1>1, <1>8, <2>1, <2>2, <2>5, TypesKept
  <2> QED
    BY <2>1, <2>3, <2>4, <2>6 DEF IInv, AuthInv, TicketInv, RunInv
<1>10. ASSUME s = "automatic", auths' = Append(auths, rec("granted")),
              FinalizeAuthorization(rec("granted"), a)
       PROVE  IInv'
  <2>1. UNCHANGED now
    BY <1>10 DEF FinalizeAuthorization, Store!Issue
  <2>2. /\ AuthInv' /\ AuthsKept /\ DOMAIN auths' = 1..(Len(auths) + 1)
        /\ auths'[Len(auths) + 1] = rec("granted")
        /\ DOMAIN challenges' \subseteq DOMAIN auths'
        /\ \A y \in DOMAIN challenges' :
             challenges'[y] \in [expiresAt : Time, redeemed : BOOLEAN]
    BY <1>1, <1>4, <1>5, <1>6, <1>10, <2>1, NewRequest
  <2>3. \A t \in DOMAIN tickets : ChallengeOf(t) # a
    BY <1>7 DEF IInv, TicketsStandForGrants
  <2>4. s \notin Interactive /\ s \notin DeviceStrategies
    BY <1>10 DEF Interactive, DeviceStrategies
  <2>5. /\ a \in DOMAIN auths' /\ auths'[a] = rec("granted")
        /\ now + ChallengeTtl \in Nat
    BY <1>1, <1>2, <1>7, <2>2, RuntimeAssumption
  <2>6. Store!TypeOK' /\ TicketInv' /\ RunInv' /\ issued' = issued + 1
    BY <1>1, <1>3, <1>5, <1>6, <1>7, <1>10, <2>2, <2>3, <2>4, <2>5, GrantKeeps
  <2>7. consent' \subseteq DOMAIN auths' /\ issued' >= issued
    BY <1>2, <1>8, <2>2, <2>6 DEF AuthsKept
  <2>8. TypeOK' /\ Shapes'
    BY <1>1, <1>8, <2>2, <2>6, <2>7, TypesKept
  <2> QED
    BY <2>2, <2>6, <2>8 DEF IInv, AuthInv, TicketInv, RunInv
<1> QED
  BY <1>1, <1>9, <1>10

-----------------------------------------------------------------------------
LEMMA InitInvariant == Init => IInv
<1> SUFFICES ASSUME Init PROVE IInv
  OBVIOUS
<1>1. /\ now = 0 /\ DOMAIN tickets = {} /\ issued = 0
      /\ uses = [i \in Store!Ids |-> 0] /\ revoked = {}
      /\ registry = [c \in Capabilities |-> << >>]
      /\ auths = << >> /\ DOMAIN challenges = {} /\ consent = {}
      /\ runs = [t \in TicketIds |-> NoRun]
  BY DEF Init, Store!Init
<1>2. Store!TypeOK
  BY <1>1, RuntimeAssumption DEF Store!TypeOK, MaxIssued
<1>3. Shapes
  <2>1. << >> \in Seq([mcp : Mcp, from : Nat])
    OBVIOUS
  <2>2. << >> \in Seq(Authorization)
    OBVIOUS
  <2> QED
    BY <1>1, <2>1, <2>2 DEF Shapes
<1>4. /\ DOMAIN auths = {} /\ Len(auths) = 0
      /\ \A c \in Capabilities : Current(c) = 0
  BY <1>1 DEF Current
<1>5. TypeOK
  BY <1>1, <1>2, <1>4, RuntimeAssumption DEF TypeOK, NoRun, RunRecords
<1>6. VersionsExist /\ AskedOfHosts /\ PendingAgrees
  BY <1>4 DEF VersionsExist, AskedOfHosts, PendingAgrees
<1>7. TicketsStandForGrants /\ OneTicketPerGrant /\ FreshTickets
  BY <1>1 DEF TicketsStandForGrants, OneTicketPerGrant, FreshTickets
<1>8. StartedWasRedeemed /\ NoTicketNamesAnOperation
  BY <1>1 DEF StartedWasRedeemed, Started, NoRun, NoTicketNamesAnOperation
<1>9. DeviceConsentNeeded /\ OnlyNativeHandlersRun /\ LiveStaleTicketsAreLateGrants
  BY <1>1 DEF DeviceConsentNeeded, OnlyNativeHandlersRun, LiveStaleTicketsAreLateGrants, LiveTickets
<1> QED
  BY <1>3, <1>5, <1>6, <1>7, <1>8, <1>9 DEF IInv

LEMMA StutterKeeps == IInv /\ UNCHANGED vars => IInv'
<1> SUFFICES ASSUME IInv, UNCHANGED vars PROVE IInv'
  OBVIOUS
<1>1. UNCHANGED <<now, storeVars>> /\ UNCHANGED <<registry, auths, challenges, consent, runs>>
  BY DEF vars
<1>2. consent \subseteq consent' /\ consent' \subseteq DOMAIN auths
  BY <1>1 DEF IInv, TypeOK
<1> QED
  BY <1>1, <1>2, StoreUntouched, RunsUntouched, ClosingKeeps

LEMMA StepInvariant == IInv /\ [Next]_vars => IInv'
<1> SUFFICES ASSUME IInv, [Next]_vars PROVE IInv'
  OBVIOUS
<1>1. ASSUME NEW c \in Capabilities, NEW m \in Mcp,
             RegisterCapability(c, m) \/ ReplaceCapability(c, m)
      PROVE  IInv'
  BY <1>1, RegisterCapabilityKeeps, ReplaceCapabilityKeeps
<1>2. ASSUME NEW c \in Capabilities, InvalidateTicketsForCapability(c) PROVE IInv'
  BY <1>2, InvalidateKeeps DEF InvalidateTicketsForCapability, Store!InvalidateWhere
<1>3. ASSUME NEW m \in McpBindings, InvalidateMcpServerTickets(m) PROVE IInv'
  BY <1>3, InvalidateKeeps DEF InvalidateMcpServerTickets, Store!InvalidateWhere
<1>4. ASSUME NEW c \in Capabilities, NEW m \in Mcp, NEW s \in Strategies, NEW x \in Inputs,
             Authorize(c, m, s, x)
      PROVE  IInv'
  BY <1>4, AuthorizeKeeps
<1>5. ASSUME NEW a \in DOMAIN auths, NEW granted \in BOOLEAN, ApprovalAnswered(a, granted)
      PROVE  IInv'
  BY <1>5, ApprovalAnsweredKeeps
<1>6. ASSUME NEW a \in DOMAIN auths, NEW x \in Inputs, CallerEditsCommand(a, x) PROVE IInv'
  BY <1>6, CallerEditsCommandKeeps
<1>7. ASSUME NEW a \in DOMAIN auths, DeviceConsents(a) \/ SubmitExpired(a) \/ SubmitHostProof(a)
      PROVE  IInv'
  BY <1>7, DeviceConsentsKeeps, SubmitExpiredKeeps, SubmitHostProofKeeps
<1>8. ASSUME NEW a \in DOMAIN auths, NEW p \in Approvals, SubmitDeviceApproval(a, p) PROVE IInv'
  BY <1>8, SubmitDeviceApprovalKeeps
<1>9. ASSUME NEW t \in TicketIds, NEW sandboxReady \in BOOLEAN, Execute(t, sandboxReady)
      PROVE  IInv'
  BY <1>9, ExecuteKeeps
<1>10. ASSUME NEW t \in TicketIds, NEW ok \in BOOLEAN, HandlerSettles(t, ok) PROVE IInv'
  <2>1. ok = TRUE \/ ok = FALSE
    OBVIOUS
  <2> QED
    BY <1>10, <2>1, ReportKeeps
<1>11. ASSUME NEW t \in TicketIds, ExecuteTimesOut(t) PROVE IInv'
  BY <1>11, ReportKeeps
<1>12. CASE Tick
  BY <1>12, TickKeeps
<1>13. CASE UNCHANGED vars
  BY <1>13, StutterKeeps
<1> QED
  BY <1>1, <1>2, <1>3, <1>4, <1>5, <1>6, <1>7, <1>8, <1>9, <1>10, <1>11, <1>12, <1>13 DEF Next

THEOREM Invariance == Spec => []IInv
  BY InitInvariant, StepInvariant, PTL DEF Spec

-----------------------------------------------------------------------------
(* The runtime keeps its types (security/src/index.ts:232-1215).           *)
THEOREM TypeCorrect == Spec => []TypeOK
<1>1. IInv => TypeOK
  BY DEF IInv
<1> QED
  BY <1>1, Invariance, PTL

(* One approval starts at most one run: submitApproval() (:952-1095) and   *)
(* execute() (:1097-1215), however they are repeated and interleaved.      *)
THEOREM OneRun == Spec => []OneRunPerAuthorization
<1>1. IInv => OneRunPerAuthorization
  <2>1. IInv => DOMAIN tickets \subseteq TicketIds
    BY RuntimeAssumption DEF IInv, TypeOK, Store!TypeOK, TicketIds, MaxIssued
  <2> QED
    BY <2>1 DEF IInv, OneTicketPerGrant, StartedWasRedeemed, OneRunPerAuthorization
<1> QED
  BY <1>1, Invariance, PTL

(* Where a device must approve, no ticket is issued without the signature  *)
(* of a known device's holder over that very challenge.                    *)
THEOREM DeviceConsent == Spec => []DeviceConsentNeeded
<1>1. IInv => DeviceConsentNeeded
  BY DEF IInv
<1> QED
  BY <1>1, Invariance, PTL

(* The pending table and the challenge registry agree, whatever is purged  *)
(* in between (approval/src/challenge.ts, security/src/index.ts:952).      *)
THEOREM TablesAgree == Spec => []PendingHasLiveChallenge
<1>1. IInv => PendingHasLiveChallenge
  BY DEF IInv, PendingAgrees, PendingHasLiveChallenge
<1> QED
  BY <1>1, Invariance, PTL

(* A run never starts later than its challenge's deadline and one ticket   *)
(* lifetime.                                                               *)
THEOREM BoundedStaleness == Spec => []FreshAuthorization
<1>1. IInv => FreshAuthorization
  <2> SUFFICES ASSUME IInv, NEW t \in DOMAIN tickets, Started(t),
                      AuthOf(t).strategy \in Interactive \ HostProviders
               PROVE  runs[t].at <= AuthOf(t).expiresAt + TicketTtl
    BY DEF FreshAuthorization
  <2>1. t \in TicketIds /\ tickets[t].body.expiresAt \in Nat
    <3>1. /\ t \in 1..issued /\ issued \in 0..MaxIssued
          /\ tickets[t] \in Store!Entries
      BY DEF IInv, TypeOK, Store!TypeOK
    <3>2. t \in TicketIds
      BY <3>1, RuntimeAssumption DEF TicketIds, MaxIssued
    <3>3. tickets[t].body.expiresAt \in Nat
      BY <3>1, RuntimeAssumption DEF Store!Entries, Store!Bodies, Store!Time
    <3> QED
      BY <3>2, <3>3
  <2>2. runs[t].at <= tickets[t].body.expiresAt /\ runs[t].at \in Nat
    BY <2>1, RuntimeAssumption DEF IInv, StartedWasRedeemed, TypeOK, RunRecords
  <2>3. tickets[t].body.expiresAt <= AuthOf(t).expiresAt + TicketTtl
    BY DEF IInv, FreshTickets
  <2>4. AuthOf(t).expiresAt \in Nat
    BY AuthTypes DEF IInv, TicketsStandForGrants, AuthOf
  <2> QED
    BY <2>1, <2>2, <2>3, <2>4, RuntimeAssumption
<1> QED
  BY <1>1, Invariance, PTL

(* Only native handlers run, for tickets that name no MCP operation:       *)
(* issue() binds none (core/src/ticket-store.ts:143-158), so execute()     *)
(* refuses whatever was registered for a server (security/src/index.ts:633).*)
THEOREM RunsAreBound == Spec => []OnlyNativeHandlersRun
<1>1. IInv => OnlyNativeHandlersRun
  BY DEF IInv
<1> QED
  BY <1>1, Invariance, PTL

(* A live ticket of a replaced version is always a late grant.             *)
THEOREM ReplacementCancels == Spec => []LiveStaleTicketsAreLateGrants
<1>1. IInv => LiveStaleTicketsAreLateGrants
  BY DEF IInv
<1> QED
  BY <1>1, Invariance, PTL

-----------------------------------------------------------------------------
(* The runtime uses the store as TicketStore specifies it: what holds of   *)
(* every user of the store holds of this one.                              *)

LEMMA UntouchedRefines ==
  ASSUME UNCHANGED <<now, storeVars>>
  PROVE  [Store!Next]_(Store!vars)
  BY DEF storeVars, Store!vars

(* A ticket is issued over values the store knows.                         *)
LEMMA GrantRefines ==
  ASSUME IInv, NEW a \in Auths, NEW r, r.capability \in Capabilities,
         r.version \in 1..MaxVersion, r.mcp \in Mcp, r.input \in Inputs,
         FinalizeAuthorization(r, a)
  PROVE  [Store!Next]_(Store!vars)
<1> DEFINE b == [capability |-> r.capability, capabilityVersion |-> r.version,
                 mcp |-> r.mcp, payload |-> [input |-> r.input, challenge |-> a]]
<1>1. b \in Store!Bindings /\ Store!Issue(b)
  BY DEF FinalizeAuthorization, Store!Bindings, Store!Mcp, Mcp
<1> HIDE DEF b
<1> QED
  BY <1>1 DEF Store!Next

(* The record of an authorization has such values.                         *)
LEMMA RecordedGrantRefines ==
  ASSUME IInv, NEW a \in DOMAIN auths, FinalizeAuthorization(auths[a], a)
  PROVE  [Store!Next]_(Store!vars)
<1>1. a \in Auths /\ auths[a] \in Authorization
  BY AuthTypes
<1>2. /\ auths[a].capability \in Capabilities /\ auths[a].version \in 1..MaxVersion
      /\ auths[a].mcp \in Mcp /\ auths[a].input \in Inputs
  BY <1>1 DEF Authorization
<1> QED
  BY <1>1, <1>2, GrantRefines

LEMMA CancelRefines ==
  ASSUME IInv, NEW S, S \subseteq DOMAIN tickets, Store!Cancel(S)
  PROVE  [Store!Next]_(Store!vars)
<1>1. DOMAIN tickets \subseteq Store!Ids
  BY RuntimeAssumption DEF IInv, TypeOK, Store!TypeOK, Store!Ids, MaxIssued
<1>2. S \in SUBSET Store!Ids /\ Store!InvalidateWhere(S)
  BY <1>1 DEF Store!InvalidateWhere
<1> QED
  BY <1>2 DEF Store!Next

LEMMA ReplacementRefines ==
  ASSUME IInv, NEW c \in Capabilities, NEW m, ReplaceCapability(c, m)
  PROVE  [Store!Next]_(Store!vars)
<1>1. /\ registry[c] # << >> /\ Current(c) < MaxVersion
      /\ Store!InvalidateForCapabilityVersion(c, Current(c))
  BY DEF ReplaceCapability
<1>2. Current(c) \in 1..MaxVersion
  <2>1. registry[c] \in Seq([mcp : Mcp, from : Nat])
    BY DEF IInv, Shapes
  <2>2. Len(registry[c]) \in Nat /\ Len(registry[c]) # 0
    BY <1>1, <2>1
  <2> QED
    BY <1>1, <2>2, RuntimeAssumption DEF Current
<1> QED
  BY <1>1, <1>2 DEF Store!Next

LEMMA AuthorizeRefines ==
  ASSUME IInv, NEW c \in Capabilities, NEW m \in Mcp, NEW s \in Strategies, NEW x \in Inputs,
         Authorize(c, m, s, x)
  PROVE  [Store!Next]_(Store!vars)
<1> DEFINE a == Len(auths) + 1
           r == [stage |-> "granted", capability |-> c, version |-> Current(c), mcp |-> m,
                 strategy |-> s, shown |-> x, input |-> x, expiresAt |-> now + ChallengeTtl]
<1>1. /\ a <= MaxAuths /\ registry[c] # << >>
      /\ UNCHANGED <<now, storeVars>> \/ FinalizeAuthorization(r, a)
  BY DEF Authorize
<1>2. CASE FinalizeAuthorization(r, a)
  <2>1. a \in Auths
    BY <1>1, RuntimeAssumption DEF IInv, Shapes, Auths
  <2>2. Current(c) \in 1..MaxVersion
    <3>1. registry[c] \in Seq([mcp : Mcp, from : Nat])
      BY DEF IInv, Shapes
    <3>2. Current(c) \in Nat /\ Current(c) # 0
      BY <1>1, <3>1 DEF Current
    <3>3. \A v \in 1..Current(c) : v <= MaxVersion
      BY DEF IInv, TypeOK
    <3> QED
      BY <3>2, <3>3, RuntimeAssumption
  <2>3. r.capability = c /\ r.version = Current(c) /\ r.mcp = m /\ r.input = x
    OBVIOUS
  <2> HIDE DEF r, a
  <2> QED
    BY <1>2, <2>1, <2>2, <2>3, GrantRefines
<1> QED
  BY <1>1, <1>2, UntouchedRefines

(* execute() redeems for the definition the registry has of the ticket's   *)
(* version.                                                                *)
LEMMA ExecuteRefines ==
  ASSUME IInv, NEW t \in TicketIds, NEW sandboxReady \in BOOLEAN, Execute(t, sandboxReady)
  PROVE  [Store!Next]_(Store!vars)
<1> DEFINE b == tickets[t].body
           definition == registry[b.capability][b.capabilityVersion]
           ctx == [capability |-> b.capability, capabilityVersion |-> b.capabilityVersion,
                   mcp |-> definition.mcp]
<1>1. t \in DOMAIN tickets /\ Store!Redeem(t, ctx)
  BY DEF Execute
<1>2. b.capability \in Capabilities /\ b.capabilityVersion \in 1..Current(b.capability)
  BY <1>1, TicketVersions
<1>3. b.capabilityVersion \in 1..MaxVersion /\ definition.mcp \in Mcp
  <2>1. /\ b.capabilityVersion <= MaxVersion
        /\ definition \in [mcp : Mcp, from : 0..issued]
    BY <1>2 DEF IInv, TypeOK
  <2> QED
    BY <1>2, <2>1, RuntimeAssumption
<1>4. ctx \in Store!Contexts
  BY <1>2, <1>3 DEF Store!Contexts, Store!Mcp, Mcp
<1>5. t \in Store!Ids
  BY DEF Store!Ids, TicketIds
<1> HIDE DEF ctx
<1> QED
  BY <1>1, <1>4, <1>5 DEF Store!Next

LEMMA StepUsesStore == IInv /\ [Next]_vars => [Store!Next]_(Store!vars)
<1> SUFFICES ASSUME IInv, [Next]_vars PROVE [Store!Next]_(Store!vars)
  OBVIOUS
<1>1. ASSUME NEW c \in Capabilities, NEW m \in Mcp,
             RegisterCapability(c, m) \/ ReplaceCapability(c, m)
      PROVE  [Store!Next]_(Store!vars)
  <2>1. CASE RegisterCapability(c, m)
    BY <2>1, UntouchedRefines DEF RegisterCapability
  <2> QED
    BY <1>1, <2>1, ReplacementRefines
<1>2. ASSUME NEW c \in Capabilities, InvalidateTicketsForCapability(c)
      PROVE  [Store!Next]_(Store!vars)
  <2> DEFINE S == {t \in DOMAIN tickets : tickets[t].body.capability = c}
  <2>1. S \subseteq DOMAIN tickets /\ Store!Cancel(S)
    BY <1>2 DEF InvalidateTicketsForCapability, Store!InvalidateWhere
  <2> HIDE DEF S
  <2> QED
    BY <2>1, CancelRefines
<1>3. ASSUME NEW m \in McpBindings, InvalidateMcpServerTickets(m)
      PROVE  [Store!Next]_(Store!vars)
  <2> DEFINE S == {t \in DOMAIN tickets : tickets[t].body.mcp = m}
  <2>1. S \subseteq DOMAIN tickets /\ Store!Cancel(S)
    BY <1>3 DEF InvalidateMcpServerTickets, Store!InvalidateWhere
  <2> HIDE DEF S
  <2> QED
    BY <2>1, CancelRefines
<1>4. ASSUME NEW c \in Capabilities, NEW m \in Mcp, NEW s \in Strategies, NEW x \in Inputs,
             Authorize(c, m, s, x)
      PROVE  [Store!Next]_(Store!vars)
  BY <1>4, AuthorizeRefines
<1>5. ASSUME NEW a \in DOMAIN auths, NEW granted \in BOOLEAN, ApprovalAnswered(a, granted)
      PROVE  [Store!Next]_(Store!vars)
  BY <1>5, RecordedGrantRefines, UntouchedRefines DEF ApprovalAnswered
<1>6. ASSUME NEW a \in DOMAIN auths, NEW x \in Inputs, CallerEditsCommand(a, x)
      PROVE  [Store!Next]_(Store!vars)
  BY <1>6, UntouchedRefines DEF CallerEditsCommand
<1>7. ASSUME NEW a \in DOMAIN auths, DeviceConsents(a) \/ SubmitExpired(a) \/ SubmitHostProof(a)
      PROVE  [Store!Next]_(Store!vars)
  BY <1>7, RecordedGrantRefines, UntouchedRefines
     DEF DeviceConsents, SubmitExpired, SubmitHostProof
<1>8. ASSUME NEW a \in DOMAIN auths, NEW p \in Approvals, SubmitDeviceApproval(a, p)
      PROVE  [Store!Next]_(Store!vars)
  BY <1>8, RecordedGrantRefines DEF SubmitDeviceApproval
<1>9. ASSUME NEW t \in TicketIds, NEW sandboxReady \in BOOLEAN, Execute(t, sandboxReady)
      PROVE  [Store!Next]_(Store!vars)
  BY <1>9, ExecuteRefines
<1>10. ASSUME NEW t \in TicketIds, NEW ok \in BOOLEAN, HandlerSettles(t, ok) \/ ExecuteTimesOut(t)
       PROVE  [Store!Next]_(Store!vars)
  BY <1>10, UntouchedRefines DEF HandlerSettles, ExecuteTimesOut
<1>11. CASE Tick
  <2>1. Store!Tick
    BY <1>11 DEF Tick, storeVars, Store!Tick
  <2> QED
    BY <2>1 DEF Store!Next
<1>12. CASE UNCHANGED vars
  BY <1>12, UntouchedRefines DEF vars
<1>13. ASSUME NEW t \in TicketIds, ExecuteTimesOut(t) PROVE [Store!Next]_(Store!vars)
  BY <1>10, <1>13
<1> QED
  BY <1>1, <1>2, <1>3, <1>4, <1>5, <1>6, <1>7, <1>8, <1>9, <1>10, <1>11, <1>12, <1>13 DEF Next

(* The runtime implements the specification of the ticket store            *)
(* (security/src/index.ts over core/src/ticket-store.ts): what is proved   *)
(* of every use of the store, single use first, holds inside the runtime.  *)
THEOREM UsesTheStore == Spec => Store!Spec
<1>1. Init => Store!Init
  BY DEF Init
<1>2. []IInv /\ [][Next]_vars => [][Store!Next]_(Store!vars)
  BY StepUsesStore, PTL
<1> QED
  BY <1>1, <1>2, Invariance, PTL DEF Spec, Store!Spec

-----------------------------------------------------------------------------
(* The theorems about the store, at the values the runtime gives it.       *)
Proved == INSTANCE TicketStoreProofs WITH
  Versions <- 1..MaxVersion, Payloads <- [input : Inputs, challenge : Auths],
  TtlMs <- TicketTtl, MaxTickets <- MaxIssued, Held <- {}

LEMMA SameStore ==
  /\ Store!Init <=> Proved!Init
  /\ Store!Next <=> Proved!Next
  /\ Store!vars = Proved!vars
<1>1. \A b : Store!Issue(b) <=> Proved!Issue(b)
  <2>1. \A m, i : Store!Older(m, i) = Proved!Older(m, i)
    BY DEF Store!Older, Proved!Older
  <2>2. \A m : Store!Excess(m) = Proved!Excess(m)
    BY <2>1, Zenon DEF Store!Excess, Proved!Excess, Store!Cardinality, Proved!Cardinality
  <2>3. \A m, S : Store!Without(m, S) = Proved!Without(m, S)
    BY Zenon DEF Store!Without, Proved!Without
  <2>4. \A b : Store!NewEntry(b) = Proved!NewEntry(b)
    BY Zenon DEF Store!NewEntry, Proved!NewEntry
  <2> QED
    BY <2>2, <2>3, <2>4, Zenon DEF Store!Issue, Proved!Issue
<1>2. \A i, ctx : Store!Verdict(i, ctx) = Proved!Verdict(i, ctx)
  BY DEF Store!Verdict, Proved!Verdict, Store!Closed, Proved!Closed, Store!ClosedCode,
     Proved!ClosedCode, Store!Expired, Proved!Expired, Store!Authentic, Proved!Authentic,
     Store!BoundToOperation, Proved!BoundToOperation
<1>3. \A i, ctx : Store!Redeem(i, ctx) <=> Proved!Redeem(i, ctx)
  BY <1>2 DEF Store!Redeem, Proved!Redeem, Store!Without, Proved!Without,
     Store!OneMore, Proved!OneMore
<1>4. \A S : Store!Cancel(S) <=> Proved!Cancel(S)
  BY DEF Store!Cancel, Proved!Cancel, Store!Live, Proved!Live
<1>5. \A i : Store!Mutate(i) <=> Proved!Mutate(i)
  BY DEF Store!Mutate, Proved!Mutate
<1>6. Store!Tick <=> Proved!Tick
  BY DEF Store!Tick, Proved!Tick
<1>7. /\ Store!Bindings = Proved!Bindings /\ Store!Contexts = Proved!Contexts
      /\ Store!Ids = Proved!Ids
  BY DEF Store!Bindings, Proved!Bindings, Store!Contexts, Proved!Contexts, Store!Mcp,
     Proved!Mcp, Store!Ids, Proved!Ids
<1>8. \A c, v : Store!BoundTo(c, v) = Proved!BoundTo(c, v)
  BY DEF Store!BoundTo, Proved!BoundTo
<1>9. Store!Next <=> Proved!Next
  BY <1>1, <1>3, <1>4, <1>5, <1>6, <1>7, <1>8
     DEF Store!Next, Proved!Next, Store!InvalidateForCapabilityVersion,
     Proved!InvalidateForCapabilityVersion, Store!Invalidate, Proved!Invalidate,
     Store!InvalidateWhere, Proved!InvalidateWhere
<1>10. (Store!Init <=> Proved!Init) /\ Store!vars = Proved!vars
  BY DEF Store!Init, Proved!Init, Store!Ids, Proved!Ids, Store!vars, Proved!vars
<1> QED
  BY <1>9, <1>10

LEMMA UsesProvedStore == Spec => Proved!Spec
<1>1. Init => Proved!Init
  BY SameStore DEF Init
<1>2. IInv /\ [Next]_vars => [Proved!Next]_(Proved!vars)
  <2>1. IInv /\ [Next]_vars => [Store!Next]_(Store!vars)
    BY StepUsesStore
  <2>2. Store!Next => Proved!Next
    BY SameStore
  <2>3. Store!vars' = Store!vars => Proved!vars' = Proved!vars
    BY DEF Store!vars, Proved!vars
  <2> QED
    BY <2>1, <2>2, <2>3
<1> QED
  BY <1>1, <1>2, Invariance, PTL DEF Spec, Proved!Spec

LEMMA StoreConstants ==
  /\ TicketTtl \in Nat /\ MaxIssued \in Nat \ {0}
  /\ MaxIssued \in Nat /\ MaxTime \in Nat
  /\ NoMcp \notin McpBindings
  BY RuntimeAssumption DEF MaxIssued

(* No ticket of the runtime is redeemed twice, and one that an             *)
(* invalidation counted is never redeemed: security/src/index.ts inherits  *)
(* what core/src/ticket-store.ts promises.                                 *)
THEOREM RuntimeRedeemsOnce == Spec => [](Store!AtMostOnce /\ Store!RevokedNeverRedeemed)
<1>1. Proved!Spec => []Proved!AtMostOnce
  BY StoreConstants, Proved!SingleUse
<1>2. Proved!Spec => []Proved!RevokedNeverRedeemed
  BY StoreConstants, Proved!RevocationIsFinal
<1>3. Proved!AtMostOnce /\ Proved!RevokedNeverRedeemed
        => Store!AtMostOnce /\ Store!RevokedNeverRedeemed
  BY DEF Store!AtMostOnce, Proved!AtMostOnce, Store!Ids, Proved!Ids, Store!Own, Proved!Own,
     Store!RevokedNeverRedeemed, Proved!RevokedNeverRedeemed
<1> QED
  BY <1>1, <1>2, <1>3, UsesProvedStore, PTL

(* And each is a single-use grant from its issue to its end.               *)
THEOREM RuntimeGrantsOnce == Spec => Proved!ImplementsSingleUse
<1>1. Proved!Spec => Proved!ImplementsSingleUse
  BY StoreConstants, Proved!StoreImplementsSingleUse
<1> QED
  BY <1>1, UsesProvedStore, PTL
=============================================================================
