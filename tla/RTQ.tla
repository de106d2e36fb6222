-------------------------------- MODULE RTQ ---------------------------------
(***************************************************************************)
(* packages/security/src/index.ts: the runtime that takes a command from   *)
(* authorize() through approval to a ticket, and a ticket to one run of    *)
(* the capability's handler.  It composes the capability registry          *)
(* (core/src/capability-registry.ts), the challenge registry               *)
(* (approval/src/challenge.ts) and the ticket store (module TicketStore).  *)
(*                                                                         *)
(* JavaScript runs each stretch of code between two awaits to completion:  *)
(* that stretch is one action, and it reads the clock once.  Calls         *)
(* interleave wherever the code awaits: a host provider, the user's        *)
(* prompt, the handler itself, and between authorize(), submitApproval()   *)
(* and execute().  A call that is refused without changing any state is a  *)
(* stuttering step and is not written as an action.                        *)
(***************************************************************************)
EXTENDS Naturals, Sequences, FiniteSets

CONSTANTS
  Capabilities, McpBindings, NoMcp, Inputs,
  Strategies,       \* approval strategies policy and risk may select
  HostProviders,    \* strategies with a host-registered ApprovalProvider
  PromptConfigured, \* whether onUserConfirmation was given
  ChallengeTtl, TicketTtl, ExecuteTimeout,
  MaxVersion,       \* bound: versions of one capability
  MaxAuths,         \* bound: authorize() calls that reach a challenge
  LastCall,         \* bound: no call is made after this time
  MaxTime           \* bound: last value of the clock

ASSUME RuntimeAssumption ==
  /\ ChallengeTtl \in Nat /\ TicketTtl \in Nat /\ ExecuteTimeout \in Nat
  /\ MaxVersion \in Nat \ {0} /\ MaxAuths \in Nat /\ LastCall \in Nat /\ MaxTime \in Nat
  /\ NoMcp \notin McpBindings
  /\ Strategies \subseteq {"automatic", "user_confirmation", "device_verification",
                           "qr", "biometric", "custom"}
  /\ HostProviders \subseteq Strategies
  /\ PromptConfigured \in BOOLEAN
  /\ MaxTime >= LastCall + ExecuteTimeout   \* a timer set by the last call can fire

VARIABLES
  now, tickets, issued, uses, revoked,   \* the ticket store's
  registry,    \* registry[c]: its versions in order; the last one is current
  auths,       \* the authorize() calls that made a challenge, in order
  challenges,  \* ChallengeRegistry: challenge -> [expiresAt, redeemed]
  consent,     \* history: challenges a registered device's holder signed as granted
  runs         \* runs[t]: the handler started for ticket t and what was reported

storeVars == <<tickets, issued, uses, revoked>>
vars == <<now, storeVars, registry, auths, challenges, consent, runs>>

Auths == 1..MaxAuths
MaxIssued == MaxAuths + 1      \* room for one ticket too many
TicketIds == 1..MaxIssued
Mcp == McpBindings \cup {NoMcp}
Time == 0..(MaxTime + ChallengeTtl)
Interactive == {"device_verification", "qr", "biometric", "custom"}
DeviceStrategies == {"device_verification", "qr"}

(* The store as RTQ constructs it: its default limit of 1000 tickets is    *)
(* out of reach here, and RTQ hands out ids, never the ticket object.      *)
Store == INSTANCE TicketStore WITH
  Versions <- 1..MaxVersion, Payloads <- [input : Inputs, challenge : Auths],
  TtlMs <- TicketTtl, MaxTickets <- MaxIssued, Held <- {}

(* One authorize() call: what it asked for, the input its challenge hashed *)
(* ("shown") and the caller's command object, which stays the caller's.    *)
Authorization ==
  [stage : {"asking", "pending", "granted", "closed"},
   capability : Capabilities, version : 1..MaxVersion, mcp : Mcp,
   strategy : Strategies, shown : Inputs, input : Inputs, expiresAt : Time]

NoRun == [starts |-> 0, handler |-> "none", report |-> "none", at |-> 0]

Init ==
  /\ Store!Init
  /\ registry = [c \in Capabilities |-> << >>]
  /\ auths = << >>
  /\ challenges = [a \in {} |-> {}]
  /\ consent = {}
  /\ runs = [t \in TicketIds |-> NoRun]

Open == now <= LastCall

-----------------------------------------------------------------------------
(* CapabilityRegistry.  A version keeps the number of tickets issued       *)
(* before it became current (history).                                     *)
Current(c) == Len(registry[c])

Definition(m) == [mcp |-> m, from |-> issued]

RegisterCapability(c, m) ==
  /\ Open /\ registry[c] = << >>
  /\ registry' = [registry EXCEPT ![c] = <<Definition(m)>>]
  /\ UNCHANGED <<now, storeVars, auths, challenges, consent, runs>>

(* Mutant: the tickets of the version that comes in are invalidated.       *)
ReplaceCapabilityWrongVersion(c, m) ==
  /\ Open /\ registry[c] # << >> /\ Current(c) < MaxVersion
  /\ registry' = [registry EXCEPT ![c] = Append(@, Definition(m))]
  /\ Store!InvalidateForCapabilityVersion(c, Current(c) + 1)
  /\ UNCHANGED <<auths, challenges, consent, runs>>

(* replace() keeps the old versions reachable through getVersion(); only   *)
(* the tickets of the version just superseded are invalidated.             *)
ReplaceCapability(c, m) ==
  /\ Open /\ registry[c] # << >> /\ Current(c) < MaxVersion
  /\ registry' = [registry EXCEPT ![c] = Append(@, Definition(m))]
  /\ Store!InvalidateForCapabilityVersion(c, Current(c))
  /\ UNCHANGED <<auths, challenges, consent, runs>>

InvalidateTicketsForCapability(c) ==
  /\ Open
  /\ Store!InvalidateWhere({t \in DOMAIN tickets : tickets[t].body.capability = c})
  /\ UNCHANGED <<registry, auths, challenges, consent, runs>>

(* The predicate reads the ticket's MCP bindings, which no ticket has.     *)
InvalidateMcpServerTickets(m) ==
  /\ Open
  /\ Store!InvalidateWhere({t \in DOMAIN tickets : tickets[t].body.mcp = m})
  /\ UNCHANGED <<registry, auths, challenges, consent, runs>>

-----------------------------------------------------------------------------
(* Mutant: the purge takes a challenge in its last valid moment.           *)
PurgedEarly == {a \in DOMAIN challenges : ~(now >= challenges[a].expiresAt)}

(* purgeExpired() keeps these.                                             *)
Unexpired == {a \in DOMAIN challenges : ~(now > challenges[a].expiresAt)}

(* makeChallenge: register() purges the expired challenges first.          *)
WithChallenge(a) ==
  [x \in Unexpired \cup {a} |->
     IF x = a THEN [expiresAt |-> now + ChallengeTtl, redeemed |-> FALSE]
     ELSE challenges[x]]

(* finalizeAuthorization: the ticket binds what the authorization captured *)
(* when it was requested, and the command's input as it is now.  It passes *)
(* the MCP bindings too, and issue() leaves them out.                      *)
FinalizeAuthorization(r, a) ==
  Store!Issue([capability |-> r.capability, capabilityVersion |-> r.version,
               mcp |-> r.mcp, payload |-> [input |-> r.input, challenge |-> a]])

(* authorize(), once the command's version and schema are accepted and     *)
(* risk, clarification and policy have led to an approval strategy.        *)
Authorize(c, m, s, x) ==
  LET a == Len(auths) + 1
      r(stage) == [stage |-> stage, capability |-> c, version |-> Current(c), mcp |-> m,
                   strategy |-> s, shown |-> x, input |-> x,
                   expiresAt |-> now + ChallengeTtl]
  IN
  /\ Open /\ a <= MaxAuths /\ registry[c] # << >>
  /\ challenges' = WithChallenge(a)
  /\ \/ /\ s \in HostProviders \/ (s = "user_confirmation" /\ PromptConfigured)
        /\ auths' = Append(auths, r("asking"))
        /\ UNCHANGED <<now, storeVars>>
     \/ /\ s = "automatic" /\ s \notin HostProviders
        /\ auths' = Append(auths, r("granted"))
        /\ FinalizeAuthorization(r("granted"), a)
     \/ /\ s \in Interactive \ HostProviders
        /\ auths' = Append(auths, r("pending"))
        /\ UNCHANGED <<now, storeVars>>
  /\ UNCHANGED <<registry, consent, runs>>

(* The provider or the prompt answers: nothing is checked again.           *)
ApprovalAnswered(a, granted) ==
  /\ Open /\ auths[a].stage = "asking"
  /\ auths' = [auths EXCEPT ![a].stage = IF granted THEN "granted" ELSE "closed"]
  /\ IF granted THEN FinalizeAuthorization(auths[a], a) ELSE UNCHANGED <<now, storeVars>>
  /\ UNCHANGED <<registry, challenges, consent, runs>>

(* The caller still holds the command it passed to authorize().            *)
CallerEditsCommand(a, x) ==
  /\ auths[a].stage \in {"asking", "pending"} /\ x # auths[a].input
  /\ auths' = [auths EXCEPT ![a].input = x]
  /\ UNCHANGED <<now, storeVars, registry, challenges, consent, runs>>

-----------------------------------------------------------------------------
(* The holder of a device whose key the deviceKeyStore knows reviews a     *)
(* challenge and signs "granted".                                          *)
DeviceConsents(a) ==
  /\ auths[a].stage = "pending" /\ auths[a].strategy \in DeviceStrategies
  /\ consent' = consent \cup {a}
  /\ UNCHANGED <<now, storeVars, registry, auths, challenges, runs>>

(* An approval as it is submitted: whose challenge it names, and whether   *)
(* its decision, its signing time, its key and its signature hold up.      *)
(* Only a consenting holder produces one that is genuine throughout.       *)
Approvals ==
  {p \in [challengeId : Auths, decision : {"granted", "denied"}, predates : BOOLEAN,
          keyKnown : BOOLEAN, signed : BOOLEAN] :
     p.decision = "granted" /\ p.keyKnown /\ p.signed => p.challengeId \in consent}

(* Mutant: the signature is not verified.                                  *)
VerifiedUnsigned(p) ==
  /\ p.challengeId \in DOMAIN challenges
  /\ ~(now > challenges[p.challengeId].expiresAt)
  /\ ~challenges[p.challengeId].redeemed
  /\ p.decision = "granted" /\ ~p.predates /\ p.keyKnown

(* ChallengeRegistry.verifyAndRedeem says ok.                              *)
Verified(p) ==
  /\ p.challengeId \in DOMAIN challenges
  /\ ~(now > challenges[p.challengeId].expiresAt)
  /\ ~challenges[p.challengeId].redeemed
  /\ p.decision = "granted" /\ ~p.predates /\ p.keyKnown /\ p.signed

(* Binding check #2.  The challenge's fields are those of the call that    *)
(* made it, and its nonce is its own.                                      *)
SameBinding(a, b) ==
  /\ auths[a].capability = auths[b].capability /\ auths[a].version = auths[b].version
  /\ auths[a].shown = auths[b].shown
  /\ a = b

Pending(a) == auths[a].stage = "pending"

(* Mutant: submitApproval() does not look at the deadline.                 *)
LiveForever(a) == Pending(a)
Live(a) == Pending(a) /\ ~(now > auths[a].expiresAt)

(* submitApproval: an expired entry is dropped whatever the proof is.      *)
SubmitExpired(a) ==
  /\ Open /\ Pending(a) /\ now > auths[a].expiresAt
  /\ auths' = [auths EXCEPT ![a].stage = "closed"]
  /\ UNCHANGED <<now, storeVars, registry, challenges, consent, runs>>

SubmitDeviceApproval(a, p) ==
  /\ Open /\ Live(a) /\ auths[a].strategy \in DeviceStrategies
  /\ p.challengeId = a
  /\ Verified(p)
  /\ challenges' = [challenges EXCEPT ![p.challengeId].redeemed = TRUE]
  /\ SameBinding(p.challengeId, a)
  /\ auths' = [auths EXCEPT ![a].stage = "granted"]
  /\ FinalizeAuthorization(auths[a], a)
  /\ UNCHANGED <<registry, consent, runs>>

(* Mutant: the pending entry survives the grant.                           *)
SubmitHostProofKeepsPending(a) ==
  /\ Open /\ Live(a) /\ auths[a].strategy \in {"biometric", "custom"}
  /\ FinalizeAuthorization(auths[a], a)
  /\ UNCHANGED <<auths, registry, challenges, consent, runs>>

(* The host vouches for a biometric or a custom verification; a custom one *)
(* that failed leaves the entry pending.                                   *)
SubmitHostProof(a) ==
  /\ Open /\ Live(a) /\ auths[a].strategy \in {"biometric", "custom"}
  /\ auths' = [auths EXCEPT ![a].stage = "granted"]
  /\ FinalizeAuthorization(auths[a], a)
  /\ UNCHANGED <<registry, challenges, consent, runs>>

-----------------------------------------------------------------------------
(* execute(), up to the await on the handler: the ticket is redeemed       *)
(* before the remaining checks, so a failure past that point burns it.     *)
(* A version with MCP bindings expects them of the ticket.                 *)
Execute(t, sandboxReady) ==
  /\ Open /\ t \in DOMAIN tickets
  /\ LET b == tickets[t].body
         definition == registry[b.capability][b.capabilityVersion]
         ctx == [capability |-> b.capability, capabilityVersion |-> b.capabilityVersion,
                 mcp |-> definition.mcp]
         bound == ~(definition.mcp = NoMcp /\ b.mcp # NoMcp)
     IN /\ Store!Redeem(t, ctx)
        /\ runs' = IF Store!Verdict(t, ctx) = "ok" /\ bound /\ sandboxReady
                   THEN [runs EXCEPT ![t].starts = @ + 1, ![t].handler = "running",
                                     ![t].at = now]
                   ELSE runs
  /\ UNCHANGED <<registry, auths, challenges, consent>>

(* withTimeout: whichever of the handler and the timer comes first decides *)
(* the outcome; the handler itself is not cancelled.                       *)
HandlerSettles(t, ok) ==
  /\ runs[t].handler = "running"
  /\ runs' = [runs EXCEPT ![t].handler = IF ok THEN "done" ELSE "threw",
                          ![t].report = IF @ # "none" THEN @
                                        ELSE IF ok THEN "ok" ELSE "failed"]
  /\ UNCHANGED <<now, storeVars, registry, auths, challenges, consent>>

(* Mutant: the timer only rejects once the handler has settled.            *)
TimesOutAfterHandler(t) ==
  /\ runs[t].handler \in {"done", "threw"} /\ runs[t].report = "none"
  /\ now >= runs[t].at + ExecuteTimeout
  /\ runs' = [runs EXCEPT ![t].report = "failed"]
  /\ UNCHANGED <<now, storeVars, registry, auths, challenges, consent>>

ExecuteTimesOut(t) ==
  /\ runs[t].starts > 0 /\ runs[t].report = "none"
  /\ now >= runs[t].at + ExecuteTimeout
  /\ runs' = [runs EXCEPT ![t].report = "failed"]
  /\ UNCHANGED <<now, storeVars, registry, auths, challenges, consent>>

Tick ==
  /\ now < MaxTime
  /\ now' = now + 1
  /\ UNCHANGED <<storeVars, registry, auths, challenges, consent, runs>>

Next ==
  \/ \E c \in Capabilities, m \in Mcp : RegisterCapability(c, m) \/ ReplaceCapability(c, m)
  \/ \E c \in Capabilities : InvalidateTicketsForCapability(c)
  \/ \E m \in McpBindings : InvalidateMcpServerTickets(m)
  \/ \E c \in Capabilities, m \in Mcp, s \in Strategies, x \in Inputs : Authorize(c, m, s, x)
  \/ \E a \in DOMAIN auths, granted \in BOOLEAN : ApprovalAnswered(a, granted)
  \/ \E a \in DOMAIN auths, x \in Inputs : CallerEditsCommand(a, x)
  \/ \E a \in DOMAIN auths : DeviceConsents(a) \/ SubmitExpired(a) \/ SubmitHostProof(a)
  \/ \E a \in DOMAIN auths, p \in Approvals : SubmitDeviceApproval(a, p)
  \/ \E t \in TicketIds, sandboxReady \in BOOLEAN : Execute(t, sandboxReady)
  \/ \E t \in TicketIds, ok \in BOOLEAN : HandlerSettles(t, ok)
  \/ \E t \in TicketIds : ExecuteTimesOut(t)
  \/ Tick

(* The clock moves and a due timer fires; handlers, prompts, devices and   *)
(* callers owe nothing.                                                    *)
Fairness == WF_vars(Tick) /\ \A t \in TicketIds : WF_vars(ExecuteTimesOut(t))

Spec == Init /\ [][Next]_vars /\ Fairness

-----------------------------------------------------------------------------
RunRecords == [starts : Nat, handler : {"none", "running", "done", "threw"},
               report : {"none", "ok", "failed"}, at : 0..MaxTime]

TypeOK ==
  /\ Store!TypeOK
  /\ \A c \in Capabilities : \A v \in 1..Current(c) :
       v <= MaxVersion /\ registry[c][v] \in [mcp : Mcp, from : 0..issued]
  /\ Len(auths) <= MaxAuths /\ \A a \in DOMAIN auths : auths[a] \in Authorization
  /\ DOMAIN challenges \subseteq DOMAIN auths
  /\ \A a \in DOMAIN challenges : challenges[a] \in [expiresAt : Time, redeemed : BOOLEAN]
  /\ consent \subseteq DOMAIN auths
  /\ runs \in [TicketIds -> RunRecords]

Started(t) == runs[t].starts > 0
ChallengeOf(t) == tickets[t].body.payload.challenge
AuthOf(t) == auths[ChallengeOf(t)]

(* One approval authorizes one run: however submitApproval() and execute() *)
(* are repeated and interleaved, no two tickets of one challenge both      *)
(* start the handler, and no ticket starts it twice.                       *)
OneRunPerAuthorization ==
  \A t, u \in {i \in DOMAIN tickets : Started(i)} :
    ChallengeOf(t) = ChallengeOf(u) => t = u /\ runs[t].starts = 1

(* Where the strategy is device_verification or qr and no host provider    *)
(* replaces it, a ticket exists only for a challenge that the holder of a  *)
(* known device key signed as granted.                                     *)
DeviceConsentNeeded ==
  \A t \in DOMAIN tickets :
    AuthOf(t).strategy \in DeviceStrategies \ HostProviders => ChallengeOf(t) \in consent

(* No ticket is taken to an MCP server's handler, nor one for an MCP       *)
(* operation to a native handler, whatever version replaces what was       *)
(* approved.  As issue() binds no MCP operation, that leaves the native    *)
(* handlers: execute() answers mcp_binding_mismatch for all the others.    *)
OnlyNativeHandlersRun ==
  \A t \in {i \in DOMAIN tickets : Started(i)} :
    LET b == tickets[t].body
    IN  b.mcp = NoMcp /\ registry[b.capability][b.capabilityVersion].mcp = NoMcp

(* The two tables agree: a pending authorization that submitApproval()     *)
(* still accepts has its challenge registered and unredeemed, although     *)
(* every other authorize() purges that registry.                           *)
PendingHasLiveChallenge ==
  \A a \in DOMAIN auths :
    Live(a) => a \in DOMAIN challenges /\ ~challenges[a].redeemed

(* Staleness is bounded end to end: what was approved through a pending    *)
(* challenge starts no later than that challenge's deadline plus one       *)
(* ticket lifetime.                                                        *)
FreshAuthorization ==
  \A t \in {i \in DOMAIN tickets : Started(i)} :
    AuthOf(t).strategy \in Interactive \ HostProviders =>
      runs[t].at <= AuthOf(t).expiresAt + TicketTtl

Superseded(t) == tickets[t].body.capabilityVersion < Current(tickets[t].body.capability)
LiveTickets == {t \in DOMAIN tickets : Store!Live(t)}

(* A live ticket bound to a version that has been replaced is always a     *)
(* late grant: it was issued after the replacement, for an approval that   *)
(* had been asked for before it.  Whatever was outstanding at the moment   *)
(* of the replacement has been cancelled.                                  *)
LiveStaleTicketsAreLateGrants ==
  \A t \in LiveTickets :
    LET b == tickets[t].body
    IN  Superseded(t) => t > registry[b.capability][b.capabilityVersion + 1].from

(* Every execution that starts is reported to its caller, by the handler   *)
(* or by the timer, even when the handler never settles.                   *)
ExecuteReports == \A t \in TicketIds : Started(t) ~> runs[t].report # "none"

(* approval/src/challenge.ts: the challenge's inputHash is that of "the    *)
(* canonicalized input that will be executed".                             *)
TicketCarriesShownInput ==
  \A t \in DOMAIN tickets : tickets[t].body.payload.input = AuthOf(t).shown

(* security/src/index.ts:636: "MCP-backed capabilities bind server/tool/   *)
(* schema/tenant into the ticket at issue time": the ticket of a command   *)
(* that named the operation its capability is registered for carries it.   *)
McpBoundAtIssue ==
  \A t \in DOMAIN tickets :
    LET b == tickets[t].body
        operation == registry[b.capability][b.capabilityVersion].mcp
    IN  operation # NoMcp /\ AuthOf(t).mcp = operation => b.mcp = operation
=============================================================================
