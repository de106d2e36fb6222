# RTQ in TLA+

RTQ stands between a command and its effect: a capability's handler runs only
for a signed, short-lived, single-use ticket, and a ticket is issued only after
risk, policy and, where they ask for it, an approval by a person or a paired
device. This directory models that path: state machines in TLA+, checked by TLC
on small instances, and theorems proved with TLAPS for every value of the
constants. File names and line numbers refer to the repository this directory
lives beside; `core/src/...` stands for `packages/core/src/...`.

1. [The system](#1-the-system)
2. [The modules](#2-the-modules)
3. [The runs](#3-the-runs)
4. [Bounds, deadlock, symmetry](#4-bounds-deadlock-symmetry)
5. [Fairness](#5-fairness)
6. [The proofs](#6-the-proofs)
7. [What the checks found](#7-what-the-checks-found)
8. [What is not modelled, and why](#8-what-is-not-modelled-and-why)
9. [Plan](#9-plan)

## 1. The system

| component | state it keeps | operations | what makes it correct |
|---|---|---|---|
| Ticket store (`core/src/ticket-store.ts`) | Map of id -> ticket with status and HMAC | `issue`, `redeem`, `peek`, `invalidate`, `invalidateWhere`, `invalidateForCapabilityVersion`, eviction | a ticket is used once, as signed, in its window, never after cancellation; no caller's writes to one ticket touch another |
| Capability registry (`core/src/capability-registry.ts`) | all versions of every capability, the current one | `register`, `replace`, `get`, `getVersion` | old versions stay resolvable for the tickets bound to them |
| RTQ runtime (`security/src/index.ts`) | pending authorizations, host providers, the components it owns | `registerCapability`, `replaceCapability`, `authorize`, `submitApproval`, `execute`, `invalidateMcpServerTickets`, `invalidateTicketsForCapability` | one approval leads to at most one run, of the operation that was approved, while it is fresh; every execution is reported |
| Risk, clarification, policy (`risk`, `clarification`, `policy`) | rules, in the order they were registered | `evaluate` each; the strategy in `authorize` | a restriction is not outweighed by an allowance or a claim; nothing of high risk is automatic unless a rule says so |
| Challenge registry (`approval/src/challenge.ts`) | challenge -> record with redeemed flag | `register` (purges), `verifyAndRedeem`, `revoke` | a challenge is redeemed once; a purge takes only what lapsed |
| Device registry (`approval/src/device.ts`) | device -> status, expiry | `register`, `authorize`, `revoke`, `isAuthorized`, `rejectionFor` | both questions give the same answer; a revocation lasts until lifted |
| Pairing manager (`approval/src/device.ts`) | pairing -> entry with redeemed flag | `createPairingChallenge`, `completePairing` | a pairing is completed once; a revoked device cannot pair |
| Approval protocol v1, state (`approval/src/approval-v1.ts`) | challenge -> record with redeemed flag | `register`, `revoke`, purge, `verify` | consent counts once, from a device authorized when it counts |
| Approval protocol v1, texts (`approval/src/protocol.ts`, `rtq-mobile/lib/protocol`) | none | create, sign, encode, parse, verify, on the host and on the phone | what is accepted is what was signed, in every field; the two sides read each other |
| v1 provider (`approval/src/provider-v1.ts`) | one pending `requestApproval` per call | `requestApproval` with two awaits and a race | no consent is granted twice; a displayed request is answered |
| Mobile approval service (`mobile/src/service.ts`) | waiters, the registry, store, verifier and pairing manager it owns | `requestApproval`, `submitApproval`, `completePairing`, `revokeDevice` | as above, and every request is answered |
| Mobile app (`apps/rtq-mobile/lib`) | device key under a PIN, pinned host, the state of two flows | scan, review, approve, deny, pair, unpair, wipe, change of PIN | signs only what was reviewed, for a host it has paired with; shows as approved only what was accepted |
| MCP registry (`mcp/src/registry.ts`) | servers with a trust state, tools with a schema hash | `registerServer`, `updateServer`, `setTrustState`, `registerTool`, `revokeServer` | changed schemas are not executable unnoticed |
| MCP gateway (`mcp/src/gateway.ts`) | sessions | `connect`, `discover`, `invoke`, `submitApproval`, `executeTicket`, `revokeServer` | a tool is called only under a ticket for it, once |
| MCP risk and policy (`mcp/src/risk.ts`, `policy.ts`) | an operator's configuration | `advise`, `evaluate` | an allow rule opens nothing that something else denies |
| Schemas (`mcp/src/schemas.ts`, `core/src/schema.ts`) | none | normalization, validation | no argument passes that the declared schema excludes |
| MCP connections (`mcp/src/transports.ts`, `protocol.ts`) | request table, timers, the child process | `connect`, `request`, `close` | every request is settled, once, by its own answer |
| Credential vault (`mcp/src/credentials.ts`) | scoped credentials with an expiry | `store`, `retrieve`, `revoke`, `revokeScope`, `purgeExpired` | what is revoked is not found again; a purge is not noticed |
| Sandbox (`sandbox/src`) | bubblewrap's cached probe, staged files, children | `createSandbox`, `execute` | what cannot be confined is not run; what runs has the files and variables its specification grants (section 7 on Windows) |
| Crypto, audit, results, HTTP, CLI | none that a decision reads | | see section 8 |

How they interact. The runtime calls the engines, the capability registry, the
challenge registry and the ticket store synchronously; it awaits the host's
approval provider, the host's prompt and the capability's handler. An approval
provider is the v1 provider or the mobile service, which await a device; the
device is the mobile app, whose two flows share a key vault and a pinned host. The
MCP gateway asks its advisor, its policy and the runtime, shares the runtime's
ticket store, and calls tools over connections that carry overlapping requests.
A device answers through a transport that may delay, lose or repeat what it
carries.

What is hard. JavaScript and Dart run the code between two awaits to completion,
so the hazards sit at the awaits and between calls: a capability is replaced or
a device revoked while an approval is open; the caller changes the command
object it passed; two responses wait at one prompt; a timer races an answer; a
table is purged by one call while another still counts on its entry; an answer
is repeated, late, or handed to the wrong request; the phone is unpaired or
wiped while an approval is being signed. On the host there is no persistence: a
restart loses every table and with it every ticket, challenge and pairing, so
there is no recovery to get wrong. The phone does keep its key and its host, and
its restarts are modelled. The engines have no steps, but rules that interact.
`PROJECT.json` lists the hazards at their lines, with the properties that would
notice.

## 2. The modules

An action is the stretch of code between two awaits: the whole of a synchronous
method, or a part of an async one. A call that is refused and changes nothing
is a stuttering step. The clock `now` is `Date.now()` in coarse units.
Variables marked "history" are not in the code; no guard reads them.

```
SingleUseGrant  <--refined by--  TicketStore  <--INSTANCE--  RTQ
DeviceRegistry  <--EXTENDS--  Pairing
                <--EXTENDS--  ApprovalVerifier  <--EXTENDS--  MobileApproval
                                                <--EXTENDS--  ProviderV1
DeviceStorage   <--EXTENDS--  ApprovalController, PairingController  <--EXTENDS--  MobileApp
SingleUseGrant, McpRegistry  <--INSTANCE, EXTENDS--  McpGateway
RiskPolicy, McpPolicy, ToolSchema, McpConnection, CredentialVault, WireProtocol,
Sandbox, Pairing  <--EXTENDS--  Parts
```

**SingleUseGrant** is what a ticket promises: usable for a while, spent at most
once and inside its window, void for ever after. It has no store.

**TicketStore** is `ticket-store.ts`. `tickets` is the Map; a ticket id is the
number of its `issue()` call (ids are fresh uuids and a Map iterates in
insertion order, which the stable eviction sort depends on). The signature is
the body it was computed over, so it verifies exactly while the body still
equals it. `Verdict` has the early returns of `redeem()` in their order.
`NewEntry` is what `issue()` stores, which is every binding but `mcp`. `issue()`
returns the stored object itself, so a caller that keeps it can write any of its
fields at any time: the signed ones, the signature, and the status, which is not
signed. `Held` are the tickets somebody keeps in that way, and `Writes` what can be
assigned to one; all other tickets are the store's `Own`. RTQ gives out ids only,
and its instance of the store has `Held` empty. `payload` stands for the signed
fields `redeem()` does not look at by name. `uses` and `revoked` are history.

**RTQ** is the runtime over the registries and `TicketStore` (an instance named
`Store`). `auths` holds one record per `authorize()` call that made a
challenge: `asking` while a host provider or the prompt has it, `pending` while
it sits in `pendingAuth`, then `granted` or `closed`. The risk, clarification
and policy verdicts before it are the choice of a strategy (`\E s`).
`CallerEditsCommand` is the caller changing the command object it passed, which
the runtime keeps by reference. `Approvals` are device approvals as four facts
the verification asks about (decision, signing time, known key, signature) and
the challenge named; a fully genuine one exists only for a challenge in
`consent`. The ticket is issued with the MCP operation of the command, which
the store drops, and `Execute` asks for that of the definition, so that an
MCP-backed ticket never passes. `Execute` runs up to the await on the handler; `HandlerSettles` and
`ExecuteTimesOut` race, as `withTimeout` has them.

**DeviceRegistry** is the class of that name. `RejectionFor` and `IsAuthorized`
are its two questions, kept apart because the code writes them twice.

**Pairing** is `PairingManager`: `completePairing()` is split at its await on
`onUserConfirmation` into `Present` (checks, then the prompt, or completion
where no callback is given) and `Confirm` or `Decline`. A purge by a later
`createPairingChallenge` may take the entry while the prompt is open;
`Confirm` goes on with it, as the code does.

**ApprovalVerifier** is the store and verifier of protocol v1: `Accepts` is the
conjunction `verify()` checks, `Verify` what it leaves of the store in each
case. A submitted approval is the challenge and device it names and the facts
checked about it; authentic ones are of pairs in `signed`. `verified` counts
acceptances (history).

**MobileApproval** adds `MobileApprovalService`: challenges made with a waiter
(`requestApproval`) or without (`createChallengeFor`), timers, and
`submitApproval`, whose first submission for a challenge answers the waiter
whether it is good or bad.

**ProviderV1** adds `DeviceVerificationApprovalV1`: `presenting`, then `racing`
against the timer. With `AnyApproval` the host's `awaitApproval()` may hand
over the approval of another request; `HostFails` is either of the host's two
functions rejecting, and the request with it.

**McpRegistry** is `mcp/src/registry.ts`: servers, trust transitions, tools and
the epoch. A profile and a schema stand for their hashes. `RegisterServer` is
`registerServer()` with the `updateServer()` it begins with, and builds the
record anew, trust state included; `RegisterTools` is `registerTool()` for each
tool of one listing. `evaluated` (history) is what an operator has made
executable under the server's present profile.

**McpGateway** is `mcp/src/gateway.ts` over that registry. RTQ's tickets are the
grants of `SingleUseGrant`, the specification `TicketStore` implements: the
gateway only ever asks RTQ to issue one and to redeem it. `discover()` is split
at `tools/list` (`Discover`, then `Discovered` or `DiscoverFails`), `invoke()` at
`authorize()` (`Invoke`, then `Authorized` or `AuthorizationFails`), and
`executeTicket()` at the tool call (`Sent`, then `CallReturns` or `CallRefused`)
and at RTQ's `execute()`, which redeems before its first await, in the same
step as `CallReturns`: it spends the ticket, or answers or throws without having
spent it. `ExecuteReturns` is the end of it: whatever `execute()` answers, the
gateway reports the call as executed, and as denied only when it throws.
`spent` (history) marks the call whose `execute()` spent the ticket. The session
found before an await is the one used after it. `ConnectionFails` is the stdio transport rejecting all its pending requests:
after a malformed message, or for good (`down`) when it is closed or its
process ends. Whether arguments, risk and policy let an `invoke()` through is the
choice of whether it happens.

**DeviceStorage** is what the phone keeps and the screens that change it without
a host: the key under a PIN (`device_key_vault.dart`), the pinned host
(`pairing_store.dart`), setup and status screens. `registered` is what the hosts
know of the phone. A restart keeps storage and drops calls in flight.

**ApprovalController** is the approval flow. `Views` has the buttons of each
view, so that a call can be made only where the screen offers it; `op` is the
one call in flight, split at each await (signature check, biometrics, reading
the vault, deriving the key, sending). `HostVerdict` is the host's verifier at
the other end, and `wire` what has been sent.

**PairingController** is the pairing flow, where several calls can be in flight:
a pasted code is not held back by the camera's guard.

**MobileApp** composes them over one storage, with the status screen. A
behaviour has one of the two flows in full; the approval flow sees of the other
only that hosts accept the phone and get pinned, and `PinsOnlyConfirmedHost`
says that the pairing flow does no more than that.

**RiskPolicy** is the first half of `authorize()`: risk engine, clarification,
the six kinds of policy rule, and the choice of the strategy (`Decide`). RTQ
takes any strategy as possible. Its state is the rules a host registers. Globs
are the set of names they match.

**McpPolicy** is the advisor and the policy engine of the gateway, and the
request the gateway builds for them (`PolicyRequest`), which leaves most of the
engine's instruments unset.

**ToolSchema** has the normalization of a declared schema and the validator of
its result. A schema is a function from its keywords, a value has a kind and a
size; a pattern is the set of sizes it matches. `Says` is the reference: what
the schema means as the server wrote it, every keyword of it; a constraint nobody
in the code reads lets nothing through there.

**McpConnection** is a connection of each of the three transports: the request
table, timers, aborts, lines read from the child process and parsed
(`Parse` over envelopes whose members are absent, valid or invalid), the end of
the process, and `close()`.

**CredentialVault** is `InMemoryCredentialVault` with a clock. `vault` is the Map
from ids to credentials; an id is the number of its `store()`, and as the Map
iterates in that order, the last of a stable sort is the candidate no other
exceeds in the score and, at an equal score, in the id (`Retrieve`).

**WireProtocol** has the four texts of rtq-approval-v1, what is signed of each,
and both readers. On the way a field, the signature or the envelope of a text
may be exchanged, or the text be another of the signed ones. Its variables are
one exchange: the code the host made, what the phone accepted, what it answered,
what the host took. ApprovalVerifier and MobileApp take from here that a
signature vouches for the whole text.

**Sandbox** is a handle of `createSandbox()` over one specification, and the
executions started through it. Paths are sequences of names over a tree of
directories and links that does not change; the checked one has two links, one of
them the workspace. `Boundary` computes, for the platform, what a command can read and
write from the Seatbelt profile or bubblewrap's mounts in their order; the Windows
runner's script confines nothing as it is written (section 7), and `RunnerOutputs` is
what it reports. `BuildEnvironment` is `env.ts`: each assignment at its place in
their order, and `Deduped` what the object keeps of them. `ExecuteSandboxed` is
`execute()` up to `spawn()`: the backend's readiness, the probe and its cache,
staging. Then the child errs or closes in any order with the command's own start. The allowlist of `path.ts`, which the policy
layer asks, is the reference that `BoundaryIsAsGranted` compares the two with.

**Parts** puts those seven and `Pairing` together for TLC. They share no state, so a behaviour is
of one part, and the others rest in an initial state.

The `MC*` modules give symmetry sets and state constraints' names only; the
constants are in the `.cfg` files. Operators marked "Mutant" in a comment are
plausible wrong versions of the definition that follows them. No specification
uses them: each shows, put in place of its definition, that a property notices.

## 3. The runs

| run | cfg | distinct states | shows |
|---|---|---|---|
| `ticket_store` | `TicketStore.cfg` | 97,725 | with room for two tickets, three issued, and any field of the second written at any time: `AtMostOnce`, `RevokedNeverRedeemed`, `EvictionTakesOldest` and the refinement of `SingleUseGrant` for the tickets nobody keeps, `RedeemsWhatWasSigned` for all |
| `rtq_approval` | `RTQApproval.cfg` | 65,274 | two pending approvals (device, biometric) with repeated submissions and executions over four time units: `OneRunPerAuthorization`, `DeviceConsentNeeded`, `PendingHasLiveChallenge`, `FreshAuthorization` |
| `rtq_replacement` | `RTQReplacement.cfg` | 101,200 | one authorization in flight while its capability goes through three versions, native and MCP: `OnlyNativeHandlersRun`, `LiveStaleTicketsAreLateGrants`, and the liveness `ExecuteReports` |
| `rtq_caller_input` | `RTQCallerInput.cfg` | | finding: `TicketCarriesShownInput` is violated |
| `rtq_mcp_binding` | `RTQMcpBinding.cfg` | | finding: `McpBoundAtIssue` is violated |
| `pairing_concurrent` | `PairingConcurrent.cfg` | | finding: `PairingSingleUse` is violated |
| `mobile_approval` | `MobileApproval.cfg` | 133,308 | two requests waiting longer than a challenge lives: `ConsentUsedOnce`, `GrantWithinChallengeLife`, `GrantNeedsAuthorizedDevice`, and the liveness `RequestIsAnswered` |
| `provider_misdelivery` | `ProviderMisdelivery.cfg` | 78,323 | two requests whose approvals may be swapped, and whose host may fail: `OneGrantPerConsent`, and the liveness `PresentedIsAnswered` |
| `mcp_gateway` | `McpGateway.cfg` | 2,174,778 | two sessions of one server, three tool calls under one ticket, two profiles, two schemas: `SpentByOneCall`, `RevocationCutsSessions`, `ExecutableIsAsEvaluated` |
| `mcp_ticket_twice` | `McpTicketTwice.cfg` | | finding: `TicketCallsToolOnce` is violated |
| `mobile_app` | `MobileApp.cfg` | 475,003 | both flows of the phone over one storage, two hosts, one of them forged: `SignsWhatWasReviewed`, `ApprovedWasAccepted`, `ApprovalsForPairedHosts`, `PinsOnlyConfirmedHost`, and the liveness `ProgressEnds` |
| `parts` | `Parts.cfg` | 28,008 | the eight parts of `Parts`: `AutomaticOnlyBelowHigh`, `RestrictionsHold` (every list of up to two rules), `AllowRulesOpenNothing`, `AcceptedIsDeclared`, `PendingIsUnsettled`, `ResultIsOwn`, `PurgeIsInvisible`, `RevocationReaches`, `AcceptedAsSigned`, `AnswersAreTaken`, `NeverFallsBack`, `ConfinedAsGranted`; over two pairings, two devices and two calls at the prompt, `CompletedPairingIsClosed`, `RevokedDeviceCannotPair` |

The `TypeOK` of the store, of RTQ, of the gateway, of the phone and of the mobile
service is a theorem, and Pairing's is a part of the invariant its results rest
on. No run is spent on it: the properties refer to the parts of that shape that
matter.

## 4. Bounds, deadlock, symmetry

Every bound is a constant, and a guard names it.

- `MaxTime`, the last value of the clock, is past the last deadline that a
  call in time can set: each lifetime and timeout is one or two units, so
  "before", "at" and "after" a deadline are three different times (a ticket's
  lifetime is 0 in `TicketStore` and `McpGateway`: at its deadline, and after).
  `LastCall` (RTQ) stops calls early enough for every timer to fire;
  `MobileApproval` and `ProviderV1` refuse requests whose timer could not.
- `TicketStore` has `MaxTickets = 2`, `MaxIssued = 3` and `Held = {2}`: the third
  `issue()` evicts, with a ticket of the store's own before and after the one that
  is kept, so that a redated one can stand at either end of the sort. `TtlMs = 0`
  and `MaxTime = 1` give a ticket its last instant and one past it, and equal issue
  times, where the stable sort decides. `uses` counts to two, which is "more than
  once". The proofs are for any set of kept tickets.
- RTQ's store is given more room than there are tickets: the code constructs it
  with the default of 1000. `MaxIssued = MaxAuths + 1` leaves room for one
  ticket too many, so that a surplus ticket is found and not excluded.
- Two authorizations, two requests, two pairings, two devices or two waiting
  calls are the least for the interleavings of interest: each property relates
  at most two of them. Three versions are the least for a replacement that
  misses a ticket the previous one also missed. The proofs cover any number
  where they exist.
- The MCP runs have one server, as no two servers share state in this code. Two
  sessions tell "all sessions of a server" from "the first"; three invocations
  are the one that parks a ticket and two approvals of it. `MaxEpoch = 4` is
  enough to register a server, list its tool, make it executable and then change
  its schema, its profile or its trust. `InitialTrust` and `OperatorTrust` keep
  the trust states to pending and revoked, with both ways back from a
  revocation: the operator's and a new `connect()`. The transition table is
  `Legal`; the other states differ only in it.

`CHECK_DEADLOCK FALSE` is set wherever the clock and the calls run out: such a
state is the end of the bounded day, not of the program. `TicketStore` and
`MobileApp` have no such state, as `redeem()` can always be called and the app
restarted, and are checked for deadlock.

- The phone run has two hosts, a good and a weak PIN, a genuine challenge and one
  that names the other host without its signature, and `MaxTime = 2` with codes
  that lapse at 1: before, at and after. `MaxSubmits = 2` is an approval and its
  repetition, `MaxCalls = 2` two scans, or a scan and a completion, at a time.
  `MaxKeys = 1`: a second key means a wipe, a restart and a new setup, which
  the properties tell from the first only by a host that no longer knows the
  phone, and an unpaired phone shows that too.
- The rule and schema sets of `MCParts` have a member for each branch of the
  engines: every kind of rule with and without a condition that applies, every
  keyword of a schema alone and with the ones it interacts with, values that fit,
  that miss a limit by one, and of another kind. Two rules are the least for one
  to stand before another. Two requests overlap on a connection, with one unread
  line: more lines are only longer queues, as each is read by itself. Two
  credentials are the least for one to hide another.
- On the wire a field holds one of two good values, or is absent, null, too short,
  or malformed; there are two signers, and one changed field, signature or
  envelope per text. A change of several fields is no text that anyone signed
  either; what tells texts apart is the signed body as a whole.

- The sandbox has twelve specifications whose directories lie beside, above,
  beneath or under another name of one another, are no directory or do not exist,
  or whose denied and allowed names differ in case only; the three platforms with a
  backend and one without; and two executions, the least for a probe that the
  first made and the second finds. What a boundary allows is asked about every
  directory of the tree and a new file in each.

Device ids are symmetric in `parts` and `pairing_concurrent`, and the executions of
the sandbox in `parts`; these runs check safety only.

## 5. Fairness

Weak fairness of `Tick` (time passes) and of the timer callbacks
(`ExecuteTimesOut`, `WaitTimesOut`, `DeadlinePassed`): the event loop runs a
callback that is due. Nothing is assumed of handlers, prompts, hosts, devices or
networks: they may never answer. Under these alone every execution is reported
and every request answered. `PresentedIsAnswered` starts where the provider's
timer does, after `presentChallenge()` has returned; before that the code makes
no promise (section 7).

`MobileApp` assumes `ApprovalReturns`: an await of the approval flow returns. A
storage read, a key derivation and a signature do, the platform's biometric
dialog can be dismissed but not left open, and the transport has a timeout
(`approval_transport.dart`). Hosts may never answer, and users never touch the
screen. `Parts` states no fairness and no liveness.

## 6. The proofs

Each theorem is of the specification a run checks, or of the part of `Parts` it
is about, for every value of the constants that the module's `ASSUME` admits;
the assumptions say what kind of value a constant has, and TLC evaluates them on
every run. A module of proofs states its invariant first, with a comment on each
conjunct that the properties do not imply; the lemmas below it say what an
operation does to the state, then that each action keeps each part.

| module | theorems | the invariant |
|---|---|---|
| `TicketStoreProofs` | `TypeCorrect`, `SingleUse`, `RevocationIsFinal`, `ReplayIsReported`, `RedemptionIsSound`, `EvictionIsFair`, `StoreImplementsSingleUse` | `IInv` |
| `RTQProofs` | `TypeCorrect`, `OneRun`, `DeviceConsent`, `TablesAgree`, `BoundedStaleness`, `RunsAreBound`, `ReplacementCancels`; `UsesTheStore`, `RuntimeRedeemsOnce`, `RuntimeGrantsOnce` | `IInv` |
| `MobileApprovalProofs`, `ProviderV1Proofs` over `ApprovalVerifierProofs` | `TypeCorrect`, `ConsentIsUsedOnce`, `GrantsAreFresh`, `GrantsAreAuthorized`; `GrantsRestOnTheirOwnConsent` | `IInv` each |
| `McpGatewayProofs` | `TypeCorrect`, `ExecutableWasEvaluated`, `SpentOnce`, `RevocationCuts` | `RegistryInv`, `SessionInv`, `GrantInv`, `CallInv` |
| `MobileAppProofs` | `TypeCorrect`, `SignsTheReviewed`, `ApprovedIsAccepted`, `ApprovalsAreForPairedHosts`, `PinsConfirmedHosts` | `StorageInv`, `PairingInv`, `ApprovalInv` |
| `PartsProofs` | `TableIsUnsettled`, `ResultsAreOwn`; `CompletedIsClosed`, `RevokedIsKeptOut`; `HighIsNeverAutomatic`, `RestrictionsAlwaysHold`; `AllowancesOpenNothing`; `NothingFallsBack`, `ConfinesAsGranted`; `OneCredentialPerScope`, `PurgesAreInvisible`, `RevocationsReach`; `AcceptedIsAsSigned`, `AnswersAreAlwaysTaken` | one for each component |

**Ticket store.** The theorems are about the tickets nobody keeps, for every set
`Held` of the others, whose fields any `Mutate` may write; only `RedemptionIsSound`
is about all. `AtMostOnce` is not inductive: it says nothing of the entry that a
next `redeem()` would read. `IInv` adds that a used ticket still in the table is
marked redeemed, that a cancelled one is marked invalidated, and the reverse,
that what is marked redeemed was used, and that its body is as signed; all hold
across eviction because an id is never issued again, and across writes because
those go to another entry (`OwnUntouched`). `EvictionIsFair` needs two more
invariants: `InOrderOfIssue`, that among the store's own the sort key `issuedAt`
rises with the order of issue (the clock does not run back and nobody redates
them), and `WithinLimit`, that the store is never over its limit, so that one
`issue()` evicts at most one entry, the first of the sort (`IssueEvictsFirst`). The
refinement is step by step: `issue()` with the eviction it causes is one step of
`SingleUseGrant`, a refused `redeem()` or a write to a kept ticket a stutter.

**RTQ.** Seven conjuncts carry the properties. `TicketsStandForGrants` and
`OneTicketPerGrant`: a ticket stands for one granted authorization, binds what
that one captured, and no two stand for the same; `StartedWasRedeemed`: a handler
was started at most once, for a ticket redeemed in its lifetime. These give
`OneRun`, across repeated submissions, concurrent executions, cancellation and
eviction. `PendingAgrees`: while an entry can be submitted for, the registry has
its challenge with the same deadline, which is why a purge at that moment cannot
take it, and with `FreshTickets` it gives `BoundedStaleness`. `AskedOfHosts` and
`VersionsExist` keep the strategies and versions apart that the handlers tell
apart.

The runtime is also shown to implement the specification of its store
(`UsesTheStore`): every handler, with the captured command and the definitions it
looks up, calls the store with values `TicketStore` has an action for, or leaves it
alone. `TicketStoreProofs` is then instantiated at the runtime's constants (the
versions up to `MaxVersion`, an input and a challenge as payload), the hypotheses
of its `ASSUME` are shown, and its theorems carry over: `RuntimeRedeemsOnce` and,
through the store's own refinement, `RuntimeGrantsOnce`.

**Mobile service and v1 provider.** The lemmas of `ApprovalVerifierProofs` say what
`verify()`, `register()` and the registry do to the state, and that what `verify()`
accepts was signed by a device that `isAuthorized()` accepts too (the two ask by
different code). `AcceptedIsClosed` (an accepted challenge is gone or marked) and
`ChallengeOfItsRequest` (a registered challenge lives from its request on) are the
strengthening for the service; `UsedIsAccepted` with `AcceptedIsClosed` for the
provider, whichever approval `awaitApproval()` hands over.

**MCP gateway.** `RegistryInv` has that every new revision of a tool has bumped the
epoch (`RevisionsWithinEpoch`), so that an evaluation of an older revision cannot be
taken for one of the present tool. `SessionInv` ties the sessions to what was to end
them, `GrantInv` the parked tickets to grants. `CallInv` is what `SpentOnce` rests
on: whoever calls a tool holds the ticket the call counts under, no two invocations
have spent the same one, none before its call returned, and what is spent was spent
by an invocation. What the gateway reports of a call it does not say.

**Mobile app.** `ViewsOffer` and `PairingViewsOffer` say which view has which
button; that no call is behind a view that offers one (`OfferedAtRest`) is what
keeps a second call from changing the challenge under the first. `ReviewIsOfPairedHost`
and `SentIsOnTheWire` carry what was checked when a code was scanned across the
five awaits to the signature and to the answer that is shown.

**Connections.** `ConnectionInv` adds that a request not yet made has no outcome (a
fresh id has no table entry to collide with) and that a line which can settle a
request is an answer the server gave it, from the server's write to the client's
read. `SettleEffect` is the one lemma of every way to settle.

**Pairing.** `CompletedIsMarked`: a pairing completed by some call is marked or gone,
also when a purge took it while the prompt was open. `RevocationIsNoted`: a call
whose device is revoked while it waits was at the prompt before the revocation.

**Engines.** `FirstApplies`: the rule that decides is one of its kind that applies,
and one is found when there is one (from the well-foundedness of the numbers of the
rules). `RiskIsLevel` and `AutomaticIsLow` bound what base, context, claim and
allowance make of a level. `InsertKeepsRules`: a rule put between others takes
none of them out.

**Sandbox.** `SoundRun`: what was spawned has a boundary unless it was asked to be
plain, and no answer vouches for it while it runs; with it each answer is checked
against what ran. Both sandbox theorems leave Windows out by name, but for the
environment.

`ConfinedAsGranted` rests on `PreparedInv`: an execution that was started has the
boundary its platform makes of a specification that can be enforced, or none, and
one of the environments the specification gives. The rest is about the operators.
`GrantedIsAllowed`: a path within a flattened directory is one the policy layer
allows. `SeatbeltGrants`: a directory granted for writing is within no denial, since
a denial has no writable directory beneath it. `LastMount` and `ModeByMount`: the
mode bubblewrap gives a path is that of the last mount above it, which is where
the exceptions for the workspace and for read-only directories come from.
`DedupedNames` and `EnvironmentNames`: dropping spellings adds no name, so what is in
an environment was considered, or is `HOME` or `TMPDIR`. Assumed of the constants:
the workspace and the system's temporary directory exist, the real path of an
existing directory is among `Paths`, and a real path is its own real path, which is
what `realpath()` returns.

**Vault.** `VaultInv`: ids are numbers already given out, and no two credentials have
the same scope and class, `store()` making room for the new one
(`OneCredentialPerScope`). `PurgesAreInvisible`: a purge leaves every usable
credential under its id, and `Retrieve` looks at no other. `RevocationsReach`: a
lookup of a narrower scope fits only credentials that the revoked scope fits too.

**Texts.** `SameBodyIsSameText`: what is signed of a text determines the text, in
every field its reader looks at (this is where leaving a field out of the signing
body shows), and `FieldsTellKinds`, that no text is of two kinds.
`ApprovesWhatWasShown` is the step that needs both: the answer does not repeat the
summary, so that the device saw the host's own summary follows from the fields it
does repeat and the uniqueness of nonces.

Only model-checked, and why:

- Liveness (`ExecuteReports`, `RequestIsAnswered`, `PresentedIsAnswered`,
  `ProgressEnds`): the proofs need `ENABLED`, out of the prover's reach.
- `AcceptedIsDeclared`: the validator and its reference are recursive over
  schemas, and what a recursive definition computes takes an induction that the
  installed provers cannot be given.

Hash, signature and uuid freshness are assumptions of the models, not of the
proofs alone.

## 7. What the checks found

Four runs end in a counterexample, each against a sentence of the repository:

- `rtq_caller_input`: the ticket binds the command's input as it is when the
  approval arrives; the challenge was shown and hashed with the input of the
  request. Binding check #2 compares two values of the same early moment.
- `pairing_concurrent`: `redeemed` is read before the prompt and set after it,
  so two responses to one pairing can both register a device.
- `mcp_ticket_twice`: `executeTicket()` calls the tool and then consumes the
  ticket, and an approval does not unpark it. Approving one ticket twice calls
  the tool twice. What does hold is `SpentByOneCall`.
- `rtq_mcp_binding`: `issue()` puts a ticket together field by field and leaves out
  `mcp`, which the runtime passes (`core/src/ticket-store.ts:143` to 158,
  `security/src/index.ts:1073`). `security/src/index.ts:636` says that tickets are
  bound to the operation at issue time, and
  `docs/SECURITY_VERIFICATION_MATRIX.md:94` that the binding is verified. So
  `execute()` answers `ticket.mcp_binding_mismatch` for every capability with MCP
  bindings, its check at line 658 never applies, and `invalidateMcpServerTickets()`
  finds no ticket. What does hold is `OnlyNativeHandlersRun`, and by that omission.

Seen while modelling, no run is spent on them.

Tickets, approvals and the gateway:

- `issue()` returns the stored object (`ticket-store.ts:160` to 170), and its status
  is not signed. Whoever keeps the object and sets the status of a used or
  cancelled ticket back to `issued` can redeem it again, with the fields that were
  signed; one who changes `issuedAt` changes the order of eviction, and may have
  another ticket evicted in its place. The comment at line 269 says that the stored
  fields are frozen and any mutation breaks the signature check; only the input is
  frozen. `AtMostOnce`, `RevokedNeverRedeemed`, `EvictionTakesOldest` and the
  refinement are about the tickets nobody keeps (all of RTQ's).
- `replaceCapability()` cancels the tickets of version `next - 1` only
  (`security/src/index.ts:236`; `docs/SECURITY_VERIFICATION_MATRIX.md:46` speaks of
  all). An approval asked for under version 1 and given under version 2 yields a
  ticket bound to version 1; the replacement by version 3 leaves it live, and
  `execute()` runs version 1's handler. What does hold is
  `LiveStaleTicketsAreLateGrants`: such a ticket is always a late grant.
- The v1 provider verifies whatever approval it is handed and does not ask
  whether it is for its own challenge (`provider-v1.ts:131`, against lines 7 and
  13 to 15). What does hold is `OneGrantPerConsent`.
- `core/src/ticket-store.ts:76` calls `maxTickets` a limit on live tickets; used,
  cancelled and expired entries count too.
- A host provider's or prompt's answer is not held against the challenge's
  deadline; `FreshAuthorization` therefore leaves those strategies out.
- `approval/src/device.ts:180` says pairing must not complete without the user's
  confirmation; without the callback it does, and `MobileApprovalService` passes
  none on. The pairings of the `parts` run have managers of both kinds.
- A device revoked while its pairing waits at the prompt is authorized again by
  the `register()` that follows. `RevokedDeviceCannotPair` is about the moment
  of presentation.
- `docs/mobile-approval/README.md:324` speaks of the first presentation; a
  refused first submission answers the waiter "denied", and a later good one is
  still accepted and consumed with nobody waiting.
- The v1 provider's timer starts after `presentChallenge()` returns: a host that
  never returns is waited for without end. One that rejects, as `awaitApproval()`
  may, ends `requestApproval()` with its exception, and the challenge stays
  registered until it is purged.
- `mcp/src/gateway.ts:368` says a refused approval removes the ticket from the
  park; nothing removes it. An approved one calls the tool with no arguments
  (line 399), not with those that were authorized, and compares no schema hash.
- `gateway.ts:474` says that revoking a server invalidates all its tickets;
  neither it nor the registry's change event does more than audit.
  `invalidateMcpServerTickets()` is the caller's to call.
- `mcp/src/registry.ts:185` says a revoked or blocked server is never asked to
  execute anything. `invoke()` looks for a session, not at the trust state, so a
  server revoked through the registry is still called, as is one whose
  authorization was under way; a tool's `registered` mark is not read either.
- `registry.ts:41` says only legal transitions are honoured. A `connect()` puts a
  record with the configured trust in the place of a revoked or blocked one, and
  where the profile is the same the epoch stays.
- `disconnect()` revokes the server and leaves its other sessions open.
- `invoke()` does not pass the transport to the policy (`policy.ts:254` then
  assumes an in-memory one), so a list of allowed transports decides nothing.
- `policy.ts:66` speaks of the first match; an allowing match goes on to the next
  rule, and a later denial wins.
- `gateway.ts:451` does not look at what `execute()` answers. `docs/mcp/README.md:92`
  passes `rtq.execute`, which answers `{ok: false}` for a ticket it cannot redeem:
  with it both callers of `mcp_ticket_twice` are told "executed", as is one whose
  ticket was cancelled or expired while the tool was called. `SpentByOneCall` is
  about what was spent for that reason. Line 91 passes `rtq.authorize`, whose answer
  (`core/src/types.ts:200`) is not what the gateway's `authorize` declares: a denial
  is a value there and not an exception. The model has an `authorize()` that keeps
  to the gateway's interface.

Risk, policy and schemas:

- A `requireApproval` rule is followed as it is written: one with the strategy
  `automatic` at any level (`security/src/index.ts:146` says critical is never
  automatic), one with `user_confirmation` also for a remote origin, which the
  escalation for origins then does not see (lines 852 to 856). `always: true`
  gives `user_confirmation` even for a critical risk. `override` rules are only
  recorded.
- A command's risk context is spread over the one the runtime builds (lines 321
  to 325) and can name another origin for the risk engine than the one policy sees.
- `McpPolicyRule.tenant` (`policy.ts:61`) is never read, `requireAllowedTransports`
  guards an empty block (404 to 407), the `*` key of `allowedEffectiveOperations`
  has no effect, and words can lower a class though `risk.ts:210` says only to
  raise. `riskAdvice.effective` never reaches RTQ.
- `schemas.ts:11` to 13 say that what is not supported marks a schema incomplete.
  Of a tool's schema without a `type` only `properties` and `required` are read
  (lines 149 to 155): a `$ref`, `if`, `allOf`, `anyOf`, `not`, `enum` or `const` beside
  them is dropped without a mark, and arguments it forbids are accepted.
  `AcceptedIsDeclared` compares with the schema as it was declared and leaves these
  schemas out by name (`LosesConstraints`). In every schema the keywords `minimum`,
  `maximum` and `oneOf` are dropped without a mark, and an `anyOf` takes the place of
  the `type` beside it. The validator does not look at a number's `enum`, an `enum` of
  objects never matches, and a field whose name every object inherits passes
  `additionalProperties: false`. `AcceptedIsDeclared` leaves these out too.
- The vault sorts by ascending specificity and takes the last: the least specific
  credential wins where `credentials.ts:98` says the most specific does.

The phone:

- A denial whose PIN was wrong, or which could not be sent, ends in the view "The
  host was told" (`approval_controller.dart:308`, `approval_flow_screen.dart:412`).
- A change of PIN that is still deriving its key when the vault is wiped writes
  the record back (`status_screen.dart:116`, `136`).
- A pairing completion in flight pins its host after an unpairing or a wipe, and
  an approval in flight is sent after one. A pairing's expiry is checked when it
  is scanned and not when it is confirmed. Pasted codes are not held back by the
  camera's guard, so two scans overlap.
- An approval whose submission timed out may have been accepted; the phone cannot
  tell and shows a connection error. `ApprovedWasAccepted` is the other direction.
- `StatusScreen.onReset` is never called, so a wiped app shows its home screen
  until it is restarted. `main.dart` leaves `requireBiometric` false; the model
  has the gate.

Texts:

- An empty device name is trimmed, signed and sent by the phone and refused by the
  host (`pairing_flow_screen.dart:367`, `protocol.ts:912`). `AnswersAreTaken` is about
  named devices.
- The two readers differ on a `userHint` of null (refused in TypeScript only), on
  integral doubles and integers from 2^63 (refused in Dart only), and the host
  asks no length of the key or the nonce of an answer. `createChallengeV1()` and
  `createPairingChallengeV1()` do not look at their fields, so a host can sign a
  code that no phone reads.

Sandbox:

- `sandbox/src/index.ts:58` to 62 say that `createSandbox()` throws where no backend
  exists or none could be verified. It always returns a handle, and reports it
  verified without a probe; `execute()` refuses later. RTQ takes the returned handle
  for a sandbox. What does hold is `NeverFallsBack`.
- The Windows runner (`sandbox/scripts/windows-runner.ps1`) passes 0x08000000 to
  `CreateProcessW` (line 287), which is `CREATE_NO_WINDOW`; the flag the comment
  names, `EXTENDED_STARTUPINFO_PRESENT`, is 0x00080000, and without it the attribute list
  with the AppContainer is not read. So the command, where the call succeeds (line 290
  passes an `IntPtr` and a byte array for a structure and an `IntPtr`), runs in the
  job only, against lines 11 to 17 ("the target is NEVER run uncontained"). The result of
  `ResumeThread` is not looked at (313), nor that of any `icacls` (225 to 235), the
  directory of the executable is opened to every application package (225) and
  that right removed for all of them afterwards (339), a failure after the grants
  leaves them in place, and past the setup the report says `sandboxed` and
  `appContainer` whatever happened, a timeout included (347 to 356). The model has no
  boundary on Windows; `NeverFallsBack` and `ConfinedAsGranted` are about Seatbelt and
  bubblewrap there.
- On darwin and linux an answer says `sandboxed` when the backend was spawned and
  closed, also when it failed before it started the command.
- `types.ts:34` and `env.ts:8` say that denied variables are never present; `HOME` and
  `TMPDIR` are set whatever was denied. `WINDOWS_SAFE_ENV_KEYS` are not added unless
  allowed (`env.ts:96` to 105), and `describeEnvironmentDrops()` compares the spelling
  where the environment does not.
- Bubblewrap's probe is cached for the life of the process, a timeout of it too. A
  read-only mount hides a writable directory beneath it, and the workspace, mounted
  last, is writable also where a directory inside it was granted for reading only.
- When `spawn()` throws, the staged profile or payload stays.

## 8. What is not modelled, and why

- Canonical JSON, hashes, HMAC, Ed25519, uuids (`crypto`): stateless; modelled
  by what they guarantee (equal exactly for equal bytes, fresh).
- The characters of JSON and base64url: `WireProtocol` has whether an encoding is
  the canonical one and whether a key is repeated.
- Audit sinks: written, never read by a decision.
- Of the sandbox: what may be executed, signals and devices, the wording of
  errors, and of the PowerShell runner what it grants to the AppContainer that its
  command does not run in. RTQ has the one
  fact it uses, whether a sandbox could be made, and McpConnection whether its
  process started.
- Providers other than v1 (`approval/src/providers.ts`): thin adapters; to RTQ
  they are a provider that answers at any time.
- MCP results (`results.ts`): truncation and redaction of text. Shared references
  count as cycles, and a truncated text may be longer than `maxBytes`. The
  reference server answers requests one at a time; `contract.ts` is called by nobody.
- HTTP server and client, CLI, website: routing and printing. Delay, loss and
  repetition of what HTTP carries are the submissions of `MobileApproval` and the
  `wire` of `MobileApp`. `mobile/src/client.ts` does not parse.
- Key derivation and encryption in the phone's vault: a PIN opens the record it
  wrapped and no other.
- `ChallengeRegistry.revoke()`: the runtime does not call it.

## 9. Plan

Done: the ticket path (`TicketStore`, `RTQ`) first, being what every other part
leads to; devices, pairing and the two ways to wait for a device; the MCP
registry and gateway; the phone; the engines, schemas, connections and the vault;
the texts that go between phone and host; the sandbox.

Proved: every safety and action property that a passing run checks, except
`AcceptedIsDeclared` (section 6), and both refinements: the store implements
`SingleUseGrant`, and the runtime the store.

Open: the challenge registry as a module of its own, with `revoke()`; the gateway
over the runtime itself in place of the grants it implements.
