----------------------------- MODULE McpGateway -----------------------------
(***************************************************************************)
(* packages/mcp/src/gateway.ts, class McpGateway, over the MCP registry,   *)
(* the stdio transport (transports.ts) and RTQ's tickets.  invoke() awaits *)
(* RTQ's authorize(); executeTicket() awaits the tool call, and then RTQ's *)
(* execute(), which redeems the ticket as soon as it is called, or does    *)
(* not: what it answers is not looked at.  Tickets are the grants of       *)
(* SingleUseGrant, which TicketStore implements.                           *)
(***************************************************************************)
EXTENDS McpRegistry, Sequences

CONSTANTS
  TicketTtl,
  InitialTrust,      \* bound: trust states connect() is configured with
  OperatorTrust,     \* bound: trust states the operator sets
  MaxSessions,       \* bound: connect() calls
  MaxInvocations,    \* bound: invoke() and submitApproval() calls that find a tool
  MaxTickets,        \* bound: tickets issued
  MaxTime            \* bound: last value of the clock

ASSUME GatewayAssumption ==
  /\ InitialTrust \subseteq TrustStates /\ OperatorTrust \subseteq TrustStates
  /\ TicketTtl \in Nat /\ MaxSessions \in Nat /\ MaxInvocations \in Nat
  /\ MaxTickets \in Nat /\ MaxTime \in Nat

VARIABLES
  now,
  phase, lapses,   \* RTQ's tickets: see SingleUseGrant
  sessions,        \* sessions[i]: the server of the i-th connect()
  open,            \* the Map of sessions: those neither revoked nor disconnected
  down,            \* sessions whose transport is closed or whose process has exited
  listing,         \* sessions with a tools/list under way
  parked,          \* config.tickets: ticket -> the server and tool it is bound to
  invocations,     \* invoke() and submitApproval() calls, in order
  called,          \* history: tools/call messages sent under each ticket
  cut              \* history: sessions revokeServer() or disconnect() was to end

ticketVars == <<now, phase, lapses>>
sessionVars == <<sessions, open, down, listing, cut>>
callVars == <<parked, invocations, called>>
vars == <<registryVars, ticketVars, sessionVars, callVars>>

Tickets == 1..MaxTickets
Time == 0..(MaxTime + TicketTtl)
Stages == {"authorizing", "parked", "calling", "executing", "executed", "denied"}

(* "ticket" is 0 until authorize() has returned one; "spent" is a history: *)
(* the execute() of this call has redeemed the ticket.                     *)
Invocations == [server : Servers, tool : Tools, session : 1..MaxSessions,
                ticket : Tickets \cup {0}, stage : Stages, spent : BOOLEAN]

Ticket == INSTANCE SingleUseGrant WITH
  Grants <- Tickets, Deadlines <- Time, clock <- now, deadline <- lapses

Init ==
  /\ RegistryInit
  /\ now = 0
  /\ phase = [g \in Tickets |-> "unissued"] /\ lapses = [g \in Tickets |-> 0]
  /\ sessions = << >> /\ open = {} /\ down = {} /\ listing = {}
  /\ parked = [g \in {} |-> {}]
  /\ invocations = << >>
  /\ called = [g \in Tickets |-> 0]
  /\ cut = {}

-----------------------------------------------------------------------------
(* Sessions.                                                               *)
OfServer(s) == {i \in open : sessions[i] = s}

(* findSession: the oldest session of the server.                          *)
FindSession(s) == {i \in OfServer(s) : \A j \in OfServer(s) : i <= j}

Connect(s, p, trust) ==
  /\ Len(sessions) < MaxSessions
  /\ RegisterServer(s, p, trust)
  /\ sessions' = Append(sessions, s)
  /\ open' = open \cup {Len(sessions) + 1}
  /\ UNCHANGED <<ticketVars, down, listing, cut, callVars>>

Disconnect(i) ==
  /\ i \in open
  /\ Revoked(sessions[i])
  /\ open' = open \ {i}
  /\ cut' = cut \cup {i}
  /\ UNCHANGED <<ticketVars, sessions, down, listing, callVars>>

(* Mutant: revoking a server drops the session findSession() finds.        *)
RevokeServerDropsOne(s) ==
  /\ Known(s) /\ Revoked(s)
  /\ open' = open \ FindSession(s)
  /\ cut' = cut \cup OfServer(s)
  /\ UNCHANGED <<ticketVars, sessions, down, listing, callVars>>

(* Every session of the server goes; its tickets stay as they are.         *)
RevokeServer(s) ==
  /\ Known(s) /\ Revoked(s)
  /\ open' = open \ OfServer(s)
  /\ cut' = cut \cup OfServer(s)
  /\ UNCHANGED <<ticketVars, sessions, down, listing, callVars>>

(* The operator's decisions on servers and tools.                          *)
OperatorDecides ==
  /\ \/ \E s \in Servers, to \in OperatorTrust : SetTrustState(s, to)
     \/ \E s \in Servers, t \in Tools : RegisterToolAsExecutable(s, t)
  /\ UNCHANGED <<ticketVars, sessionVars, callVars>>

(* discover(), up to its await; bound: one listing at a time per session.  *)
Discover(i) ==
  /\ i \in open \ (listing \cup down)
  /\ listing' = listing \cup {i}
  /\ UNCHANGED <<registryVars, ticketVars, sessions, open, down, cut, callVars>>

(* The listing has arrived; it is registered although the session may have *)
(* been dropped meanwhile.                                                 *)
Discovered(i, tools) ==
  /\ i \in listing
  /\ RegisterTools(sessions[i], tools)
  /\ listing' = listing \ {i}
  /\ UNCHANGED <<ticketVars, sessions, open, down, cut, callVars>>

DiscoverFails(i) ==
  /\ i \in listing
  /\ listing' = listing \ {i}
  /\ UNCHANGED <<registryVars, ticketVars, sessions, open, down, cut, callVars>>

-----------------------------------------------------------------------------
(* Invocations.                                                            *)
(* executeTicket, up to its first await: the tool is called under ticket g *)
(* over session i, at once refused by a transport that is down.            *)
Sent(r, g) ==
  IF r.session \in down THEN [r EXCEPT !.ticket = g, !.stage = "denied"]
  ELSE [r EXCEPT !.ticket = g, !.stage = "calling"]

Counted(r, g) == IF r.session \in down THEN called ELSE [called EXCEPT ![g] = @ + 1]

(* invoke(): the server has a session, the tool is known, and its policy   *)
(* lets the arguments through; RTQ is asked.                               *)
Invoke(s, t) ==
  /\ Len(invocations) < MaxInvocations
  /\ KnownTool(s, t)
  /\ \E i \in FindSession(s) :
       invocations' = Append(invocations,
         [server |-> s, tool |-> t, session |-> i, ticket |-> 0,
          stage |-> "authorizing", spent |-> FALSE])
  /\ UNCHANGED <<registryVars, ticketVars, sessionVars, parked, called>>

(* RTQ has answered with a ticket: park it for approval, or call the tool. *)
Authorized(k, approvalRequired) ==
  LET r == invocations[k]
  IN
  /\ r.stage = "authorizing"
  /\ \E g \in {x \in Tickets : \A y \in 1..x : phase[y] = "unissued" <=> y = x} :
       /\ Ticket!Issue(g, now + TicketTtl, {})
       /\ IF approvalRequired
          THEN /\ parked' = [x \in DOMAIN parked \cup {g} |->
                               IF x = g THEN [server |-> r.server, tool |-> r.tool]
                               ELSE parked[x]]
               /\ invocations' = [invocations EXCEPT ![k].stage = "parked", ![k].ticket = g]
               /\ UNCHANGED called
          ELSE /\ invocations' = [invocations EXCEPT ![k] = Sent(r, g)]
               /\ called' = Counted(r, g)
               /\ UNCHANGED parked
  /\ UNCHANGED <<registryVars, sessionVars>>

AuthorizationFails(k) ==
  /\ invocations[k].stage = "authorizing"
  /\ invocations' = [invocations EXCEPT ![k].stage = "denied"]
  /\ UNCHANGED <<registryVars, ticketVars, sessionVars, parked, called>>

(* submitApproval(ticket, true).  The ticket stays parked; so it does when *)
(* the user says no, which changes nothing at all.                         *)
SubmitApproval(g) ==
  /\ Len(invocations) < MaxInvocations
  /\ g \in DOMAIN parked
  /\ KnownTool(parked[g].server, parked[g].tool)
  /\ \E i \in FindSession(parked[g].server) :
       LET r == [server |-> parked[g].server, tool |-> parked[g].tool, session |-> i,
                 ticket |-> g, stage |-> "calling", spent |-> FALSE]
       IN  /\ invocations' = Append(invocations, Sent(r, g))
           /\ called' = Counted(r, g)
  /\ UNCHANGED <<registryVars, ticketVars, sessionVars, parked>>

(* Mutant: the ticket is looked at and left as it is.                      *)
CallReturnsUnspent(k) ==
  LET g == invocations[k].ticket
  IN
  /\ invocations[k].stage = "calling"
  /\ invocations' = [invocations EXCEPT
                       ![k].stage = "executing",
                       ![k].spent = phase[g] = "usable" /\ now <= lapses[g]]
  /\ UNCHANGED <<registryVars, ticketVars, sessionVars, parked, called>>

(* The tool's result has arrived and is acceptable: execute() redeems the  *)
(* ticket now, after the call, or answers that it cannot, because of the   *)
(* ticket or on grounds of its own.                                        *)
CallReturns(k) ==
  /\ invocations[k].stage = "calling"
  /\ \/ /\ Ticket!Spend(invocations[k].ticket)
        /\ invocations' = [invocations EXCEPT ![k].stage = "executing", ![k].spent = TRUE]
     \/ /\ invocations' = [invocations EXCEPT ![k].stage = "executing"]
        /\ UNCHANGED ticketVars
  /\ UNCHANGED <<registryVars, sessionVars, parked, called>>

(* A JSON-RPC error, a result that normalisation refuses, or the request's *)
(* timer: its pending entry goes, and a later answer is ignored.           *)
CallRefused(k) ==
  /\ invocations[k].stage = "calling"
  /\ invocations' = [invocations EXCEPT ![k].stage = "denied"]
  /\ UNCHANGED <<registryVars, ticketVars, sessionVars, parked, called>>

(* execute() is over: whatever it answers counts as executed, {ok: false}  *)
(* included; only if it throws is the call denied.                         *)
ExecuteReturns(k, throws) ==
  /\ invocations[k].stage = "executing"
  /\ invocations' = [invocations EXCEPT ![k].stage = IF throws THEN "denied" ELSE "executed"]
  /\ UNCHANGED <<registryVars, ticketVars, sessionVars, parked, called>>

(* Every request that is pending on the connection is rejected: by a       *)
(* malformed message, or as the process exits or the transport is closed.  *)
ConnectionFails(i, final) ==
  /\ i \in DOMAIN sessions \ down
  /\ down' = IF final THEN down \cup {i} ELSE down
  /\ listing' = listing \ {i}
  /\ invocations' = [k \in DOMAIN invocations |->
                       IF invocations[k].stage = "calling" /\ invocations[k].session = i
                       THEN [invocations[k] EXCEPT !.stage = "denied"] ELSE invocations[k]]
  /\ UNCHANGED <<registryVars, ticketVars, sessions, open, cut, parked, called>>

(* RTQ voids tickets on its own account.                                   *)
TicketVoided(g) ==
  /\ phase[g] = "usable" /\ Ticket!Void({g})
  /\ UNCHANGED <<registryVars, sessionVars, callVars>>

Tick ==
  /\ now < MaxTime
  /\ Ticket!Tick
  /\ UNCHANGED <<registryVars, sessionVars, callVars>>

Next ==
  \/ \E s \in Servers, p \in Profiles, trust \in InitialTrust : Connect(s, p, trust)
  \/ \E i \in open : Disconnect(i) \/ Discover(i)
  \/ \E s \in Servers : RevokeServer(s)
  \/ OperatorDecides
  \/ \E i \in listing : DiscoverFails(i)
  \/ \E i \in listing, T \in SUBSET Tools : \E tools \in [T -> Schemas] : Discovered(i, tools)
  \/ \E s \in Servers, t \in Tools : Invoke(s, t)
  \/ \E k \in DOMAIN invocations :
       \/ AuthorizationFails(k) \/ CallReturns(k) \/ CallRefused(k)
       \/ \E b \in BOOLEAN : Authorized(k, b) \/ ExecuteReturns(k, b)
  \/ \E g \in Tickets : SubmitApproval(g) \/ TicketVoided(g)
  \/ \E i \in DOMAIN sessions, final \in BOOLEAN : ConnectionFails(i, final)
  \/ Tick

Spec == Init /\ [][Next]_vars

-----------------------------------------------------------------------------
TypeOK ==
  /\ RegistryTypeOK
  /\ now \in 0..MaxTime
  /\ phase \in [Tickets -> {"unissued", "usable", "spent", "void"}]
  /\ lapses \in [Tickets -> Time]
  /\ Len(sessions) <= MaxSessions /\ \A i \in DOMAIN sessions : Known(sessions[i])
  /\ open \subseteq DOMAIN sessions /\ down \subseteq DOMAIN sessions
  /\ cut = DOMAIN sessions \ open
  /\ listing \subseteq DOMAIN sessions \ down
  /\ \A k \in DOMAIN invocations : invocations[k] \in Invocations
  /\ \A g \in DOMAIN parked : phase[g] # "unissued" /\ parked[g] \in [server : Servers, tool : Tools]
  /\ called \in [Tickets -> 0..MaxInvocations]

(* However often a parked ticket is approved and whatever is in flight at  *)
(* the same time, a ticket is spent by exactly one call, and only after    *)
(* its tool was called: a second call under it, which the gateway reports  *)
(* as executed too, has spent nothing.                                     *)
SpentByOneCall ==
  \A g \in Tickets :
    LET spenders == {k \in DOMAIN invocations :
                       invocations[k].spent /\ invocations[k].ticket = g}
    IN  /\ phase[g] = "spent" <=> spenders # {}
        /\ \A j, k \in spenders : j = k
        /\ spenders # {} => called[g] > 0

(* Revoking a server ends all its sessions and disconnect() ends its own:  *)
(* no invocation starts over a session that was to end, though one that    *)
(* waits for its authorization goes on.                                    *)
RevocationCutsSessions ==
  [][\A k \in DOMAIN invocations' \ DOMAIN invocations :
       invocations'[k].session \notin cut]_vars

(* gateway.ts:335 and 361: a ticket is "single-use, non-replayable": its   *)
(* tool is called once.                                                    *)
TicketCallsToolOnce == \A g \in Tickets : called[g] <= 1
=============================================================================
