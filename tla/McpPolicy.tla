----------------------------- MODULE McpPolicy -----------------------------
(***************************************************************************)
(* What the MCP gateway decides about an invocation before it asks RTQ:    *)
(* the operation classes of the tool's words, the advisory severity, and   *)
(* the verdict of the operator's policy (packages/mcp risk.ts, policy.ts,  *)
(* and the calls gateway.ts makes of them).  Identifiers are opaque: a     *)
(* pattern is the set of identifiers it matches.                           *)
(***************************************************************************)
EXTENDS Naturals, Sequences, FiniteSets, TLC

CONSTANTS McpPolicies,   \* operator configurations: see Verdict
          Invocations    \* [tool, server, tenant, transport, words, baseline, verified]

VARIABLE mcpPolicy  \* the configuration of this gateway

Operations == {"read", "write", "admin", "system", "network", "credential", "unknown"}
Severities == [low |-> 0, medium |-> 1, high |-> 2, critical |-> 3]

ASSUME McpPolicyConstants ==
    \A p \in McpPolicies :
        /\ DOMAIN p = {"rules", "allowed", "denied", "explicitAdmin", "explicitWrite",
                       "transports", "gates"}
        /\ p.rules \in Seq({p.rules[i] : i \in DOMAIN p.rules})

(***************************************************************************)
(* classifyEffectiveOperations.  The words of a tool's name and            *)
(* description matter by the list they are in: destructive, writing,       *)
(* reading, administrative, or none.                                       *)
(***************************************************************************)
WordOperations(words) ==
    (IF words \cap {"destructive", "writing"} # {} THEN {"write"}
     ELSE IF "reading" \in words THEN {"read"}
     ELSE {})
      \cup (IF "administrative" \in words THEN {"admin", "credential"} ELSE {})

Classify(words, declaresNetwork, transport) ==
    LET found == WordOperations(words) \cup IF declaresNetwork THEN {"network"} ELSE {}
    IN  [operations |-> IF found = {} THEN {"unknown"} ELSE found,
         irreversible |-> "destructive" \in words,
         network |-> declaresNetwork \/ transport = "http"]

(***************************************************************************)
(* advise(): the contributions raise the baseline by one step together.    *)
(***************************************************************************)
Contributions(classified, verified) ==
    {f \in {"unclassified", "irreversible", "network", "credential", "unverified"} :
        \/ f = "unclassified" /\ classified.operations = {"unknown"}
        \/ f = "irreversible" /\ classified.irreversible
        \/ f = "network" /\ classified.network
        \/ f = "credential" /\ classified.operations \cap {"credential", "admin"} # {}
        \/ f = "unverified" /\ ~verified}
ClampSeverity(rank) == IF rank > 3 THEN 3 ELSE rank

Advise(baseline, words, declaresNetwork, verified) ==
    LET classified == Classify(words, declaresNetwork, "none")
        factors == Contributions(classified, verified)
    IN  [operations |-> classified.operations,
         factors |-> factors,
         severity |-> ClampSeverity(Severities[baseline] + IF factors = {} THEN 0 ELSE 1)]

(***************************************************************************)
(* McpPolicyEngine.evaluate.  A request says "none" where the caller gave  *)
(* nothing; a policy that sets no list of an instrument has no gate for it.*)
(***************************************************************************)
Instruments == {"tenant", "resource_scope", "model", "provider", "credential_class"}

\* resolveTarget
Target(instrument, request) ==
    IF instrument = "transport" /\ request.transport = "none" THEN "in-memory"
    ELSE request[instrument]

\* Mutant: a rule that allows ends the evaluation of rules.
RuleDeniesFirstMatch(policy, request) ==
    LET hits == SelectSeq(policy.rules, LAMBDA r : Target(r.instrument, request) \in r.pattern)
    IN  hits # <<>> /\ ~Head(hits).allow
\* Every matching rule that denies ends it; one that allows is only recorded.
RuleDenies(policy, request) ==
    \E i \in DOMAIN policy.rules :
        LET target == Target(policy.rules[i].instrument, request)
        IN  target # "none" /\ target \in policy.rules[i].pattern /\ ~policy.rules[i].allow

\* No pattern for an operation is a denial, whatever other keys the map has.
OperationDenied(policy, request, op) ==
    \/ op = "unknown"
    \/ request.tool \in policy.denied[op]
    \/ op \notin DOMAIN policy.allowed
    \/ request.tool \notin policy.allowed[op]

NeedsExplicitApproval(policy, operations) ==
    \/ policy.explicitAdmin /\ operations \cap {"admin", "system"} # {}
    \/ policy.explicitWrite /\ "write" \in operations

\* A gate asks only about what the request names.
GateDenies(policy, request, instrument) ==
    /\ instrument \in DOMAIN policy.gates
    /\ request[instrument] # "none"
    /\ request[instrument] \notin policy.gates[instrument]

Verdict(policy, request) ==
    /\ Target("transport", request) \in policy.transports
    /\ ~RuleDenies(policy, request)
    /\ \A op \in request.operations : ~OperationDenied(policy, request, op)
    /\ ~NeedsExplicitApproval(policy, request.operations)
    /\ \A i \in Instruments : ~GateDenies(policy, request, i)

\* approvalTierFor, with the defaults
ApprovalTier(severity) ==
    <<"automatic", "automatic", "user_confirmation", "device_verification">>[severity + 1]

\* The request the gateway makes of an invocation: of all it knows it passes the
\* tool, the server, the tenant and the operations, and no transport.
PolicyRequest(invocation) ==
    [tool |-> invocation.tool, server |-> invocation.server, transport |-> "none",
     tenant |-> invocation.tenant, resource_scope |-> "none", model |-> "none",
     provider |-> "none", credential_class |-> "none",
     operations |-> Advise(invocation.baseline, invocation.words, FALSE,
                           invocation.verified).operations]
Allowed(policy, invocation) == Verdict(policy, PolicyRequest(invocation))

McpPolicyInit == mcpPolicy \in McpPolicies

(* Properties *)
InsertRule(policy, at, rule) ==
    [policy EXCEPT !.rules = SubSeq(@, 1, at) \o <<rule>> \o SubSeq(@, at + 1, Len(@))]

Everything == [instrument |-> "tool", pattern |-> {i.tool : i \in Invocations}, allow |-> TRUE]

\* A rule that allows opens nothing, whatever rules it is put between: the engine
\* is fail-closed by its lists, and no allowance outweighs a denial after it.
AllowRulesOpenNothing ==
    \A invocation \in Invocations, at \in 0..Len(mcpPolicy.rules) :
        Allowed(InsertRule(mcpPolicy, at, Everything), invocation)
          => Allowed(mcpPolicy, invocation)

=============================================================================
