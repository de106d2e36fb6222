----------------------------- MODULE RiskPolicy -----------------------------
(***************************************************************************)
(* What authorize() decides before it asks anyone: the risk engine, the    *)
(* clarification engine, the policy engine and the choice of an approval   *)
(* strategy (packages risk, clarification, policy and security).  The      *)
(* engines keep the rules a host registers; a decision reads them and      *)
(* changes nothing.                                                        *)
(***************************************************************************)
EXTENDS Naturals, Sequences, FiniteSetsExt, TLC

CONSTANTS PolicyRules,    \* the rules a host may register
          MaxRules,       \* and how many of them
          ClarifyRules,   \* clarification rules: [capability, field, accepts]
          Commands,       \* the commands that may be authorized
          Definitions     \* capability name -> [base, always, strategy]

VARIABLES rules,       \* PolicyEngine.rules, in the order of registration
          defaultMode, \* "deny" or "allow": what no rule matches
          clarify      \* ClarificationEngine.rules, one for each capability and field

riskPolicyVars == <<rules, defaultMode, clarify>>

(***************************************************************************)
(* RiskLevel: low, medium, high, critical.                                 *)
(***************************************************************************)
Low == 0
Medium == 1
High == 2
Critical == 3
Levels == Low..Critical
Unclaimed == 4  \* no claim
Custom == 5     \* a registered base of "custom"

Higher(a, b) == IF a >= b THEN a ELSE b
RaiseRisk(level, steps) == IF level + steps > Critical THEN Critical ELSE level + steps

\* A claim can only raise the level the evaluation starts from.
StartLevel(base, claimed) ==
    IF base = Critical \/ claimed = Unclaimed THEN base ELSE Higher(base, claimed)

\* Any origin but the local one raises by a step, an unknown one always.
OriginSteps(origin) == IF origin = "local" THEN 0 ELSE 1

SensitivitySteps == [none |-> 0, personal |-> 1, secret |-> 1, critical |-> 2]

ASSUME RiskPolicyConstants ==
    /\ MaxRules \in Nat
    /\ \A d \in DOMAIN Definitions : /\ Definitions[d].base \in Levels \cup {Custom}
                                    /\ Definitions[d].always \in BOOLEAN
    /\ \A c \in Commands : /\ c.capability \in DOMAIN Definitions
                           /\ c.claimed \in Levels \cup {Unclaimed}
                           /\ c.context.sensitivity \in DOMAIN SensitivitySteps
                           /\ IsFiniteSet(c.context.impacts)
    /\ \A r \in PolicyRules : r.kind = "allow" => r.risk \in Levels

\* One step for each impact: irreversible, financial, privilege, network,
\* system, and a resource under a sensitive prefix.
EvaluateRisk(base, context, claimed) ==
    RaiseRisk(StartLevel(base, claimed),
              OriginSteps(context.origin) + SensitivitySteps[context.sensitivity]
                + Cardinality(context.impacts))

BaseLevel(definition) == IF definition.base = Custom THEN Medium ELSE definition.base

(***************************************************************************)
(* Clarification: questions for the fields whose value is not accepted.    *)
(***************************************************************************)
Value(command, field) == IF field \in DOMAIN command.input THEN command.input[field] ELSE "absent"
Questions(command) ==
    {r \in clarify : r.capability = command.capability
                       /\ Value(command, r.field) \notin r.accepts}

(***************************************************************************)
(* The policy engine.  The glob of a rule is the set of capabilities it    *)
(* matches; a condition limits it to some origins, resources or levels, or *)
(* to inputs that have a field, and one that is left out limits nothing.   *)
(***************************************************************************)
Anytime == [origins |-> {}, resources |-> {}, riskAtLeast |-> Low, field |-> "any"]
Rule(kind, capabilities, when) == [kind |-> kind, capabilities |-> capabilities, when |-> when]
Deny(capabilities, when) == Rule("deny", capabilities, when)
RequireClarification(capabilities, when) == Rule("requireClarification", capabilities, when)
Override(capabilities, when) == Rule("override", capabilities, when)
\* An allowance may raise the level; Low raises none.
Allow(capabilities, when, risk) == Rule("allow", capabilities, when) @@ [risk |-> risk]
RequireApproval(capabilities, when, strategy) ==
    Rule("requireApproval", capabilities, when)
      @@ [strategy |-> IF strategy = "none" THEN "user_confirmation" ELSE strategy]
RequireVerification(capabilities, when, strategy) ==
    Rule("requireApproval", capabilities, when)
      @@ [strategy |-> IF strategy = "none" THEN "device_verification" ELSE strategy]

MatchesCondition(when, command, level) ==
    /\ when.origins = {} \/ command.origin \in when.origins
    /\ when.resources = {} \/ command.resource \in when.resources
    /\ level >= when.riskAtLeast
    /\ when.field = "any" \/ when.field \in DOMAIN command.input
Matches(rule, command, level) ==
    command.capability \in rule.capabilities /\ MatchesCondition(rule.when, command, level)

\* The first rule of one of these kinds that applies, as a sequence of one.
FirstOf(kinds, command, level) ==
    LET applies == {i \in DOMAIN rules : /\ rules[i].kind \in kinds
                                         /\ Matches(rules[i], command, level)}
    IN  IF applies = {} THEN <<>> ELSE <<rules[Min(applies)]>>

ByDefault(level) ==
    IF defaultMode = "allow" THEN [decision |-> "allow", level |-> level]
    ELSE [decision |-> "deny"]

\* Mutant: the first rule that applies decides, whatever its kind.
EvaluateFirstMatch(command, level) ==
    LET first == FirstOf({"deny", "requireClarification", "requireApproval", "allow"},
                         command, level)
    IN  IF first = <<>> THEN ByDefault(level)
        ELSE IF Head(first).kind = "deny" THEN [decision |-> "deny"]
        ELSE IF Head(first).kind = "requireClarification"
             THEN [decision |-> "clarification_required"]
        ELSE IF Head(first).kind = "requireApproval"
             THEN [decision |-> "approval_required", strategy |-> Head(first).strategy]
        ELSE [decision |-> "allow", level |-> Higher(level, Head(first).risk)]
\* PolicyEngine.evaluate: deny, then clarification, then approval, then allow;
\* override rules are only recorded, and what no rule matches goes by default.
EvaluatePolicy(command, level) ==
    LET denial == FirstOf({"deny"}, command, level)
        question == FirstOf({"requireClarification"}, command, level)
        approval == FirstOf({"requireApproval"}, command, level)
        allowance == FirstOf({"allow"}, command, level)
    IN  IF denial # <<>> THEN [decision |-> "deny"]
        ELSE IF question # <<>> THEN [decision |-> "clarification_required"]
        ELSE IF approval # <<>>
             THEN [decision |-> "approval_required", strategy |-> approval[1].strategy]
        ELSE IF allowance # <<>>
             THEN [decision |-> "allow", level |-> Higher(level, allowance[1].risk)]
        ELSE ByDefault(level)

(***************************************************************************)
(* The approval strategy of an allowed command.                            *)
(***************************************************************************)
RiskDefaultStrategy(level, always) ==
    IF always THEN "user_confirmation"
    ELSE <<"automatic", "user_confirmation", "qr", "biometric">>[level + 1]

EscalateForOrigin(strategy, origin) ==
    IF strategy = "user_confirmation" /\ origin # "local" THEN "device_verification" ELSE strategy

\* Mutant: a capability's automatic strategy is taken at every level.
StrategyAsDeclared(definition, level, origin) ==
    IF definition.always THEN EscalateForOrigin(RiskDefaultStrategy(level, TRUE), origin)
    ELSE IF definition.strategy # "none" THEN definition.strategy
    ELSE EscalateForOrigin(RiskDefaultStrategy(level, FALSE), origin)
ApprovalStrategyFor(definition, level, origin) ==
    IF definition.always THEN EscalateForOrigin(RiskDefaultStrategy(level, TRUE), origin)
    ELSE IF definition.strategy \notin {"none", "automatic"} THEN definition.strategy
    ELSE IF definition.strategy = "automatic" /\ level < High THEN "automatic"
    ELSE EscalateForOrigin(RiskDefaultStrategy(level, FALSE), origin)

(***************************************************************************)
(* authorize(), from the registered definition to handleApproval().  The   *)
(* verdict has the strategy handleApproval() is called with.               *)
(***************************************************************************)
Refused == [decision |-> "denied"]
Unclear == [decision |-> "clarification_required"]
Asks(strategy, level) == [decision |-> "approval", strategy |-> strategy, level |-> level]

RiskOf(command) ==
    EvaluateRisk(BaseLevel(Definitions[command.capability]), command.context, command.claimed)

Decide(command) ==
    LET definition == Definitions[command.capability]
        level == RiskOf(command)
        policy == EvaluatePolicy(command, level)
    IN  IF ~command.valid THEN Refused
        ELSE IF Questions(command) # {} THEN Unclear
        ELSE IF policy.decision = "deny" THEN Refused
        ELSE IF policy.decision = "clarification_required" THEN Unclear
        ELSE IF policy.decision = "approval_required" THEN Asks(policy.strategy, level)
        ELSE Asks(ApprovalStrategyFor(definition, policy.level, command.origin), policy.level)

RiskPolicyInit ==
    /\ rules = <<>>
    /\ defaultMode \in {"deny", "allow"}
    /\ clarify = {}

\* registerPolicy appends.
RegisterPolicy(rule) ==
    /\ Len(rules) < MaxRules
    /\ rules' = Append(rules, rule)
    /\ UNCHANGED <<defaultMode, clarify>>

\* registerClarification replaces the rule for the same field.
RegisterClarification(rule) ==
    /\ clarify' = {r \in clarify : <<r.capability, r.field>> # <<rule.capability, rule.field>>}
                     \cup {rule}
    /\ UNCHANGED <<rules, defaultMode>>

RiskPolicyNext ==
    \/ \E rule \in PolicyRules : RegisterPolicy(rule)
    \/ \E rule \in ClarifyRules : RegisterClarification(rule)

RiskPolicySpec == RiskPolicyInit /\ [][RiskPolicyNext]_riskPolicyVars

\* "HIGH and CRITICAL are never automatic", whatever raised the level: the
\* registered base, the context, a claim or the allowance of a policy rule; only
\* a policy rule that names the automatic strategy itself can have it so.
AutomaticOnlyBelowHigh ==
    \A c \in Commands :
        Decide(c).decision = "approval" /\ Decide(c).strategy = "automatic"
          => \/ Decide(c).level < High
             \/ \E i \in DOMAIN rules : /\ rules[i].kind = "requireApproval"
                                        /\ Matches(rules[i], c, RiskOf(c))
                                        /\ rules[i].strategy = "automatic"

\* Among rules registered in any order no allowance outweighs a restriction: what
\* a deny or clarification rule matches does not go on to an approval, and what
\* an approval rule matches is approved as one of those rules says, if at all.
RestrictionsHold ==
    \A c \in Commands :
        Decide(c).decision = "approval"
          => LET matching == {i \in DOMAIN rules : Matches(rules[i], c, RiskOf(c))}
                 kinds == {rules[i].kind : i \in matching}
             IN  /\ kinds \cap {"deny", "requireClarification"} = {}
                 /\ "requireApproval" \in kinds
                      => Decide(c).strategy \in {rules[i].strategy : i \in
                            {j \in matching : rules[j].kind = "requireApproval"}}

=============================================================================
