------------------------------- MODULE Parts -------------------------------
(***************************************************************************)
(* The parts of RTQ that share no state with one another: the engines that *)
(* decide before anyone is asked (RiskPolicy, McpPolicy), the schema of an *)
(* MCP tool, a connection to an MCP server, the credential vault, the      *)
(* texts of the approval protocol on the wire, the sandbox and the pairing *)
(* of devices.  As the steps of two of them commute and no property is     *)
(* about two of them, a behaviour is of one part and the others rest in an *)
(* initial state.                                                          *)
(***************************************************************************)
EXTENDS RiskPolicy, McpPolicy, ToolSchema, McpConnection, CredentialVault, WireProtocol,
        Sandbox, Pairing

VARIABLE part  \* the part this behaviour is of

engineVars == <<riskPolicyVars, mcpPolicy, declared>>
partsVars == <<part, engineVars, connectionVars, vaultVars, wireVars, sandboxVars, pairingVars>>

RestingPolicy == CHOOSE p \in McpPolicies : TRUE
RestingSchema == CHOOSE s \in RawSchemas : TRUE
RestingHandle == CHOOSE h \in [platform : Platforms, spec : SandboxSpecs] : TRUE

Init ==
    /\ part \in {"engines", "mcpPolicy", "schema", "connection", "vault", "wire", "sandbox",
                 "pairing"}
    /\ RiskPolicyInit /\ (part # "engines" => defaultMode = "deny")
    /\ McpPolicyInit /\ (part # "mcpPolicy" => mcpPolicy = RestingPolicy)
    /\ SchemaInit /\ (part # "schema" => declared = RestingSchema)
    /\ ConnectionInit /\ (part # "connection" => transport = "stdio")
    /\ SandboxInit /\ (part # "sandbox" => handle = RestingHandle)
    /\ PairingInit /\ (part # "pairing" => confirmation)
    /\ VaultInit /\ WireInit

EnginesStep ==
    /\ part = "engines" /\ RiskPolicyNext
    /\ UNCHANGED <<part, mcpPolicy, declared, connectionVars, vaultVars, wireVars,
                   sandboxVars, pairingVars>>
ConnectionStep ==
    /\ part = "connection" /\ ConnectionNext
    /\ UNCHANGED <<part, engineVars, vaultVars, wireVars, sandboxVars, pairingVars>>
VaultStep ==
    /\ part = "vault" /\ VaultNext
    /\ UNCHANGED <<part, engineVars, connectionVars, wireVars, sandboxVars, pairingVars>>
WireStep ==
    /\ part = "wire" /\ WireNext
    /\ UNCHANGED <<part, engineVars, connectionVars, vaultVars, sandboxVars, pairingVars>>
SandboxStep ==
    /\ part = "sandbox" /\ SandboxNext
    /\ UNCHANGED <<part, engineVars, connectionVars, vaultVars, wireVars, pairingVars>>
PairingStep ==
    /\ part = "pairing" /\ PairingNext
    /\ UNCHANGED <<part, engineVars, connectionVars, vaultVars, wireVars, sandboxVars>>

Next == EnginesStep \/ ConnectionStep \/ VaultStep \/ WireStep \/ SandboxStep \/ PairingStep

Spec == Init /\ [][Next]_partsVars
=============================================================================
