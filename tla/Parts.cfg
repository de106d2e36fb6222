SPECIFICATION Spec
CONSTANTS
    PolicyRules <- MCPolicyRules
    MaxRules = 2
    ClarifyRules <- MCClarifyRules
    Commands <- MCCommands
    Definitions <- MCDefinitions
    McpPolicies <- MCMcpPolicies
    Invocations <- MCInvocations
    RawSchemas <- MCRawSchemas
    ToolArguments <- MCToolArguments
    SizeCap = 2
    PropertyCap = 2
    MaxRequests = 2
    MaxLines = 1
    Scopes <- MCScopes
    Classes = {"key"}
    MaxStored = 2
    LastInstant = 1
    ChangedValues = {"two", "absent", "null", "short", "malformed"}
    Oddities = {"one", "two", "absent", "malformed"}
    Disk <- MCDisk
    Paths <- MCPaths
    Workspace <- MCWorkspace
    Tmp <- MCTmp
    SystemDirs <- MCSystemDirs
    Platforms = {"darwin", "linux", "win32", "other"}
    SandboxSpecs <- MCSandboxSpecs
    HostNames = {"PATH", "HOME", "TOKEN", "lang"}
    SecretShaped = {"TOKEN", "Token"}
    Folded <- MCFolded
    ExtraNames <- MCExtraNames
    Executions = {first, second}
    DeviceIds = {phone, tablet}
    Configurations = {TRUE, FALSE}
    PairingTtl = 1
    MaxPairings = 2
    MaxCalls = 2
    MaxTime = 2
SYMMETRY PartsSymmetry
INVARIANTS AutomaticOnlyBelowHigh RestrictionsHold
    AllowRulesOpenNothing AcceptedIsDeclared PendingIsUnsettled ResultIsOwn
    AcceptedAsSigned AnswersAreTaken NeverFallsBack 
PROPERTIES PurgeIsInvisible RevocationReaches
    CompletedPairingIsClosed RevokedDeviceCannotPair
CHECK_DEADLOCK FALSE
