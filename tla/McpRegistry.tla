---------------------------- MODULE McpRegistry -----------------------------
(***************************************************************************)
(* packages/mcp/src/registry.ts, class McpRegistry: what RTQ knows of MCP  *)
(* servers and their tools.  Every method is synchronous.  A server's      *)
(* profile and a tool's schema stand for their hashes; registration dates, *)
(* severities and resources decide nothing here and are left out.          *)
(***************************************************************************)
EXTENDS Naturals, FiniteSets

CONSTANTS
  Servers, Profiles, Tools, Schemas,
  Incomplete,    \* schemas the normalisation could not map completely
  MaxEpoch       \* bound: last value of the registry's epoch

ASSUME McpRegistryAssumption ==
  /\ Incomplete \subseteq Schemas
  /\ IsFiniteSet(Tools) /\ MaxEpoch \in Nat

VARIABLES
  servers,     \* the Map: serverId -> record
  epoch,       \* bumped by security-relevant changes
  evaluated    \* history: <<server, tool, schema>> made executable under this profile

registryVars == <<servers, epoch, evaluated>>

TrustStates == {"unknown", "pending", "approved", "restricted", "revoked", "blocked"}

(* LEGAL_TRUST_TRANSITIONS.                                                *)
Legal == [unknown    |-> {"pending", "approved", "restricted", "revoked", "blocked"},
          pending    |-> {"approved", "restricted", "revoked", "blocked"},
          approved   |-> {"pending", "restricted", "revoked", "blocked"},
          restricted |-> {"pending", "approved", "revoked", "blocked"},
          revoked    |-> {"pending"},
          blocked    |-> {}]

ToolRecords == [schema : Schemas, revision : 1..MaxEpoch,
                registered : BOOLEAN, needsReevaluation : BOOLEAN]

NoTools == [t \in {} |-> {}]

RegistryInit ==
  /\ servers = [s \in {} |-> {}]
  /\ epoch = 0
  /\ evaluated = {}

Known(s) == s \in DOMAIN servers
Stored(s, r) == [x \in DOMAIN servers \cup {s} |-> IF x = s THEN r ELSE servers[x]]
Without(s) == {e \in evaluated : e[1] # s}

(* Mutant: a changed profile keeps the tools of the old one.               *)
RegisterServerKeepsTools(s, p, trust) ==
  LET changed == Known(s) /\ servers[s].profile # p
  IN
  /\ epoch < MaxEpoch
  /\ servers' = Stored(s, [profile |-> p, trust |-> trust,
                           needsReapproval |-> changed \/ trust # "approved",
                           tools |-> IF Known(s) THEN servers[s].tools ELSE NoTools])
  /\ epoch' = IF ~Known(s) \/ changed THEN epoch + 1 ELSE epoch
  /\ evaluated' = IF changed THEN Without(s) ELSE evaluated

(* registerServer, with the updateServer it tries first: the record is     *)
(* built anew from the configuration, its trust state included, and keeps  *)
(* the tools only while the profile is the same.                           *)
RegisterServer(s, p, trust) ==
  LET changed == Known(s) /\ servers[s].profile # p
  IN
  /\ epoch < MaxEpoch
  /\ servers' = Stored(s, [profile |-> p, trust |-> trust,
                           needsReapproval |-> changed \/ trust # "approved",
                           tools |-> IF Known(s) /\ ~changed THEN servers[s].tools
                                     ELSE NoTools])
  /\ epoch' = IF ~Known(s) \/ changed THEN epoch + 1 ELSE epoch
  /\ evaluated' = IF changed THEN Without(s) ELSE evaluated

MayBecome(s, to) == Known(s) /\ to \in Legal[servers[s].trust]

(* setTrustState: illegal and same-state transitions change nothing.       *)
SetTrustState(s, to) ==
  /\ MayBecome(s, to) /\ epoch < MaxEpoch
  /\ servers' = [servers EXCEPT ![s].trust = to]
  /\ epoch' = epoch + 1
  /\ UNCHANGED evaluated

(* revokeServer: nothing happens to a server that is already revoked or    *)
(* blocked.                                                                *)
Revoked(s) ==
  \/ SetTrustState(s, "revoked")
  \/ ~MayBecome(s, "revoked") /\ UNCHANGED registryVars

-----------------------------------------------------------------------------
(* What a listing of a server's tools brings: the tools whose schema is    *)
(* new to the registry.                                                    *)
Fresh(s, listing) ==
  {t \in DOMAIN listing : t \notin DOMAIN servers[s].tools
                          \/ servers[s].tools[t].schema # listing[t]}

NewTool(s, t, h) ==
  [schema |-> h, registered |-> FALSE, needsReevaluation |-> h \in Incomplete,
   revision |-> IF t \in DOMAIN servers[s].tools THEN servers[s].tools[t].revision + 1 ELSE 1]

(* registerTool, for each tool of a listing: a known tool with the same    *)
(* schema is left alone.                                                   *)
RegisterTools(s, listing) ==
  LET fresh == Fresh(s, listing) IN
  /\ Known(s) /\ epoch + Cardinality(fresh) <= MaxEpoch
  /\ servers' = [servers EXCEPT ![s].tools =
                   [t \in DOMAIN @ \cup fresh |->
                      IF t \in fresh THEN NewTool(s, t, listing[t]) ELSE @[t]]]
  /\ epoch' = epoch + Cardinality(fresh)
  /\ UNCHANGED evaluated

KnownTool(s, t) == Known(s) /\ t \in DOMAIN servers[s].tools

RegisterToolAsExecutable(s, t) ==
  /\ KnownTool(s, t) /\ epoch < MaxEpoch
  /\ servers' = [servers EXCEPT ![s].tools[t].registered = TRUE,
                                ![s].tools[t].needsReevaluation = FALSE]
  /\ epoch' = epoch + 1
  /\ evaluated' = evaluated \cup {<<s, t, servers[s].tools[t].schema>>}

-----------------------------------------------------------------------------
RegistryTypeOK ==
  /\ DOMAIN servers \subseteq Servers
  /\ \A s \in DOMAIN servers :
       /\ servers[s].profile \in Profiles /\ servers[s].trust \in TrustStates
       /\ servers[s].needsReapproval \in BOOLEAN
       /\ DOMAIN servers[s].tools \subseteq Tools
       /\ \A t \in DOMAIN servers[s].tools : servers[s].tools[t] \in ToolRecords
  /\ epoch \in 0..MaxEpoch
  /\ evaluated \subseteq Servers \X Tools \X Schemas

(* registry.ts marks a tool executable for the schema an operator has      *)
(* evaluated, under the profile the server had then: neither a change of   *)
(* schema nor one of profile carries the mark over, however often the      *)
(* server is registered and its tools are listed.                          *)
ExecutableIsAsEvaluated ==
  \A s \in DOMAIN servers : \A t \in DOMAIN servers[s].tools :
    servers[s].tools[t].registered => <<s, t, servers[s].tools[t].schema>> \in evaluated

=============================================================================
