-------------------------- MODULE McpGatewayProofs --------------------------
(***************************************************************************)
(* The MCP registry and gateway for every value of their constants: their  *)
(* types, that a tool stays executable only as it was evaluated, that a    *)
(* ticket is spent by exactly one call, and that nothing starts over a     *)
(* session that was to end.                                                *)
(***************************************************************************)
EXTENDS McpGateway, FiniteSetTheorems, TLAPS

ToolTables == UNION {[T -> ToolRecords] : T \in SUBSET Tools}

ServerRecords == [profile : Profiles, trust : TrustStates,
                  needsReapproval : BOOLEAN, tools : ToolTables]

(* The functions behind RegistryTypeOK's pointwise statement.              *)
RegistryShape == servers \in [DOMAIN servers -> ServerRecords]

(* Every new revision of a tool has bumped the epoch.                      *)
RevisionsWithinEpoch ==
  \A s \in DOMAIN servers : \A t \in DOMAIN servers[s].tools :
    servers[s].tools[t].revision <= epoch

RegistryInv ==
  /\ RegistryTypeOK /\ RegistryShape
  /\ RevisionsWithinEpoch /\ ExecutableIsAsEvaluated

LEMMA ToolTableMember ==
  ASSUME NEW f \in ToolTables
  PROVE  /\ DOMAIN f \subseteq Tools
         /\ f = [t \in DOMAIN f |-> f[t]]
         /\ \A t \in DOMAIN f : f[t] \in ToolRecords
<1>1. PICK T \in SUBSET Tools : f \in [T -> ToolRecords]
  BY DEF ToolTables
<1> QED
  BY <1>1

LEMMA ToolTableMade ==
  ASSUME NEW T \in SUBSET Tools, NEW f \in [T -> ToolRecords]
  PROVE  f \in ToolTables
  BY DEF ToolTables

LEMMA RevisionType ==
  \A r \in ToolRecords : r.revision \in Nat
  BY McpRegistryAssumption DEF ToolRecords

LEMMA RegistryInvInit ==
  ASSUME RegistryInit
  PROVE  RegistryInv
<1>1. DOMAIN servers = {} /\ epoch = 0 /\ evaluated = {}
  BY DEF RegistryInit
<1>2. RegistryTypeOK /\ RevisionsWithinEpoch /\ ExecutableIsAsEvaluated
  BY <1>1, McpRegistryAssumption DEF RegistryTypeOK, RevisionsWithinEpoch, ExecutableIsAsEvaluated
<1>3. RegistryShape
  BY DEF RegistryInit, RegistryShape
<1> QED
  BY <1>2, <1>3 DEF RegistryInv

(* A registry that changes one server's record to r, and keeps the rest.   *)
LEMMA RecordStored ==
  ASSUME RegistryInv, NEW s \in Servers, NEW r \in ServerRecords,
         servers' = Stored(s, r),
         epoch' \in 0..MaxEpoch, epoch' >= epoch,
         evaluated' \subseteq Servers \X Tools \X Schemas,
         \A e \in evaluated : e[1] # s => e \in evaluated',
         \A t \in DOMAIN r.tools :
           /\ r.tools[t].revision <= epoch'
           /\ r.tools[t].registered => <<s, t, r.tools[t].schema>> \in evaluated'
  PROVE  RegistryInv' /\ DOMAIN servers \subseteq DOMAIN servers'
<1>1. /\ DOMAIN servers' = DOMAIN servers \cup {s} /\ servers'[s] = r
      /\ \A x \in DOMAIN servers : x # s => servers'[x] = servers[x]
  BY DEF Stored
<1>2. \A x \in DOMAIN servers : servers[x] \in ServerRecords
  BY DEF RegistryInv, RegistryShape
<1>3. RegistryShape'
  <2>1. servers' \in [DOMAIN servers \cup {s} -> ServerRecords]
    BY <1>2 DEF Stored
  <2> QED
    BY <2>1, <1>1 DEF RegistryShape
<1>4. /\ r.profile \in Profiles /\ r.trust \in TrustStates /\ r.needsReapproval \in BOOLEAN
      /\ DOMAIN r.tools \subseteq Tools
      /\ \A t \in DOMAIN r.tools : r.tools[t] \in ToolRecords
  <2>1. /\ r.profile \in Profiles /\ r.trust \in TrustStates /\ r.needsReapproval \in BOOLEAN
        /\ r.tools \in ToolTables
    BY DEF ServerRecords
  <2> QED
    BY <2>1, ToolTableMember
<1>5. RegistryTypeOK'
  BY <1>1, <1>4 DEF RegistryInv, RegistryTypeOK
<1>6. RevisionsWithinEpoch'
  <2> SUFFICES ASSUME NEW x \in DOMAIN servers', NEW t \in DOMAIN servers'[x].tools
               PROVE  servers'[x].tools[t].revision <= epoch'
    BY DEF RevisionsWithinEpoch
  <2>1. CASE x = s
    BY <2>1, <1>1
  <2>2. CASE x # s
    <3>1. /\ x \in DOMAIN servers /\ t \in DOMAIN servers[x].tools
          /\ servers'[x] = servers[x] /\ servers[x].tools[t].revision <= epoch
          /\ servers[x].tools[t] \in ToolRecords /\ epoch \in Nat
      BY <2>2, <1>1 DEF RegistryInv, RevisionsWithinEpoch, RegistryTypeOK
    <3>2. servers[x].tools[t].revision \in Nat /\ epoch' \in Nat
      BY <3>1, RevisionType
    <3> QED
      BY <3>1, <3>2
  <2> QED
    BY <2>1, <2>2
<1>7. ExecutableIsAsEvaluated'
  <2> SUFFICES ASSUME NEW x \in DOMAIN servers', NEW t \in DOMAIN servers'[x].tools,
                      servers'[x].tools[t].registered
               PROVE  <<x, t, servers'[x].tools[t].schema>> \in evaluated'
    BY DEF ExecutableIsAsEvaluated
  <2>1. CASE x = s
    BY <2>1, <1>1
  <2>2. CASE x # s
    BY <2>2, <1>1 DEF RegistryInv, ExecutableIsAsEvaluated
  <2> QED
    BY <2>1, <2>2
<1> QED
  BY <1>1, <1>3, <1>5, <1>6, <1>7 DEF RegistryInv

LEMMA KnownRecord ==
  ASSUME RegistryInv, NEW s \in DOMAIN servers
  PROVE  /\ s \in Servers /\ servers[s] \in ServerRecords
         /\ servers[s].tools \in ToolTables
         /\ \A t \in DOMAIN servers[s].tools :
              /\ servers[s].tools[t] \in ToolRecords
              /\ servers[s].tools[t].revision <= epoch
              /\ servers[s].tools[t].registered =>
                   <<s, t, servers[s].tools[t].schema>> \in evaluated
  BY DEF RegistryInv, RegistryShape, RegistryTypeOK, RevisionsWithinEpoch,
         ExecutableIsAsEvaluated, ServerRecords

-----------------------------------------------------------------------------
LEMMA RegisterServerKeeps ==
  ASSUME RegistryInv, NEW s \in Servers, NEW p \in Profiles, NEW trust \in TrustStates,
         RegisterServer(s, p, trust)
  PROVE  RegistryInv' /\ DOMAIN servers \subseteq DOMAIN servers' /\ s \in DOMAIN servers'
<1> DEFINE changed == Known(s) /\ servers[s].profile # p
           tools == IF Known(s) /\ ~changed THEN servers[s].tools ELSE NoTools
           r == [profile |-> p, trust |-> trust,
                 needsReapproval |-> changed \/ trust # "approved", tools |-> tools]
<1>1. /\ epoch < MaxEpoch /\ servers' = Stored(s, r)
      /\ epoch' = IF ~Known(s) \/ changed THEN epoch + 1 ELSE epoch
      /\ evaluated' = IF changed THEN Without(s) ELSE evaluated
  BY DEF RegisterServer
<1>2. epoch \in Nat /\ epoch' \in 0..MaxEpoch /\ epoch' >= epoch
  BY <1>1, McpRegistryAssumption DEF RegistryInv, RegistryTypeOK
<1>3. NoTools \in ToolTables /\ DOMAIN NoTools = {}
  <2>1. NoTools \in [{} -> ToolRecords] /\ DOMAIN NoTools = {}
    BY DEF NoTools
  <2> QED
    BY <2>1, ToolTableMade
<1>4. /\ tools \in ToolTables
      /\ \A t \in DOMAIN tools :
           /\ tools[t].revision <= epoch
           /\ tools[t].registered => ~changed /\ <<s, t, tools[t].schema>> \in evaluated
           /\ tools[t] \in ToolRecords
  BY <1>3, KnownRecord DEF Known
<1>5. r \in ServerRecords
  <2> HIDE DEF tools, changed
  <2> QED
    BY <1>4 DEF ServerRecords
<1>6. evaluated' \subseteq Servers \X Tools \X Schemas
  BY <1>1 DEF RegistryInv, RegistryTypeOK, Without
<1>7. \A e \in evaluated : e[1] # s => e \in evaluated'
  BY <1>1 DEF Without
<1>8. \A t \in DOMAIN r.tools :
        /\ r.tools[t].revision <= epoch'
        /\ r.tools[t].registered => <<s, t, r.tools[t].schema>> \in evaluated'
  <2>1. \A t \in DOMAIN tools : tools[t].revision \in Nat
    BY <1>4, RevisionType
  <2>2. ~changed => evaluated' = evaluated
    BY <1>1
  <2>3. r.tools = tools
    OBVIOUS
  <2> HIDE DEF tools, changed, r
  <2> QED
    BY <1>2, <1>4, <2>1, <2>2, <2>3
<1>9. s \in DOMAIN servers'
  BY <1>1 DEF Stored
<1> HIDE DEF tools, changed, r
<1> QED
  BY <1>1, <1>2, <1>5, <1>6, <1>7, <1>8, <1>9, RecordStored

LEMMA SetTrustStateKeeps ==
  ASSUME RegistryInv, NEW s, NEW to, SetTrustState(s, to)
  PROVE  RegistryInv' /\ DOMAIN servers \subseteq DOMAIN servers'
<1> DEFINE r == [servers[s] EXCEPT !.trust = to]
<1>1. /\ s \in DOMAIN servers /\ to \in Legal[servers[s].trust] /\ epoch < MaxEpoch
      /\ servers' = [servers EXCEPT ![s].trust = to]
      /\ epoch' = epoch + 1 /\ evaluated' = evaluated
  BY DEF SetTrustState, MayBecome, Known
<1>2. /\ servers[s] \in ServerRecords /\ s \in Servers
      /\ \A t \in DOMAIN servers[s].tools :
           /\ servers[s].tools[t] \in ToolRecords
           /\ servers[s].tools[t].revision <= epoch
           /\ servers[s].tools[t].registered =>
                <<s, t, servers[s].tools[t].schema>> \in evaluated
  BY <1>1, KnownRecord
<1>3. servers[s].trust \in TrustStates
  BY <1>2 DEF ServerRecords
<1>4. to \in TrustStates
  BY <1>1, <1>3 DEF Legal, TrustStates
<1>5. r \in ServerRecords /\ r.tools = servers[s].tools
  BY <1>2, <1>4 DEF ServerRecords
<1>6. servers' = Stored(s, r)
  BY <1>1 DEF Stored
<1>7. epoch \in Nat /\ epoch' \in 0..MaxEpoch /\ epoch' >= epoch
  BY <1>1, McpRegistryAssumption DEF RegistryInv, RegistryTypeOK
<1>8. \A t \in DOMAIN r.tools :
        /\ r.tools[t].revision <= epoch'
        /\ r.tools[t].registered => <<s, t, r.tools[t].schema>> \in evaluated'
  <2>1. \A t \in DOMAIN servers[s].tools : servers[s].tools[t].revision \in Nat
    BY <1>2, RevisionType
  <2> HIDE DEF r
  <2> QED
    BY <1>1, <1>2, <1>5, <1>7, <2>1
<1>9. evaluated' \subseteq Servers \X Tools \X Schemas
  BY <1>1 DEF RegistryInv, RegistryTypeOK
<1> HIDE DEF r
<1> QED
  BY <1>1, <1>2, <1>5, <1>6, <1>7, <1>8, <1>9, RecordStored

LEMMA RevokedKeeps ==
  ASSUME RegistryInv, NEW s, Revoked(s)
  PROVE  RegistryInv' /\ DOMAIN servers \subseteq DOMAIN servers'
<1>1. CASE SetTrustState(s, "revoked")
  BY <1>1, SetTrustStateKeeps
<1>2. CASE UNCHANGED registryVars
  BY <1>2 DEF registryVars, RegistryInv, RegistryTypeOK, RegistryShape, RevisionsWithinEpoch,
              ExecutableIsAsEvaluated
<1> QED
  BY <1>1, <1>2 DEF Revoked

LEMMA RegisterToolAsExecutableKeeps ==
  ASSUME RegistryInv, NEW s, NEW t, RegisterToolAsExecutable(s, t)
  PROVE  RegistryInv' /\ DOMAIN servers \subseteq DOMAIN servers'
<1> DEFINE old == servers[s].tools[t]
           new == [[old EXCEPT !.registered = TRUE] EXCEPT !.needsReevaluation = FALSE]
           tools == [servers[s].tools EXCEPT ![t] = new]
           r == [servers[s] EXCEPT !.tools = tools]
<1>1. /\ s \in DOMAIN servers /\ t \in DOMAIN servers[s].tools /\ epoch < MaxEpoch
      /\ epoch' = epoch + 1
      /\ evaluated' = evaluated \cup {<<s, t, old.schema>>}
  BY DEF RegisterToolAsExecutable, KnownTool, Known
<1>2. /\ servers[s] \in ServerRecords /\ s \in Servers
      /\ servers[s].tools \in ToolTables
      /\ \A u \in DOMAIN servers[s].tools :
           /\ servers[s].tools[u] \in ToolRecords
           /\ servers[s].tools[u].revision <= epoch
           /\ servers[s].tools[u].registered =>
                <<s, u, servers[s].tools[u].schema>> \in evaluated
  BY <1>1, KnownRecord
<1>3. new \in ToolRecords /\ new.schema = old.schema /\ new.revision = old.revision
  BY <1>1, <1>2 DEF ToolRecords
<1>4. /\ DOMAIN servers[s].tools \subseteq Tools
      /\ servers[s].tools = [u \in DOMAIN servers[s].tools |-> servers[s].tools[u]]
  BY <1>2, ToolTableMember
<1>5. /\ DOMAIN tools = DOMAIN servers[s].tools /\ tools[t] = new
      /\ \A u \in DOMAIN tools : u # t => tools[u] = servers[s].tools[u]
  <2> HIDE DEF new
  <2> QED
    BY <1>1
<1>6. tools \in ToolTables
  <2>1. tools \in [DOMAIN servers[s].tools -> ToolRecords]
    <3> HIDE DEF new
    <3> QED
      BY <1>2, <1>3, <1>4
  <2> HIDE DEF tools
  <2> QED
    BY <1>4, <2>1, ToolTableMade
<1>7. r \in ServerRecords /\ r.tools = tools
  <2> HIDE DEF tools
  <2> QED
    BY <1>2, <1>6 DEF ServerRecords
<1>8. servers' = Stored(s, r)
  <2>1. servers' = [servers EXCEPT ![s].tools[t].registered = TRUE,
                                   ![s].tools[t].needsReevaluation = FALSE]
    BY DEF RegisterToolAsExecutable
  <2> DEFINE mid == [servers EXCEPT ![s].tools[t].registered = TRUE]
  <2>2. servers' = [mid EXCEPT ![s].tools[t].needsReevaluation = FALSE]
    BY <2>1
  <2>3. /\ DOMAIN mid = DOMAIN servers
        /\ mid[s] = [servers[s] EXCEPT !.tools[t].registered = TRUE]
        /\ \A x \in DOMAIN servers : x # s => mid[x] = servers[x]
    BY <1>1
  <2>4. mid[s] = [servers[s] EXCEPT !.tools =
                    [servers[s].tools EXCEPT ![t] = [old EXCEPT !.registered = TRUE]]]
    BY <2>3
  <2>5. [mid[s] EXCEPT !.tools[t].needsReevaluation = FALSE] = r
    <3>1. /\ mid[s].tools = [servers[s].tools EXCEPT ![t] = [old EXCEPT !.registered = TRUE]]
          /\ mid[s].tools[t] = [old EXCEPT !.registered = TRUE]
      BY <1>1, <1>2, <2>4 DEF ServerRecords
    <3>2. [mid[s] EXCEPT !.tools[t].needsReevaluation = FALSE]
            = [mid[s] EXCEPT !.tools = [mid[s].tools EXCEPT ![t] =
                 [mid[s].tools[t] EXCEPT !.needsReevaluation = FALSE]]]
      OBVIOUS
    <3>3. [mid[s].tools EXCEPT ![t] = new] = tools
      <4> HIDE DEF new
      <4> QED
        BY <3>1
    <3>4. [mid[s] EXCEPT !.tools = tools] = r
      <4> HIDE DEF tools, mid
      <4> QED
        BY <2>4
    <3> HIDE DEF mid, tools, r
    <3> QED
      BY <3>1, <3>2, <3>3, <3>4
  <2>6. /\ servers' = [x \in DOMAIN mid |-> IF x = s THEN [mid[s] EXCEPT !.tools[t].needsReevaluation = FALSE]
                                                     ELSE mid[x]]
        /\ DOMAIN servers \cup {s} = DOMAIN mid
    <3> HIDE DEF mid, r
    <3> QED
      BY <1>1, <2>2, <2>3
  <2> HIDE DEF mid, r
  <2>7. \A x \in DOMAIN mid :
          (IF x = s THEN [mid[s] EXCEPT !.tools[t].needsReevaluation = FALSE] ELSE mid[x])
            = (IF x = s THEN r ELSE servers[x])
    BY <2>3, <2>5
  <2> QED
    BY <2>6, <2>7 DEF Stored
<1>9. epoch \in Nat /\ epoch' \in 0..MaxEpoch /\ epoch' >= epoch
  BY <1>1, McpRegistryAssumption DEF RegistryInv, RegistryTypeOK
<1>10. old.schema \in Schemas /\ t \in Tools
  BY <1>1, <1>2, <1>4 DEF ToolRecords
<1>11. evaluated' \subseteq Servers \X Tools \X Schemas
  BY <1>1, <1>2, <1>10 DEF RegistryInv, RegistryTypeOK
<1>12. \A u \in DOMAIN r.tools :
         /\ r.tools[u].revision <= epoch'
         /\ r.tools[u].registered => <<s, u, r.tools[u].schema>> \in evaluated'
  <2>1. \A u \in DOMAIN servers[s].tools : servers[s].tools[u].revision \in Nat
    BY <1>2, RevisionType
  <2> HIDE DEF r, tools, new
  <2> QED
    BY <1>1, <1>2, <1>3, <1>5, <1>7, <1>9, <2>1
<1> HIDE DEF r
<1> QED
  BY <1>1, <1>2, <1>7, <1>8, <1>9, <1>11, <1>12, RecordStored

LEMMA RegisterToolsKeeps ==
  ASSUME RegistryInv, NEW s, NEW T \in SUBSET Tools, NEW found \in [T -> Schemas],
         RegisterTools(s, found)
  PROVE  RegistryInv' /\ DOMAIN servers \subseteq DOMAIN servers'
<1> DEFINE before == servers[s].tools
           fresh == Fresh(s, found)
           tools == [t \in DOMAIN before \cup fresh |->
                       IF t \in fresh THEN NewTool(s, t, found[t]) ELSE before[t]]
           r == [servers[s] EXCEPT !.tools = tools]
<1>1. /\ s \in DOMAIN servers /\ epoch + Cardinality(fresh) <= MaxEpoch
      /\ servers' = [servers EXCEPT ![s].tools = tools]
      /\ epoch' = epoch + Cardinality(fresh) /\ evaluated' = evaluated
  BY DEF RegisterTools, Known
<1>2. /\ servers[s] \in ServerRecords /\ s \in Servers /\ before \in ToolTables
      /\ \A t \in DOMAIN before :
           /\ before[t] \in ToolRecords
           /\ before[t].revision <= epoch
           /\ before[t].registered => <<s, t, before[t].schema>> \in evaluated
  BY <1>1, KnownRecord
<1>3. fresh \subseteq T /\ fresh \subseteq Tools /\ DOMAIN before \subseteq Tools
  BY <1>2, ToolTableMember DEF Fresh
<1>4. /\ Cardinality(fresh) \in Nat
      /\ \A t \in fresh : Cardinality(fresh) # 0
  <2>1. IsFiniteSet(fresh)
    BY <1>3, FS_Subset, McpRegistryAssumption
  <2> HIDE DEF fresh
  <2> QED
    BY <2>1, FS_CardinalityType, FS_EmptySet
<1>5. /\ epoch \in Nat /\ MaxEpoch \in Nat
      /\ epoch' \in 0..MaxEpoch /\ epoch' >= epoch
      /\ \A t \in fresh : epoch' >= epoch + 1
  <2> HIDE DEF fresh
  <2> QED
    BY <1>1, <1>4, McpRegistryAssumption DEF RegistryInv, RegistryTypeOK
<1>6. \A t \in fresh : /\ NewTool(s, t, found[t]) \in ToolRecords
                        /\ NewTool(s, t, found[t]).revision <= epoch'
                        /\ ~NewTool(s, t, found[t]).registered
  <2> TAKE t \in fresh
  <2> DEFINE n == IF t \in DOMAIN before THEN before[t].revision + 1 ELSE 1
  <2>1. n \in 1..MaxEpoch /\ n <= epoch'
    <3>1. t \in DOMAIN before => before[t].revision \in Nat
      BY <1>2, RevisionType
    <3>2. t \in DOMAIN before => before[t].revision <= epoch
      BY <1>2
    <3>3. epoch' >= epoch + 1 /\ epoch' <= MaxEpoch /\ epoch' \in Nat
      BY <1>5
    <3>4. epoch \in Nat /\ MaxEpoch \in Nat
      BY <1>5
    <3> HIDE DEF fresh, before
    <3>5. CASE t \in DOMAIN before
      BY <3>1, <3>2, <3>3, <3>4, <3>5
    <3>6. CASE t \notin DOMAIN before
      BY <3>3, <3>4, <3>6
    <3> QED
      BY <3>5, <3>6
  <2>2. found[t] \in Schemas
    BY <1>3
  <2>3. NewTool(s, t, found[t]) = [schema |-> found[t], registered |-> FALSE,
                                   needsReevaluation |-> found[t] \in Incomplete,
                                   revision |-> n]
    BY DEF NewTool
  <2> HIDE DEF n, fresh, before
  <2> QED
    BY <2>1, <2>2, <2>3 DEF ToolRecords
<1>7. tools \in ToolTables
  <2>1. tools \in [DOMAIN before \cup fresh -> ToolRecords]
    <3> HIDE DEF fresh, before
    <3> QED
      BY <1>2, <1>6
  <2> HIDE DEF tools, fresh, before
  <2> QED
    BY <1>3, <2>1, ToolTableMade
<1>8. \A t \in DOMAIN tools :
        /\ tools[t].revision <= epoch'
        /\ tools[t].registered => <<s, t, tools[t].schema>> \in evaluated'
  <2>1. \A t \in DOMAIN before : before[t].revision \in Nat
    BY <1>2, RevisionType
  <2>2. \A t \in DOMAIN tools :
          \/ t \in fresh /\ tools[t] = NewTool(s, t, found[t])
          \/ t \in DOMAIN before /\ tools[t] = before[t]
    <3>1. DOMAIN tools = DOMAIN before \cup fresh
      OBVIOUS
    <3> HIDE DEF fresh, before
    <3>2. \A t \in DOMAIN before \cup fresh :
            tools[t] = IF t \in fresh THEN NewTool(s, t, found[t]) ELSE before[t]
      OBVIOUS
    <3> HIDE DEF tools
    <3> QED
      BY <3>1, <3>2
  <2>3. epoch' \in Nat
    BY <1>5
  <2> HIDE DEF tools, fresh, before
  <2> QED
    BY <1>1, <1>2, <1>5, <1>6, <2>1, <2>2, <2>3
<1>9. r \in ServerRecords /\ r.tools = tools /\ servers' = Stored(s, r)
  <2> HIDE DEF tools
  <2>1. r \in ServerRecords /\ r.tools = tools
    BY <1>2, <1>7 DEF ServerRecords
  <2>2. servers' = Stored(s, r)
    BY <1>1 DEF Stored
  <2> QED
    BY <2>1, <2>2
<1>10. evaluated' \subseteq Servers \X Tools \X Schemas
  BY <1>1 DEF RegistryInv, RegistryTypeOK
<1> HIDE DEF r, tools, fresh, before
<1> QED
  BY <1>1, <1>2, <1>5, <1>8, <1>9, <1>10, RecordStored

-----------------------------------------------------------------------------
SessionInv ==
  /\ sessions \in Seq(Servers) /\ Len(sessions) <= MaxSessions
  /\ \A i \in DOMAIN sessions : Known(sessions[i])
  /\ open \subseteq DOMAIN sessions /\ down \subseteq DOMAIN sessions
  /\ cut = DOMAIN sessions \ open
  /\ listing \subseteq DOMAIN sessions \ down

GrantInv ==
  /\ now \in 0..MaxTime
  /\ phase \in [Tickets -> {"unissued", "usable", "spent", "void"}]
  /\ lapses \in [Tickets -> Time]

Redeemed(r) == r.spent
Served(r) == r.stage \in {"calling", "executing", "executed"} \/ Redeemed(r)
Early(r) == r.stage \in {"authorizing", "parked", "calling"}

(* Whoever calls a tool, or has called it, holds a ticket the call is      *)
(* counted under; nobody has spent a ticket before its call returned, no   *)
(* two invocations have spent the same one, and what is spent was spent by *)
(* an invocation.                                                          *)
CallInv ==
  /\ invocations \in Seq(Invocations) /\ Len(invocations) <= MaxInvocations
  /\ DOMAIN parked \subseteq Tickets
  /\ \A g \in DOMAIN parked : phase[g] # "unissued" /\ parked[g] \in [server : Servers, tool : Tools]
  /\ called \in [Tickets -> Nat]
  /\ \A g \in Tickets : /\ called[g] <= Len(invocations)
                        /\ phase[g] = "unissued" => called[g] = 0
  /\ \A k \in DOMAIN invocations : Served(invocations[k]) =>
       invocations[k].ticket \in Tickets /\ called[invocations[k].ticket] > 0
  /\ \A k \in DOMAIN invocations : Redeemed(invocations[k]) =>
       phase[invocations[k].ticket] = "spent"
  /\ \A j, k \in DOMAIN invocations :
       /\ Redeemed(invocations[j]) /\ Redeemed(invocations[k])
       /\ invocations[j].ticket = invocations[k].ticket
       => j = k
  /\ \A k \in DOMAIN invocations : Redeemed(invocations[k]) => ~Early(invocations[k])
  /\ \A g \in Tickets : phase[g] = "spent" =>
       \E k \in DOMAIN invocations : Redeemed(invocations[k]) /\ invocations[k].ticket = g

IInv == RegistryInv /\ SessionInv /\ GrantInv /\ CallInv

LEMMA InitInvariant == Init => IInv
<1> SUFFICES ASSUME Init PROVE IInv
  OBVIOUS
<1>1. RegistryInv
  BY RegistryInvInit DEF Init
<1>2. SessionInv
  BY GatewayAssumption DEF Init, SessionInv
<1>3. GrantInv
  <2>1. 0 \in 0..MaxTime /\ 0 \in Time
    BY GatewayAssumption DEF Time
  <2> QED
    BY <2>1 DEF Init, GrantInv
<1>4. CallInv
  <2>1. invocations = << >> /\ Len(invocations) = 0 /\ DOMAIN invocations = {} /\ DOMAIN parked = {}
    BY DEF Init
  <2>2. invocations \in Seq(Invocations)
    BY <2>1
  <2>3. /\ called \in [Tickets -> Nat]
        /\ \A g \in Tickets : called[g] = 0 /\ phase[g] = "unissued"
    BY DEF Init
  <2> QED
    BY <2>1, <2>2, <2>3, GatewayAssumption DEF CallInv
<1> QED
  BY <1>1, <1>2, <1>3, <1>4 DEF IInv

LEMMA SessionsStay ==
  ASSUME SessionInv, DOMAIN servers \subseteq DOMAIN servers',
         UNCHANGED <<sessions, open, down, listing, cut>>
  PROVE  SessionInv'
  BY DEF SessionInv, Known

LEMMA GrantsStay ==
  ASSUME GrantInv, UNCHANGED ticketVars
  PROVE  GrantInv'
  BY DEF GrantInv, ticketVars

(* A change of the tickets that brings none back and spends none.          *)
LEMMA CallsStay ==
  ASSUME CallInv, GrantInv', UNCHANGED callVars,
         \A g \in Tickets : /\ phase'[g] = "unissued" <=> phase[g] = "unissued"
                            /\ phase[g] = "spent" <=> phase'[g] = "spent"
  PROVE  CallInv'
<1>1. /\ UNCHANGED <<parked, invocations, called>>
      /\ DOMAIN parked \subseteq Tickets
      /\ \A g \in DOMAIN parked : phase[g] # "unissued"
  BY DEF CallInv, callVars
<1>2. \A g \in DOMAIN parked' : phase'[g] # "unissued"
  BY <1>1
<1>3. \A g \in Tickets : phase'[g] = "unissued" => called'[g] = 0
  BY <1>1 DEF CallInv
<1>4. \A k \in DOMAIN invocations' : Redeemed(invocations'[k]) =>
        phase'[invocations'[k].ticket] = "spent"
  BY <1>1 DEF CallInv, Served
<1>5. \A g \in Tickets : phase'[g] = "spent" =>
        \E k \in DOMAIN invocations' : Redeemed(invocations'[k]) /\ invocations'[k].ticket = g
  BY <1>1 DEF CallInv
<1> QED
  BY <1>1, <1>2, <1>3, <1>4, <1>5 DEF CallInv

(* A change of one invocation, or a new one, which is r afterwards.        *)
LEMMA CallChanged ==
  ASSUME CallInv, GrantInv, NEW k, NEW r \in Invocations,
         invocations' \in Seq(Invocations),
         Len(invocations) <= Len(invocations'), Len(invocations') <= MaxInvocations,
         k \in DOMAIN invocations', invocations'[k] = r,
         \A j \in DOMAIN invocations' : j # k =>
           j \in DOMAIN invocations /\ invocations'[j] = invocations[j],
         DOMAIN parked' \subseteq Tickets,
         \A g \in DOMAIN parked' :
           phase'[g] # "unissued" /\ parked'[g] \in [server : Servers, tool : Tools],
         called' \in [Tickets -> Nat],
         \A g \in Tickets : /\ called[g] <= called'[g] /\ called'[g] <= Len(invocations')
                            /\ phase'[g] = "unissued" => called'[g] = 0
                            /\ phase[g] = "spent" => phase'[g] = "spent"
                            /\ phase'[g] = "spent" /\ phase[g] # "spent" =>
                                 Redeemed(r) /\ r.ticket = g,
         Served(r) => r.ticket \in Tickets /\ called'[r.ticket] > 0,
         Redeemed(r) => /\ phase'[r.ticket] = "spent" /\ ~Early(r)
                        /\ \A j \in DOMAIN invocations :
                             j # k /\ Redeemed(invocations[j]) => invocations[j].ticket # r.ticket,
         k \in DOMAIN invocations /\ Redeemed(invocations[k]) =>
           Redeemed(r) /\ r.ticket = invocations[k].ticket
  PROVE  CallInv'
<1>1. \A j \in DOMAIN invocations' : Served(invocations'[j]) =>
        invocations'[j].ticket \in Tickets /\ called'[invocations'[j].ticket] > 0
  <2> SUFFICES ASSUME NEW j \in DOMAIN invocations', j # k, Served(invocations'[j])
               PROVE  invocations'[j].ticket \in Tickets /\ called'[invocations'[j].ticket] > 0
    OBVIOUS
  <2>1. /\ invocations[j].ticket \in Tickets /\ called[invocations[j].ticket] > 0
        /\ invocations'[j] = invocations[j]
    BY DEF CallInv
  <2>2. called[invocations[j].ticket] \in Nat /\ called'[invocations[j].ticket] \in Nat
    BY <2>1 DEF CallInv
  <2> QED
    BY <2>1, <2>2
<1>2. \A j \in DOMAIN invocations' : Redeemed(invocations'[j]) =>
        phase'[invocations'[j].ticket] = "spent"
  <2> SUFFICES ASSUME NEW j \in DOMAIN invocations', j # k, Redeemed(invocations'[j])
               PROVE  phase'[invocations'[j].ticket] = "spent"
    OBVIOUS
  <2>1. /\ invocations'[j] = invocations[j] /\ phase[invocations[j].ticket] = "spent"
        /\ invocations[j].ticket \in Tickets
    BY DEF CallInv, Served
  <2> QED
    BY <2>1
<1>3. \A i, j \in DOMAIN invocations' :
       /\ Redeemed(invocations'[i]) /\ Redeemed(invocations'[j])
       /\ invocations'[i].ticket = invocations'[j].ticket
       => i = j
  <2> SUFFICES ASSUME NEW i \in DOMAIN invocations', NEW j \in DOMAIN invocations',
                      Redeemed(invocations'[i]), Redeemed(invocations'[j]),
                      invocations'[i].ticket = invocations'[j].ticket
               PROVE  i = j
    OBVIOUS
  <2>1. CASE i # k /\ j # k
    BY <2>1 DEF CallInv
  <2>2. CASE i = k \/ j = k
    BY <2>2
  <2> QED
    BY <2>1, <2>2
<1>4. \A g \in DOMAIN parked' :
        phase'[g] # "unissued" /\ parked'[g] \in [server : Servers, tool : Tools]
  OBVIOUS
<1>5. \A g \in Tickets : /\ called'[g] <= Len(invocations')
                          /\ phase'[g] = "unissued" => called'[g] = 0
  OBVIOUS
<1>6. \A j \in DOMAIN invocations' : Redeemed(invocations'[j]) => ~Early(invocations'[j])
  BY DEF CallInv
<1>7. ASSUME NEW g \in Tickets, phase'[g] = "spent"
      PROVE  \E j \in DOMAIN invocations' : Redeemed(invocations'[j]) /\ invocations'[j].ticket = g
  <2>1. CASE Redeemed(r) /\ r.ticket = g
    BY <2>1
  <2>2. CASE phase[g] = "spent"
    <3>1. PICK j \in DOMAIN invocations : Redeemed(invocations[j]) /\ invocations[j].ticket = g
      BY <2>2 DEF CallInv
    <3>2. CASE j = k
      BY <3>1, <3>2
    <3>3. CASE j # k
      <4>1. j \in DOMAIN invocations'
        BY <3>1 DEF CallInv
      <4> QED
        BY <3>1, <3>3, <4>1
    <3> QED
      BY <3>2, <3>3
  <2> QED
    BY <1>7, <2>1, <2>2
<1> QED
  BY <1>1, <1>2, <1>3, <1>4, <1>5, <1>6, <1>7 DEF CallInv

(* One invocation changes its record, and nothing else happens to calls.   *)
LEMMA RecordChanged ==
  ASSUME CallInv, GrantInv, NEW k \in DOMAIN invocations, NEW r \in Invocations,
         invocations' = [invocations EXCEPT ![k] = r],
         UNCHANGED <<parked, called>>,
         \A g \in Tickets : /\ phase'[g] = "unissued" <=> phase[g] = "unissued"
                            /\ phase[g] = "spent" => phase'[g] = "spent"
                            /\ phase'[g] = "spent" /\ phase[g] # "spent" =>
                                 Redeemed(r) /\ r.ticket = g,
         Served(r) => r.ticket \in Tickets /\ called[r.ticket] > 0,
         Redeemed(r) => /\ phase'[r.ticket] = "spent" /\ ~Early(r)
                        /\ \A j \in DOMAIN invocations :
                             j # k /\ Redeemed(invocations[j]) => invocations[j].ticket # r.ticket,
         Redeemed(invocations[k]) => Redeemed(r) /\ r.ticket = invocations[k].ticket
  PROVE  CallInv'
<1>1. /\ invocations' \in Seq(Invocations) /\ Len(invocations') = Len(invocations)
      /\ DOMAIN invocations' = DOMAIN invocations /\ invocations'[k] = r
      /\ \A j \in DOMAIN invocations : j # k => invocations'[j] = invocations[j]
  BY DEF CallInv
<1>2. Len(invocations) \in Nat /\ Len(invocations) <= MaxInvocations
  BY DEF CallInv
<1>3. /\ called' \in [Tickets -> Nat]
      /\ \A g \in Tickets : /\ called[g] \in Nat /\ called'[g] = called[g]
                            /\ called[g] <= Len(invocations)
                            /\ phase[g] = "unissued" => called[g] = 0
  BY DEF CallInv
<1>4. /\ DOMAIN parked' \subseteq Tickets
      /\ \A g \in DOMAIN parked' :
           phase'[g] # "unissued" /\ parked'[g] \in [server : Servers, tool : Tools]
  BY DEF CallInv
<1> QED
  BY <1>1, <1>2, <1>3, <1>4, CallChanged

-----------------------------------------------------------------------------
LEMMA InvocationType ==
  ASSUME CallInv, NEW k \in DOMAIN invocations
  PROVE  invocations[k] \in Invocations
  BY DEF CallInv

LEMMA ConnectKeeps ==
  ASSUME IInv, NEW s \in Servers, NEW p \in Profiles, NEW trust \in InitialTrust,
         Connect(s, p, trust)
  PROVE  IInv'
<1>1. trust \in TrustStates
  BY GatewayAssumption
<1>2. RegistryInv' /\ DOMAIN servers \subseteq DOMAIN servers' /\ s \in DOMAIN servers'
  BY <1>1, RegisterServerKeeps DEF IInv, Connect
<1>3. /\ sessions' \in Seq(Servers) /\ Len(sessions') = Len(sessions) + 1
      /\ DOMAIN sessions' = DOMAIN sessions \cup {Len(sessions) + 1}
      /\ sessions'[Len(sessions) + 1] = s
      /\ \A i \in DOMAIN sessions : sessions'[i] = sessions[i]
      /\ Len(sessions) + 1 \notin DOMAIN sessions
  BY DEF IInv, SessionInv, Connect
<1>4. SessionInv'
  <2>1. Len(sessions') <= MaxSessions
    <3>1. Len(sessions) \in Nat /\ Len(sessions) < MaxSessions
      BY DEF IInv, SessionInv, Connect
    <3> QED
      BY <1>3, <3>1, GatewayAssumption
  <2>2. \A i \in DOMAIN sessions' : sessions'[i] \in DOMAIN servers'
    BY <1>2, <1>3 DEF IInv, SessionInv, Known
  <2>3. /\ open' = open \cup {Len(sessions) + 1}
        /\ UNCHANGED <<down, listing, cut>>
    BY DEF Connect
  <2>4. /\ open \subseteq DOMAIN sessions /\ down \subseteq DOMAIN sessions
        /\ cut = DOMAIN sessions \ open /\ listing \subseteq DOMAIN sessions \ down
    BY DEF IInv, SessionInv
  <2>5. /\ open' \subseteq DOMAIN sessions' /\ down' \subseteq DOMAIN sessions'
        /\ cut' = DOMAIN sessions' \ open' /\ listing' \subseteq DOMAIN sessions' \ down'
    BY <1>3, <2>3, <2>4
  <2> QED
    BY <1>3, <2>1, <2>2, <2>5 DEF SessionInv, Known
<1>5. GrantInv' /\ CallInv'
  BY GrantsStay, CallsStay DEF IInv, Connect, ticketVars
<1> QED
  BY <1>2, <1>4, <1>5 DEF IInv

(* disconnect() and revokeServer(): sessions go, the rest stays.           *)
LEMMA CutKeeps ==
  ASSUME IInv, NEW s, NEW D \in SUBSET open, Revoked(s),
         open' = open \ D, cut' = cut \cup D,
         UNCHANGED <<ticketVars, sessions, down, listing, callVars>>
  PROVE  IInv'
<1>1. RegistryInv' /\ DOMAIN servers \subseteq DOMAIN servers'
  BY RevokedKeeps DEF IInv
<1>2. SessionInv'
  BY <1>1 DEF IInv, SessionInv, Known
<1>3. GrantInv' /\ CallInv'
  BY GrantsStay, CallsStay DEF IInv, ticketVars
<1> QED
  BY <1>1, <1>2, <1>3 DEF IInv

LEMMA OperatorDecidesKeeps ==
  ASSUME IInv, OperatorDecides
  PROVE  IInv'
<1>1. RegistryInv' /\ DOMAIN servers \subseteq DOMAIN servers'
  BY SetTrustStateKeeps, RegisterToolAsExecutableKeeps DEF IInv, OperatorDecides
<1>2. SessionInv'
  BY <1>1, SessionsStay DEF IInv, OperatorDecides, sessionVars
<1>3. GrantInv' /\ CallInv'
  BY GrantsStay, CallsStay DEF IInv, OperatorDecides, ticketVars
<1> QED
  BY <1>1, <1>2, <1>3 DEF IInv

LEMMA DiscoverKeeps ==
  ASSUME IInv, NEW i,
         \/ Discover(i) \/ DiscoverFails(i)
         \/ \E T \in SUBSET Tools : \E tools \in [T -> Schemas] : Discovered(i, tools)
  PROVE  IInv'
<1>1. RegistryInv' /\ DOMAIN servers \subseteq DOMAIN servers'
  <2>1. CASE UNCHANGED registryVars
    BY <2>1 DEF IInv, registryVars, RegistryInv, RegistryTypeOK, RegistryShape,
                RevisionsWithinEpoch, ExecutableIsAsEvaluated
  <2>2. ASSUME NEW T \in SUBSET Tools, NEW tools \in [T -> Schemas], Discovered(i, tools)
        PROVE  RegistryInv' /\ DOMAIN servers \subseteq DOMAIN servers'
    BY <2>2, RegisterToolsKeeps DEF IInv, Discovered
  <2> QED
    BY <2>1, <2>2 DEF Discover, DiscoverFails
<1>2. /\ UNCHANGED <<sessions, open, down, cut, ticketVars, callVars>>
      /\ listing' \subseteq DOMAIN sessions \ down
  BY DEF IInv, SessionInv, Discover, DiscoverFails, Discovered
<1>3. SessionInv'
  BY <1>1, <1>2 DEF IInv, SessionInv, Known
<1>4. GrantInv' /\ CallInv'
  BY <1>2, GrantsStay, CallsStay DEF IInv, ticketVars
<1> QED
  BY <1>1, <1>3, <1>4 DEF IInv

(* Steps of the invocations alone leave registry and sessions as they are. *)
LEMMA Aside ==
  ASSUME IInv, UNCHANGED <<registryVars, sessionVars>>
  PROVE  RegistryInv' /\ SessionInv'
<1>1. RegistryInv'
  BY DEF IInv, registryVars, RegistryInv, RegistryTypeOK, RegistryShape,
         RevisionsWithinEpoch, ExecutableIsAsEvaluated
<1>2. SessionInv'
  BY SessionsStay DEF IInv, sessionVars, registryVars
<1> QED
  BY <1>1, <1>2

LEMMA InvokeKeeps ==
  ASSUME IInv, NEW s \in Servers, NEW t \in Tools, Invoke(s, t)
  PROVE  IInv'
<1>1. PICK i \in FindSession(s) :
        invocations' = Append(invocations, [server |-> s, tool |-> t, session |-> i,
                                            ticket |-> 0, stage |-> "authorizing",
                                            spent |-> FALSE])
  BY DEF Invoke
<1> DEFINE r == [server |-> s, tool |-> t, session |-> i, ticket |-> 0, stage |-> "authorizing",
                 spent |-> FALSE]
           k == Len(invocations) + 1
<1>2. i \in 1..MaxSessions
  BY GatewayAssumption DEF IInv, SessionInv, FindSession, OfServer
<1>3. r \in Invocations /\ ~Served(r) /\ ~Redeemed(r)
  BY <1>2 DEF Invocations, Stages, Served, Redeemed
<1>4. /\ UNCHANGED <<phase, parked, called>> /\ Len(invocations) < MaxInvocations
      /\ UNCHANGED <<registryVars, sessionVars, ticketVars>>
  BY DEF Invoke, ticketVars
<1>5. /\ invocations \in Seq(Invocations) /\ Len(invocations) \in Nat
      /\ invocations' = Append(invocations, r)
  BY <1>1 DEF IInv, CallInv
<1> HIDE DEF r
<1>6. /\ invocations' \in Seq(Invocations) /\ Len(invocations') = k
      /\ k \in DOMAIN invocations' /\ invocations'[k] = r
      /\ \A j \in DOMAIN invocations' : j # k =>
           j \in DOMAIN invocations /\ invocations'[j] = invocations[j]
      /\ k \notin DOMAIN invocations
  BY <1>3, <1>5
<1>7. \A g \in Tickets : called[g] \in Nat /\ called[g] <= k
  BY <1>5 DEF IInv, CallInv
<1>8. Len(invocations) <= Len(invocations') /\ Len(invocations') <= MaxInvocations
  BY <1>4, <1>5, <1>6, GatewayAssumption
<1> HIDE DEF k
<1>9. CallInv'
  <2>1. /\ DOMAIN parked' \subseteq Tickets
        /\ \A g \in DOMAIN parked' :
             phase'[g] # "unissued" /\ parked'[g] \in [server : Servers, tool : Tools]
    BY <1>4 DEF IInv, CallInv
  <2>2. /\ called' \in [Tickets -> Nat]
        /\ \A g \in Tickets : /\ called[g] <= called'[g] /\ called'[g] <= Len(invocations')
                              /\ phase'[g] = "unissued" => called'[g] = 0
                              /\ phase[g] = "spent" => phase'[g] = "spent"
                              /\ phase'[g] = "spent" /\ phase[g] # "spent" =>
                                   Redeemed(r) /\ r.ticket = g
    BY <1>4, <1>6, <1>7 DEF IInv, CallInv
  <2> QED
    BY <1>3, <1>6, <1>8, <2>1, <2>2, CallChanged DEF IInv
<1> QED
  BY <1>4, <1>9, Aside, GrantsStay DEF IInv

-----------------------------------------------------------------------------
(* What a ticket operation does to the grants.                             *)
LEMMA IssueEffect ==
  ASSUME GrantInv, NEW g \in Tickets, Ticket!Issue(g, now + TicketTtl, {})
  PROVE  /\ GrantInv' /\ phase[g] = "unissued" /\ phase'[g] = "usable"
         /\ \A h \in Tickets : h # g => phase'[h] = phase[h]
<1>1. /\ phase[g] = "unissued" /\ now' = now
      /\ phase' = [h \in Tickets |-> IF h = g THEN "usable"
                                     ELSE IF h \in {} THEN "void" ELSE phase[h]]
      /\ lapses' = [h \in Tickets |-> IF h = g THEN now + TicketTtl
                                      ELSE IF h \in {} THEN 0 ELSE lapses[h]]
  BY DEF Ticket!Issue
<1>2. now + TicketTtl \in Time
  BY GatewayAssumption DEF GrantInv, Time
<1>3. GrantInv'
  BY <1>1, <1>2 DEF GrantInv
<1> QED
  BY <1>1, <1>3

LEMMA SpendEffect ==
  ASSUME GrantInv, NEW g \in Tickets, Ticket!Spend(g)
  PROVE  /\ GrantInv' /\ phase[g] = "usable" /\ phase'[g] = "spent"
         /\ \A h \in Tickets : h # g => phase'[h] = phase[h]
<1>1. /\ phase[g] = "usable" /\ now' = now
      /\ phase' = [phase EXCEPT ![g] = "spent"] /\ lapses' = [lapses EXCEPT ![g] = 0]
  BY DEF Ticket!Spend
<1>2. 0 \in Time
  BY GatewayAssumption DEF Time
<1> QED
  BY <1>1, <1>2 DEF GrantInv

LEMMA VoidEffect ==
  ASSUME GrantInv, NEW g \in Tickets, phase[g] = "usable", Ticket!Void({g})
  PROVE  /\ GrantInv' /\ phase'[g] = "void"
         /\ \A h \in Tickets : h # g => phase'[h] = phase[h]
<1>1. /\ now' = now
      /\ phase' = [h \in Tickets |-> IF h \in {g} THEN "void" ELSE phase[h]]
      /\ lapses' = [h \in Tickets |-> IF h \in {g} THEN 0 ELSE lapses[h]]
  BY DEF Ticket!Void
<1>2. 0 \in Time
  BY GatewayAssumption DEF Time
<1> QED
  BY <1>1, <1>2 DEF GrantInv

(* executeTicket() puts its call under ticket g.                           *)
LEMMA SentType ==
  ASSUME NEW r \in Invocations, ~r.spent, NEW g \in Tickets
  PROVE  /\ Sent(r, g) \in Invocations /\ Sent(r, g).ticket = g
         /\ ~Redeemed(Sent(r, g))
         /\ Served(Sent(r, g)) => r.session \notin down
<1>1. \A st \in {"denied", "calling"} :
        LET q == [[r EXCEPT !.ticket = g] EXCEPT !.stage = st]
        IN  q \in Invocations /\ q.ticket = g /\ q.stage = st /\ ~q.spent
  BY DEF Invocations, Stages
<1>2. \/ r.session \in down /\ Sent(r, g) = [[r EXCEPT !.ticket = g] EXCEPT !.stage = "denied"]
      \/ r.session \notin down /\ Sent(r, g) = [[r EXCEPT !.ticket = g] EXCEPT !.stage = "calling"]
  BY DEF Sent
<1> QED
  BY <1>1, <1>2 DEF Served, Redeemed

LEMMA CountedType ==
  ASSUME CallInv, NEW r, NEW g \in Tickets
  PROVE  /\ Counted(r, g) \in [Tickets -> Nat]
         /\ r.session \notin down => Counted(r, g)[g] = called[g] + 1
         /\ Counted(r, g)[g] \in {called[g], called[g] + 1}
         /\ \A h \in Tickets : h # g => Counted(r, g)[h] = called[h]
  BY DEF CallInv, Counted

LEMMA AuthorizedKeeps ==
  ASSUME IInv, NEW k \in DOMAIN invocations, NEW b \in BOOLEAN, Authorized(k, b)
  PROVE  IInv'
<1> DEFINE r == invocations[k]
<1>1. PICK g \in Tickets :
        /\ Ticket!Issue(g, now + TicketTtl, {})
        /\ IF b
           THEN /\ parked' = [x \in DOMAIN parked \cup {g} |->
                                IF x = g THEN [server |-> r.server, tool |-> r.tool]
                                ELSE parked[x]]
                /\ invocations' = [invocations EXCEPT ![k].stage = "parked", ![k].ticket = g]
                /\ UNCHANGED called
           ELSE /\ invocations' = [invocations EXCEPT ![k] = Sent(r, g)]
                /\ called' = Counted(r, g)
                /\ UNCHANGED parked
  BY DEF Authorized
<1>2. UNCHANGED <<registryVars, sessionVars>>
  BY DEF Authorized
<1>3. /\ GrantInv' /\ phase[g] = "unissued" /\ phase'[g] = "usable"
      /\ \A h \in Tickets : h # g => phase'[h] = phase[h]
  BY <1>1, IssueEffect DEF IInv
<1>4. /\ r \in Invocations /\ k \in 1..Len(invocations) /\ Len(invocations) \in Nat
      /\ called[g] = 0 /\ ~r.spent
  BY <1>3 DEF IInv, CallInv, Authorized, Redeemed, Early
<1> DEFINE q == IF b THEN [[r EXCEPT !.stage = "parked"] EXCEPT !.ticket = g] ELSE Sent(r, g)
<1>5. /\ q \in Invocations /\ ~Redeemed(q)
      /\ Served(q) => ~b /\ q.ticket = g /\ r.session \notin down
  <2>1. CASE b
    <3>1. q = [[r EXCEPT !.stage = "parked"] EXCEPT !.ticket = g]
      BY <2>1
    <3> QED
      BY <1>4, <2>1, <3>1 DEF Invocations, Stages, Served, Redeemed
  <2>2. CASE ~b
    BY <1>4, <2>2, SentType
  <2> QED
    BY <2>1, <2>2
<1>6. invocations' = [invocations EXCEPT ![k] = q]
  <2>1. CASE b
    <3> DEFINE mid == [invocations EXCEPT ![k].stage = "parked"]
    <3>1. invocations' = [mid EXCEPT ![k].ticket = g]
      BY <1>1, <2>1
    <3>2. mid[k] = [r EXCEPT !.stage = "parked"] /\ mid = [invocations EXCEPT ![k] = mid[k]]
      BY DEF IInv, CallInv
    <3>3. [mid EXCEPT ![k].ticket = g] = [mid EXCEPT ![k] = [mid[k] EXCEPT !.ticket = g]]
      OBVIOUS
    <3>4. [mid[k] EXCEPT !.ticket = g] = q
      BY <2>1, <3>2
    <3>5. invocations' = [mid EXCEPT ![k] = q]
      BY <3>1, <3>3, <3>4
    <3> HIDE DEF q
    <3> QED
      BY <3>5 DEF IInv, CallInv
  <2>2. CASE ~b
    BY <1>1, <2>2
  <2> QED
    BY <2>1, <2>2
<1> HIDE DEF q
<1>7. /\ invocations' \in Seq(Invocations) /\ Len(invocations') = Len(invocations)
      /\ DOMAIN invocations' = DOMAIN invocations /\ invocations'[k] = q
      /\ \A j \in DOMAIN invocations : j # k => invocations'[j] = invocations[j]
  BY <1>5, <1>6 DEF IInv, CallInv
<1>8. /\ called' \in [Tickets -> Nat]
      /\ ~b /\ r.session \notin down => called'[g] = 1
      /\ called'[g] \in {0, 1}
      /\ \A h \in Tickets : h # g => called'[h] = called[h]
  <2>1. CASE b
    BY <1>1, <1>4, <2>1 DEF IInv, CallInv
  <2>2. CASE ~b
    <3>1. called' = Counted(r, g)
      BY <1>1, <2>2
    <3> QED
      BY <1>4, <3>1, CountedType DEF IInv
  <2> QED
    BY <2>1, <2>2
<1>9. \A h \in Tickets : /\ called[h] <= called'[h] /\ called'[h] <= Len(invocations')
                         /\ phase'[h] = "unissued" => called'[h] = 0
                         /\ phase[h] = "spent" => phase'[h] = "spent"
                         /\ phase'[h] = "spent" /\ phase[h] # "spent" =>
                              Redeemed(q) /\ q.ticket = h
  <2>1. \A h \in Tickets : /\ called[h] \in Nat /\ called[h] <= Len(invocations)
                           /\ phase[h] = "unissued" => called[h] = 0
    BY DEF IInv, CallInv
  <2> QED
    BY <1>3, <1>4, <1>7, <1>8, <2>1
<1>10. /\ DOMAIN parked' \subseteq Tickets
       /\ \A h \in DOMAIN parked' :
            phase'[h] # "unissued" /\ parked'[h] \in [server : Servers, tool : Tools]
  <2>1. /\ DOMAIN parked \subseteq Tickets
        /\ \A h \in DOMAIN parked :
             phase[h] # "unissued" /\ parked[h] \in [server : Servers, tool : Tools]
    BY DEF IInv, CallInv
  <2>2. [server |-> r.server, tool |-> r.tool] \in [server : Servers, tool : Tools]
    BY <1>4 DEF Invocations
  <2>3. CASE b
    <3>1. /\ DOMAIN parked' = DOMAIN parked \cup {g}
          /\ parked'[g] = [server |-> r.server, tool |-> r.tool]
          /\ \A h \in DOMAIN parked : h # g => parked'[h] = parked[h]
      BY <1>1, <2>3
    <3> QED
      BY <1>3, <2>1, <2>2, <3>1
  <2>4. CASE ~b
    BY <1>1, <1>3, <2>1, <2>4
  <2> QED
    BY <2>3, <2>4
<1>11. Len(invocations') <= MaxInvocations /\ Len(invocations) <= Len(invocations')
  BY <1>4, <1>7 DEF IInv, CallInv
<1>12. Served(q) => q.ticket \in Tickets /\ called'[q.ticket] > 0
  BY <1>5, <1>8
<1>13. CallInv'
  <2>1. ~Redeemed(invocations[k])
    BY <1>4 DEF Redeemed
  <2> HIDE DEF r
  <2> QED
    BY <2>1, <1>5, <1>7, <1>8, <1>9, <1>10, <1>11, <1>12, CallChanged DEF IInv
<1> QED
  BY <1>2, <1>3, <1>13, Aside DEF IInv

LEMMA SubmitApprovalKeeps ==
  ASSUME IInv, NEW g \in Tickets, SubmitApproval(g)
  PROVE  IInv'
<1>1. PICK i \in FindSession(parked[g].server) :
        LET r == [server |-> parked[g].server, tool |-> parked[g].tool, session |-> i,
                  ticket |-> g, stage |-> "calling", spent |-> FALSE]
        IN  invocations' = Append(invocations, Sent(r, g)) /\ called' = Counted(r, g)
  BY DEF SubmitApproval
<1> DEFINE r == [server |-> parked[g].server, tool |-> parked[g].tool, session |-> i,
                 ticket |-> g, stage |-> "calling", spent |-> FALSE]
           q == Sent(r, g)
           k == Len(invocations) + 1
<1>2. /\ g \in DOMAIN parked /\ Len(invocations) < MaxInvocations
      /\ UNCHANGED <<registryVars, ticketVars, sessionVars, parked>>
  BY DEF SubmitApproval
<1>3. /\ phase[g] # "unissued" /\ parked[g] \in [server : Servers, tool : Tools]
      /\ i \in 1..MaxSessions
  BY <1>2, GatewayAssumption DEF IInv, SessionInv, CallInv, FindSession, OfServer
<1>4. r \in Invocations /\ ~r.spent
  BY <1>3 DEF Invocations, Stages
<1>5. /\ q \in Invocations /\ ~Redeemed(q) /\ q.ticket = g
      /\ Served(q) => r.session \notin down
  <2> HIDE DEF r
  <2> QED
    BY <1>4, SentType
<1>6. invocations' = Append(invocations, q) /\ called' = Counted(r, g)
  BY <1>1
<1> HIDE DEF q, r
<1>7. /\ invocations \in Seq(Invocations) /\ Len(invocations) \in Nat
  BY DEF IInv, CallInv
<1>8. /\ invocations' \in Seq(Invocations) /\ Len(invocations') = k
      /\ k \in DOMAIN invocations' /\ invocations'[k] = q
      /\ \A j \in DOMAIN invocations' : j # k =>
           j \in DOMAIN invocations /\ invocations'[j] = invocations[j]
      /\ k \notin DOMAIN invocations
  BY <1>5, <1>6, <1>7
<1>9. Len(invocations) <= Len(invocations') /\ Len(invocations') <= MaxInvocations
  BY <1>2, <1>7, <1>8, GatewayAssumption
<1>10. /\ called' \in [Tickets -> Nat]
       /\ r.session \notin down => called'[g] = called[g] + 1
       /\ called'[g] \in {called[g], called[g] + 1}
       /\ \A h \in Tickets : h # g => called'[h] = called[h]
  BY <1>6, CountedType DEF IInv
<1>11. \A h \in Tickets : /\ called[h] \in Nat /\ called[h] <= Len(invocations)
                          /\ phase[h] = "unissued" => called[h] = 0
  BY DEF IInv, CallInv
<1>12. \A h \in Tickets : /\ called[h] <= called'[h] /\ called'[h] <= Len(invocations')
                          /\ phase'[h] = "unissued" => called'[h] = 0
                          /\ phase[h] = "spent" => phase'[h] = "spent"
                          /\ phase'[h] = "spent" /\ phase[h] # "spent" =>
                               Redeemed(q) /\ q.ticket = h
  BY <1>2, <1>3, <1>7, <1>8, <1>10, <1>11 DEF ticketVars
<1>13. /\ DOMAIN parked' \subseteq Tickets
       /\ \A h \in DOMAIN parked' :
            phase'[h] # "unissued" /\ parked'[h] \in [server : Servers, tool : Tools]
  BY <1>2 DEF IInv, CallInv, ticketVars
<1>14. Served(q) => q.ticket \in Tickets /\ called'[q.ticket] > 0
  BY <1>5, <1>10, <1>11
<1> HIDE DEF k
<1>15. CallInv'
  BY <1>5, <1>8, <1>9, <1>10, <1>12, <1>13, <1>14, CallChanged DEF IInv
<1> QED
  BY <1>2, <1>15, Aside, GrantsStay DEF IInv

(* An invocation moves on to stage st without a ticket operation.          *)
LEMMA StageKeeps ==
  ASSUME IInv, NEW k \in DOMAIN invocations, NEW st \in {"denied", "executing", "executed"},
         st = "denied" \/ invocations[k].stage \in {"calling", "executing"},
         invocations' = [invocations EXCEPT ![k].stage = st],
         UNCHANGED <<registryVars, ticketVars, sessionVars, parked, called>>
  PROVE  IInv'
<1> DEFINE r == [invocations[k] EXCEPT !.stage = st]
<1>1. invocations[k] \in Invocations
  BY InvocationType DEF IInv
<1>2. /\ r \in Invocations /\ r.ticket = invocations[k].ticket /\ r.stage = st
      /\ r.spent = invocations[k].spent
  BY <1>1 DEF Invocations, Stages
<1>3. invocations' = [invocations EXCEPT ![k] = r]
  OBVIOUS
<1> HIDE DEF r
<1>4. /\ Served(r) => Served(invocations[k])
      /\ Redeemed(r) <=> Redeemed(invocations[k])
      /\ ~Early(r)
  BY <1>2 DEF Served, Redeemed, Early
<1>5. Served(r) => r.ticket \in Tickets /\ called[r.ticket] > 0
  BY <1>2, <1>4 DEF IInv, CallInv
<1>6. UNCHANGED phase
  BY DEF ticketVars
<1>7. Redeemed(r) => /\ phase'[r.ticket] = "spent" /\ ~Early(r)
                     /\ \A j \in DOMAIN invocations :
                          j # k /\ Redeemed(invocations[j]) => invocations[j].ticket # r.ticket
  BY <1>2, <1>4, <1>6 DEF IInv, CallInv
<1>8. \A h \in Tickets : /\ phase'[h] = "unissued" <=> phase[h] = "unissued"
                         /\ phase[h] = "spent" => phase'[h] = "spent"
                         /\ phase'[h] = "spent" /\ phase[h] # "spent" =>
                              Redeemed(r) /\ r.ticket = h
  BY <1>6
<1>9. Redeemed(invocations[k]) => Redeemed(r) /\ r.ticket = invocations[k].ticket
  BY <1>2, <1>4
<1>10. CallInv'
  <2>1. CallInv /\ GrantInv /\ r \in Invocations /\ UNCHANGED <<parked, called>>
    BY <1>2 DEF IInv
  <2> QED
    BY <1>3, <1>5, <1>7, <1>8, <1>9, <2>1, RecordChanged
<1> QED
  BY <1>10, Aside, GrantsStay DEF IInv

LEMMA CallReturnsKeeps ==
  ASSUME IInv, NEW k \in DOMAIN invocations, CallReturns(k)
  PROVE  IInv'
<1> DEFINE g == invocations[k].ticket
           r == [[invocations[k] EXCEPT !.stage = "executing"] EXCEPT !.spent = TRUE]
<1>1. /\ invocations[k].stage = "calling"
      /\ UNCHANGED <<registryVars, sessionVars, parked, called>>
  BY DEF CallReturns
<1>2. /\ invocations[k] \in Invocations /\ g \in Tickets /\ called[g] > 0
      /\ ~Redeemed(invocations[k])
  BY <1>1 DEF IInv, CallInv, Served, Early
<1>3. CASE /\ Ticket!Spend(g)
           /\ invocations' = [invocations EXCEPT ![k].stage = "executing", ![k].spent = TRUE]
  <2>1. /\ GrantInv' /\ phase[g] = "usable" /\ phase'[g] = "spent"
        /\ \A h \in Tickets : h # g => phase'[h] = phase[h]
    BY <1>2, <1>3, SpendEffect DEF IInv
  <2>2. r \in Invocations /\ r.ticket = g /\ r.stage = "executing" /\ r.spent
    BY <1>2 DEF Invocations, Stages
  <2>3. invocations' = [invocations EXCEPT ![k] = r]
    <3> DEFINE mid == [invocations EXCEPT ![k].stage = "executing"]
    <3>1. invocations' = [mid EXCEPT ![k].spent = TRUE]
      BY <1>3
    <3>2. mid[k] = [invocations[k] EXCEPT !.stage = "executing"]
          /\ mid = [invocations EXCEPT ![k] = mid[k]]
      BY DEF IInv, CallInv
    <3>3. [mid EXCEPT ![k].spent = TRUE] = [mid EXCEPT ![k] = [mid[k] EXCEPT !.spent = TRUE]]
      OBVIOUS
    <3>4. [mid[k] EXCEPT !.spent = TRUE] = r
      BY <3>2
    <3>5. invocations' = [mid EXCEPT ![k] = r]
      BY <3>1, <3>3, <3>4
    <3> HIDE DEF r
    <3> QED
      BY <3>5 DEF IInv, CallInv
  <2>4. \A j \in DOMAIN invocations : Redeemed(invocations[j]) => invocations[j].ticket # g
    BY <2>1 DEF IInv, CallInv
  <2>5. Redeemed(r) /\ ~Early(r)
    BY <2>2 DEF Redeemed, Early
  <2>6. \A h \in Tickets : /\ phase'[h] = "unissued" <=> phase[h] = "unissued"
                           /\ phase[h] = "spent" => phase'[h] = "spent"
                           /\ phase'[h] = "spent" /\ phase[h] # "spent" =>
                                Redeemed(r) /\ r.ticket = h
    BY <2>1, <2>2, <2>5
  <2>7. UNCHANGED <<parked, called>>
    BY <1>1
  <2> HIDE DEF r, g
  <2>8. CallInv'
    BY <1>2, <2>1, <2>2, <2>3, <2>4, <2>5, <2>6, <2>7, RecordChanged DEF IInv
  <2> QED
    BY <1>1, <2>1, <2>8, Aside DEF IInv
<1>4. CASE /\ invocations' = [invocations EXCEPT ![k].stage = "executing"]
           /\ UNCHANGED ticketVars
  BY <1>1, <1>4, StageKeeps
<1> QED
  BY <1>3, <1>4 DEF CallReturns

LEMMA ConnectionFailsKeeps ==
  ASSUME IInv, NEW i, NEW final, ConnectionFails(i, final)
  PROVE  IInv'
<1>1. /\ i \in DOMAIN sessions \ down
      /\ down' = IF final THEN down \cup {i} ELSE down
      /\ listing' = listing \ {i}
      /\ invocations' = [k \in DOMAIN invocations |->
                           IF invocations[k].stage = "calling" /\ invocations[k].session = i
                           THEN [invocations[k] EXCEPT !.stage = "denied"] ELSE invocations[k]]
      /\ UNCHANGED <<registryVars, ticketVars, sessions, open, cut, parked, called>>
  BY DEF ConnectionFails
<1>2. RegistryInv'
  BY <1>1 DEF IInv, registryVars, RegistryInv, RegistryTypeOK, RegistryShape,
              RevisionsWithinEpoch, ExecutableIsAsEvaluated
<1>3. SessionInv'
  BY <1>1 DEF IInv, SessionInv, Known, registryVars
<1>4. GrantInv'
  BY <1>1, GrantsStay DEF IInv
<1>5. DOMAIN invocations' = DOMAIN invocations
  BY <1>1
<1>6. \A k \in DOMAIN invocations :
        \/ invocations'[k] = invocations[k]
        \/ /\ invocations'[k] \in Invocations
           /\ ~Served(invocations'[k]) /\ ~Redeemed(invocations'[k])
           /\ ~Redeemed(invocations[k])
  <2> TAKE k \in DOMAIN invocations
  <2>1. invocations[k] \in Invocations
    BY InvocationType DEF IInv
  <2>2. \/ invocations'[k] = invocations[k]
        \/ /\ invocations[k].stage = "calling"
           /\ invocations'[k] = [invocations[k] EXCEPT !.stage = "denied"]
    BY <1>1
  <2>3. /\ [invocations[k] EXCEPT !.stage = "denied"] \in Invocations
        /\ [invocations[k] EXCEPT !.stage = "denied"].stage = "denied"
        /\ [invocations[k] EXCEPT !.stage = "denied"].spent = invocations[k].spent
    BY <2>1 DEF Invocations, Stages
  <2>4. invocations[k].stage = "calling" => ~Redeemed(invocations[k])
    BY DEF IInv, CallInv, Early
  <2> QED
    BY <2>2, <2>3, <2>4 DEF Served, Redeemed
<1>7. invocations' \in Seq(Invocations) /\ Len(invocations') = Len(invocations)
  <2>1. DOMAIN invocations = 1..Len(invocations) /\ Len(invocations) \in Nat
    BY DEF IInv, CallInv
  <2>2. \A k \in DOMAIN invocations : invocations'[k] \in Invocations
    BY <1>6, InvocationType DEF IInv
  <2>3. invocations' \in [1..Len(invocations) -> Invocations]
    BY <1>1, <1>5, <2>1, <2>2
  <2> QED
    BY <2>1, <2>3
<1>8. UNCHANGED <<phase, parked, called>>
  BY <1>1 DEF ticketVars
<1>9. \A k \in DOMAIN invocations : Redeemed(invocations[k]) => invocations'[k] = invocations[k]
  BY <1>6
<1>10. \A g \in Tickets : phase'[g] = "spent" =>
         \E k \in DOMAIN invocations' : Redeemed(invocations'[k]) /\ invocations'[k].ticket = g
  <2> SUFFICES ASSUME NEW g \in Tickets, phase[g] = "spent"
               PROVE  \E k \in DOMAIN invocations' :
                        Redeemed(invocations'[k]) /\ invocations'[k].ticket = g
    BY <1>8
  <2>1. PICK k \in DOMAIN invocations : Redeemed(invocations[k]) /\ invocations[k].ticket = g
    BY DEF IInv, CallInv
  <2> QED
    BY <2>1, <1>5, <1>9
<1>11. CallInv'
  BY <1>5, <1>6, <1>7, <1>8, <1>10 DEF IInv, CallInv
<1> QED
  BY <1>2, <1>3, <1>4, <1>11 DEF IInv

LEMMA TicketStepKeeps ==
  ASSUME IInv, Tick \/ \E g \in Tickets : TicketVoided(g)
  PROVE  IInv'
<1>1. UNCHANGED <<registryVars, sessionVars, callVars>>
  BY DEF Tick, TicketVoided
<1>2. /\ GrantInv'
      /\ \A h \in Tickets : /\ phase'[h] = "unissued" <=> phase[h] = "unissued"
                            /\ phase[h] = "spent" <=> phase'[h] = "spent"
  <2>1. CASE Tick
    <3>1. now < MaxTime /\ now' = now + 1 /\ UNCHANGED <<phase, lapses>>
      BY <2>1 DEF Tick, Ticket!Tick
    <3> QED
      BY <3>1, GatewayAssumption DEF IInv, GrantInv
  <2>2. ASSUME NEW g \in Tickets, TicketVoided(g)
        PROVE  /\ GrantInv'
               /\ \A h \in Tickets : /\ phase'[h] = "unissued" <=> phase[h] = "unissued"
                                     /\ phase[h] = "spent" <=> phase'[h] = "spent"
    <3>1. phase[g] = "usable" /\ Ticket!Void({g})
      BY <2>2 DEF TicketVoided
    <3>2. /\ GrantInv' /\ phase'[g] = "void"
          /\ \A h \in Tickets : h # g => phase'[h] = phase[h]
      BY <3>1, VoidEffect DEF IInv
    <3> QED
      BY <3>1, <3>2
  <2> QED
    BY <2>1, <2>2
<1>3. CallInv'
  BY <1>1, <1>2, CallsStay DEF IInv
<1> QED
  BY <1>1, <1>2, <1>3, Aside DEF IInv

-----------------------------------------------------------------------------
LEMMA StepInvariant == IInv /\ [Next]_vars => IInv'
<1> SUFFICES ASSUME IInv, [Next]_vars PROVE IInv'
  OBVIOUS
<1>1. CASE UNCHANGED vars
  <2>1. UNCHANGED <<registryVars, sessionVars, ticketVars, callVars>>
    BY <1>1 DEF vars
  <2>2. CallInv'
    BY <2>1, GrantsStay, CallsStay DEF IInv, ticketVars
  <2> QED
    BY <2>1, <2>2, Aside, GrantsStay DEF IInv
<1>2. ASSUME NEW s \in Servers, NEW p \in Profiles, NEW trust \in InitialTrust,
             Connect(s, p, trust)
      PROVE  IInv'
  BY <1>2, ConnectKeeps
<1>3. ASSUME NEW i \in open, Disconnect(i)
      PROVE  IInv'
  <2>1. /\ Revoked(sessions[i]) /\ open' = open \ {i} /\ cut' = cut \cup {i}
        /\ UNCHANGED <<ticketVars, sessions, down, listing, callVars>>
    BY <1>3 DEF Disconnect
  <2>2. {i} \in SUBSET open
    OBVIOUS
  <2> QED
    BY <2>1, <2>2, CutKeeps
<1>4. ASSUME NEW s \in Servers, RevokeServer(s)
      PROVE  IInv'
  <2>1. /\ Revoked(s) /\ open' = open \ OfServer(s) /\ cut' = cut \cup OfServer(s)
        /\ UNCHANGED <<ticketVars, sessions, down, listing, callVars>>
    BY <1>4 DEF RevokeServer
  <2>2. OfServer(s) \in SUBSET open
    BY DEF OfServer
  <2> QED
    BY <2>1, <2>2, CutKeeps
<1>5. CASE OperatorDecides
  BY <1>5, OperatorDecidesKeeps
<1>6. ASSUME NEW i, \/ Discover(i) \/ DiscoverFails(i)
                    \/ \E T \in SUBSET Tools : \E tools \in [T -> Schemas] : Discovered(i, tools)
      PROVE  IInv'
  BY <1>6, DiscoverKeeps
<1>7. ASSUME NEW s \in Servers, NEW t \in Tools, Invoke(s, t)
      PROVE  IInv'
  BY <1>7, InvokeKeeps
<1>8. ASSUME NEW k \in DOMAIN invocations, NEW b \in BOOLEAN, Authorized(k, b)
      PROVE  IInv'
  BY <1>8, AuthorizedKeeps
<1>9. ASSUME NEW k \in DOMAIN invocations, AuthorizationFails(k) \/ CallRefused(k)
      PROVE  IInv'
  BY <1>9, StageKeeps DEF AuthorizationFails, CallRefused
<1>10. ASSUME NEW k \in DOMAIN invocations, NEW b \in BOOLEAN, ExecuteReturns(k, b)
       PROVE  IInv'
  <2>1. CASE b
    BY <1>10, <2>1, StageKeeps DEF ExecuteReturns
  <2>2. CASE ~b
    BY <1>10, <2>2, StageKeeps DEF ExecuteReturns
  <2> QED
    BY <2>1, <2>2
<1>11. ASSUME NEW k \in DOMAIN invocations, CallReturns(k)
       PROVE  IInv'
  BY <1>11, CallReturnsKeeps
<1>12. ASSUME NEW g \in Tickets, SubmitApproval(g)
       PROVE  IInv'
  BY <1>12, SubmitApprovalKeeps
<1>13. ASSUME NEW i, NEW final, ConnectionFails(i, final)
       PROVE  IInv'
  BY <1>13, ConnectionFailsKeeps
<1>14. CASE Tick \/ \E g \in Tickets : TicketVoided(g)
  BY <1>14, TicketStepKeeps
<1> QED
  BY <1>1, <1>2, <1>3, <1>4, <1>5, <1>6, <1>7, <1>8, <1>9, <1>10, <1>11, <1>12, <1>13, <1>14
  DEF Next

(* The invariant the results below follow from holds in every state of the *)
(* gateway (mcp/src/gateway.ts, registry.ts).                              *)
THEOREM Invariance == Spec => []IInv
  BY InitInvariant, StepInvariant, PTL DEF Spec

(* The gateway and its registry keep their types, and a session is in the  *)
(* Map exactly as long as nothing was to end it (gateway.ts:89-560).       *)
THEOREM TypeCorrect == Spec => []TypeOK
<1>1. IInv => TypeOK
  <2> SUFFICES ASSUME IInv PROVE TypeOK
    OBVIOUS
  <2>1. RegistryTypeOK
    BY DEF IInv, RegistryInv
  <2>2. called \in [Tickets -> 0..MaxInvocations]
    BY GatewayAssumption DEF IInv, CallInv
  <2>3. \A k \in DOMAIN invocations : invocations[k] \in Invocations
    BY InvocationType DEF IInv
  <2> QED
    BY <2>1, <2>2, <2>3 DEF IInv, SessionInv, GrantInv, CallInv, TypeOK
<1> QED
  BY <1>1, Invariance, PTL

(* A tool the registry calls executable has the schema an operator         *)
(* evaluated under the server's profile (registry.ts:164-330), for any     *)
(* number of servers, tools, profiles and schemas.                         *)
THEOREM ExecutableWasEvaluated == Spec => []ExecutableIsAsEvaluated
<1>1. IInv => ExecutableIsAsEvaluated
  BY DEF IInv, RegistryInv
<1> QED
  BY <1>1, Invariance, PTL

(* A ticket is spent by exactly one call, and only after its tool was      *)
(* called, for any number of tickets and calls and whatever execute()      *)
(* answers (executeTicket, gateway.ts:401-472).                            *)
THEOREM SpentOnce == Spec => []SpentByOneCall
<1>1. IInv => SpentByOneCall
  <2> SUFFICES ASSUME IInv, NEW g \in Tickets
               PROVE  LET spenders == {k \in DOMAIN invocations :
                                         invocations[k].spent /\ invocations[k].ticket = g}
                      IN  /\ phase[g] = "spent" <=> spenders # {}
                          /\ \A j, k \in spenders : j = k
                          /\ spenders # {} => called[g] > 0
    BY DEF SpentByOneCall
  <2> DEFINE spenders == {k \in DOMAIN invocations :
                            invocations[k].spent /\ invocations[k].ticket = g}
  <2>1. phase[g] = "spent" => spenders # {}
    BY DEF IInv, CallInv, Redeemed
  <2>2. \A k \in spenders : phase[g] = "spent" /\ called[g] > 0
    BY DEF IInv, CallInv, Redeemed, Served
  <2>3. \A j, k \in spenders : j = k
    BY DEF IInv, CallInv, Redeemed
  <2> HIDE DEF spenders
  <2>4. spenders # {} => \E k : k \in spenders
    OBVIOUS
  <2> QED
    BY <2>1, <2>2, <2>3, <2>4 DEF spenders
<1> QED
  BY <1>1, Invariance, PTL

(* No invocation starts over a session that disconnect() or revokeServer() *)
(* was to end (findSession, gateway.ts).                                   *)
THEOREM RevocationCuts == Spec => RevocationCutsSessions
<1> DEFINE Step == \A k \in DOMAIN invocations' \ DOMAIN invocations :
                     invocations'[k].session \notin cut
<1>1. IInv /\ [Next]_vars => [Step]_vars
  <2> SUFFICES ASSUME IInv, Next PROVE Step
    OBVIOUS
  <2>1. SessionInv /\ invocations \in Seq(Invocations)
    BY DEF IInv, CallInv
  <2>2. ASSUME NEW s \in Servers, NEW t \in Tools, Invoke(s, t)
        PROVE  Step
    <3>1. PICK i \in FindSession(s) :
            invocations' = Append(invocations, [server |-> s, tool |-> t, session |-> i,
                                                ticket |-> 0, stage |-> "authorizing",
                                                spent |-> FALSE])
      BY <2>2 DEF Invoke
    <3> DEFINE r == [server |-> s, tool |-> t, session |-> i, ticket |-> 0,
                     stage |-> "authorizing", spent |-> FALSE]
    <3>2. i \notin cut /\ r.session = i
      BY <2>1 DEF SessionInv, FindSession, OfServer
    <3> HIDE DEF r
    <3>3. \A k \in DOMAIN invocations' \ DOMAIN invocations : invocations'[k] = r
      BY <2>1, <3>1 DEF r
    <3> QED
      BY <3>2, <3>3
  <2>3. ASSUME NEW g \in Tickets, SubmitApproval(g)
        PROVE  Step
    <3> DEFINE r(i) == [server |-> parked[g].server, tool |-> parked[g].tool, session |-> i,
                        ticket |-> g, stage |-> "calling", spent |-> FALSE]
    <3>1. PICK i \in FindSession(parked[g].server) :
            invocations' = Append(invocations, Sent(r(i), g))
      BY <2>3 DEF SubmitApproval
    <3>2. i \notin cut
      BY <2>1 DEF SessionInv, FindSession, OfServer
    <3>3. Sent(r(i), g).session = i
      <4>1. r(i).session = i
        OBVIOUS
      <4>2. \/ Sent(r(i), g) = [[r(i) EXCEPT !.ticket = g] EXCEPT !.stage = "denied"]
            \/ Sent(r(i), g) = [[r(i) EXCEPT !.ticket = g] EXCEPT !.stage = "calling"]
        BY DEF Sent
      <4> QED
        BY <4>1, <4>2
    <3> HIDE DEF r
    <3>4. \A k \in DOMAIN invocations' \ DOMAIN invocations : invocations'[k] = Sent(r(i), g)
      BY <2>1, <3>1
    <3> QED
      BY <3>2, <3>3, <3>4
  <2>4. CASE DOMAIN invocations' = DOMAIN invocations
    BY <2>4
  <2>5. CASE \E k \in DOMAIN invocations :
               \/ AuthorizationFails(k) \/ CallReturns(k) \/ CallRefused(k)
               \/ \E b \in BOOLEAN : Authorized(k, b) \/ ExecuteReturns(k, b)
    <3>1. DOMAIN invocations' = DOMAIN invocations
      BY <2>1, <2>5 DEF AuthorizationFails, CallReturns, CallRefused, Authorized, ExecuteReturns
    <3> QED
      BY <3>1
  <2>6. ASSUME NEW i, NEW final, ConnectionFails(i, final)
        PROVE  Step
    <3>1. DOMAIN invocations' = DOMAIN invocations
      BY <2>6 DEF ConnectionFails
    <3> QED
      BY <3>1
  <2>7. CASE UNCHANGED callVars
    BY <2>4, <2>7 DEF callVars
  <2> HIDE DEF Step
  <2> QED
    BY <2>2, <2>3, <2>5, <2>6, <2>7 DEF Next, Connect, Disconnect, RevokeServer,
       OperatorDecides, Discover, DiscoverFails, Discovered, TicketVoided, Tick
<1>2. RevocationCutsSessions <=> [][Step]_vars
  BY PTL DEF RevocationCutsSessions
<1> HIDE DEF Step
<1>3. []IInv /\ [][Next]_vars => [][Step]_vars
  BY <1>1, PTL
<1> QED
  BY <1>2, <1>3, Invariance, PTL DEF Spec
=============================================================================
