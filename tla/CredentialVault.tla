-------------------------- MODULE CredentialVault --------------------------
(***************************************************************************)
(* InMemoryCredentialVault (packages/mcp credentials.ts): credentials      *)
(* scoped to a server and, where they say so, to an agent, a tool and a    *)
(* tenant; stored, looked up, revoked and purged while time passes.  The   *)
(* usage counters, which nothing reads, are left out.                      *)
(***************************************************************************)
EXTENDS Integers, FiniteSetsExt

CONSTANTS Scopes,       \* [server, agent, tool, tenant], "none" where a field is left out
          Classes,      \* credential classes
          MaxStored,    \* how many are stored
          LastInstant   \* the last value of the vault's clock

ASSUME VaultConstants == MaxStored \in Nat /\ LastInstant \in Nat

VARIABLES vault,     \* the Map: id -> [scope, class, expiresAt]
          stored,    \* ids given out: _vaultId
          instant    \* Date.now()

vaultVars == <<vault, stored, instant>>

NoExpiry == LastInstant + 1  \* the expiresAt of a credential that does not expire
Narrowing == {"agent", "tool", "tenant"}

VaultInit == vault = [id \in {} |-> {}] /\ stored = 0 /\ instant = 0

Usable(record) == record.expiresAt > instant

\* Mutant: revocation looks for records scoped exactly as it was told.
FitsExactly(record, scope) == record.scope = scope
\* findCandidates: a field left out, of the record or of the lookup, fits any.
Fits(record, scope) ==
    /\ record.scope.server = scope.server
    /\ \A f \in Narrowing : "none" \in {scope[f], record.scope[f]} \/ record.scope[f] = scope[f]

\* specificity
Weight == [agent |-> 1, tool |-> 2, tenant |-> 4]
Specificity(record, scope) ==
    MapThenSumSet(LAMBDA f : Weight[f], {f \in Narrowing : record.scope[f] # "none"})
      - 8 * Cardinality({f \in Narrowing : scope[f] # "none" /\ record.scope[f] = scope[f]})

\* retrieve(): sorted by ascending specificity, the last one is taken; the sort
\* is stable, and the Map iterates in the order of the ids.  A set of none or one.
Retrieve(records, scope) ==
    LET usable == {i \in DOMAIN records : Usable(records[i]) /\ Fits(records[i], scope)}
        Score(i) == Specificity(records[i], scope)
        best == {i \in usable : \A j \in usable :
                    Score(j) < Score(i) \/ (Score(j) = Score(i) /\ j <= i)}
    IN  {records[i] : i \in best}

Dropping(gone) == [id \in DOMAIN vault \ gone |-> vault[id]]

\* store(): the credential of the same scope and class makes room for the new one.
Store(scope, class, expiresAt) ==
    LET existing == {id \in DOMAIN vault : vault[id].scope = scope /\ vault[id].class = class}
        record == [scope |-> scope, class |-> class, expiresAt |-> expiresAt]
    IN  /\ stored < MaxStored
        /\ stored' = stored + 1
        /\ vault' = [id \in (DOMAIN vault \ existing) \cup {stored'} |->
                       IF id = stored' THEN record ELSE vault[id]]
        /\ UNCHANGED instant

RevokeCredential(id) ==
    /\ vault' = Dropping({id})
    /\ UNCHANGED <<stored, instant>>

\* revokeScope; revokeServer is the scope of the server alone.
RevokeScope(scope) ==
    /\ vault' = Dropping({id \in DOMAIN vault : Fits(vault[id], scope)})
    /\ UNCHANGED <<stored, instant>>

\* Mutant: a credential is purged one instant before it stops being used.
PurgeEarly ==
    /\ vault' = Dropping({id \in DOMAIN vault : /\ vault[id].expiresAt <= instant + 1
                                                /\ vault[id].expiresAt # NoExpiry})
    /\ UNCHANGED <<stored, instant>>
PurgeExpired ==
    /\ vault' = Dropping({id \in DOMAIN vault : ~Usable(vault[id])})
    /\ UNCHANGED <<stored, instant>>

InstantPasses ==
    /\ instant < LastInstant
    /\ instant' = instant + 1
    /\ UNCHANGED <<vault, stored>>

VaultNext ==
    \/ \E scope \in Scopes, class \in Classes, expiresAt \in {instant + 1, NoExpiry} :
          Store(scope, class, expiresAt)
    \/ \E id \in 1..stored : RevokeCredential(id)
    \/ \E scope \in Scopes : RevokeScope(scope)
    \/ PurgeExpired
    \/ InstantPasses

VaultSpec == VaultInit /\ [][VaultNext]_vaultVars

\* A purge takes exactly what no lookup can return: purging, at whatever moment,
\* changes no answer of the vault.
PurgeIsInvisible ==
    [][PurgeExpired => \A scope \in Scopes : Retrieve(vault', scope) = Retrieve(vault, scope)]_vaultVars

\* After "Revoke ALL credentials matching a scope", no lookup of that scope or of
\* a narrower one gets a credential, also not a wider one that had fitted it.
RevocationReaches ==
    [][\A scope \in Scopes : RevokeScope(scope) =>
         \A lookup \in Scopes :
            /\ lookup.server = scope.server
            /\ \A f \in Narrowing : scope[f] \in {"none", lookup[f]}
            => Retrieve(vault', lookup) = {}]_vaultVars

=============================================================================
