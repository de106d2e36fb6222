---------------------------- MODULE TicketStore -----------------------------
(***************************************************************************)
(* packages/core/src/ticket-store.ts: the process-local store of signed,   *)
(* single-use authorization tickets.  Every method of the class runs to    *)
(* completion without an await, so each is one action; callers interleave  *)
(* between calls.                                                          *)
(*                                                                         *)
(* A ticket id is the number of its issue() call: ids are fresh uuids, and *)
(* the Map iterates its keys in the order they were inserted.  The HMAC    *)
(* signature is the body it was computed over: it verifies exactly when    *)
(* the stored body still equals it.                                        *)
(*                                                                         *)
(* issue() returns the stored object itself.  Held are the tickets whose   *)
(* object somebody keeps: its fields can be written at any time, the       *)
(* signed ones and the unsigned status alike.                              *)
(***************************************************************************)
EXTENDS Naturals, FiniteSets

CONSTANTS
  Capabilities,  \* capability names
  Versions,      \* capability versions
  McpBindings,   \* MCP bindings a ticket or an executor may carry
  NoMcp,         \* "undefined": a native capability has no MCP bindings
  Payloads,      \* every other bound field: input, actor, risk, challenge, ...
  TtlMs,         \* ticket lifetime
  Held,          \* ids of tickets whose stored object a caller keeps
  MaxTickets,    \* size of the store before eviction
  MaxIssued,     \* bound: number of issue() calls
  MaxTime        \* bound: last value of the clock

ASSUME StoreAssumption ==
  /\ TtlMs \in Nat /\ MaxTickets \in Nat \ {0}
  /\ MaxIssued \in Nat /\ MaxTime \in Nat
  /\ NoMcp \notin McpBindings

VARIABLES
  now,       \* Date.now()
  tickets,   \* the Map: id -> [body, status, signature]
  issued,    \* number of issue() calls so far
  uses,      \* history: how often redeem() said ok for each id; 2 is "more than once"
  revoked    \* history: ids an invalidate*() call has cancelled

vars == <<now, tickets, issued, uses, revoked>>

Ids == 1..MaxIssued
Time == 0..(MaxTime + TtlMs)
Mcp == McpBindings \cup {NoMcp}
Status == {"issued", "redeemed", "expired", "invalidated", "tampered"}

Bindings == [capability : Capabilities, capabilityVersion : Versions,
             mcp : Mcp, payload : Payloads]
Bodies == [capability : Capabilities, capabilityVersion : Versions,
           mcp : Mcp, payload : Payloads, issuedAt : Time, expiresAt : Time]
Entries == [body : Bodies, status : Status, signature : Bodies]

(* What the caller of redeem() expects the ticket to be for.               *)
Contexts == [capability : Capabilities, capabilityVersion : Versions, mcp : Mcp]

Codes == {"ok", "not_found", "replay", "expired", "invalidated",
          "tampered", "version_changed", "mcp_binding_mismatch"}

Init ==
  /\ now = 0
  /\ tickets = [i \in {} |-> {}]
  /\ issued = 0
  /\ uses = [i \in Ids |-> 0]
  /\ revoked = {}

-----------------------------------------------------------------------------
(* The Map m without the keys in S.                                        *)
Without(m, S) == [i \in DOMAIN m \ S |-> m[i]]

(* Mutant: the sort runs the other way, newest first.                      *)
NewerFirst(m, i) ==
  {j \in DOMAIN m : \/ m[j].body.issuedAt > m[i].body.issuedAt
                    \/ m[j].body.issuedAt = m[i].body.issuedAt /\ j > i}

(* Keys of m that a stable sort by issuedAt puts before i.                 *)
Older(m, i) ==
  {j \in DOMAIN m : \/ m[j].body.issuedAt < m[i].body.issuedAt
                    \/ m[j].body.issuedAt = m[i].body.issuedAt /\ j < i}

(* evictIfNeeded: the keys that go, the oldest first, whatever their       *)
(* status.                                                                 *)
Excess(m) ==
  {i \in DOMAIN m : Cardinality(Older(m, i)) + MaxTickets < Cardinality(DOMAIN m)}

(* issue() copies every binding but mcp: no ticket carries one.            *)
NewEntry(b) ==
  LET body == [capability |-> b.capability, capabilityVersion |-> b.capabilityVersion,
               mcp |-> NoMcp, payload |-> b.payload,
               issuedAt |-> now, expiresAt |-> now + TtlMs]
  IN  [body |-> body, status |-> "issued", signature |-> body]

Issue(b) ==
  /\ issued < MaxIssued
  /\ issued' = issued + 1
  /\ LET stored == [i \in DOMAIN tickets \cup {issued + 1} |->
                      IF i = issued + 1 THEN NewEntry(b) ELSE tickets[i]]
     IN  tickets' = Without(stored, Excess(stored))
  /\ UNCHANGED <<now, uses, revoked>>

(* What redeem() answers for the statuses it looks for.  "expired", which  *)
(* the store itself never writes, is not one of them.                      *)
ClosedCode == [redeemed |-> "replay", tampered |-> "tampered", invalidated |-> "invalidated"]

(* Mutant: only a redeemed entry is refused.                               *)
OnlyRedeemedIsClosed(t) == t.status = "redeemed"
Closed(t) == t.status \in DOMAIN ClosedCode

(* Mutant: the lifetime is not looked at.                                  *)
NeverExpired(t) == FALSE
Expired(t) == now > t.body.expiresAt

(* Mutant: the signature is not verified.                                  *)
SignatureIgnored(t) == TRUE
Authentic(t) == t.signature = t.body

(* Mutant: the MCP operation the executor names is not compared.           *)
BoundToAnything(t, m) == TRUE

(* sameMcpBindings is asked only when the executor names an operation.     *)
BoundToOperation(t, m) == m = NoMcp \/ t.body.mcp = m

(* redeem(): the checks, in the order of the code's early returns.         *)
Verdict(i, ctx) ==
  IF i \notin DOMAIN tickets THEN "not_found"
  ELSE LET t == tickets[i] IN
    IF Closed(t) THEN ClosedCode[t.status]
    ELSE IF Expired(t) THEN "expired"
    ELSE IF t.body.capability # ctx.capability THEN "version_changed"
    ELSE IF t.body.capabilityVersion # ctx.capabilityVersion THEN "version_changed"
    ELSE IF ~BoundToOperation(t, ctx.mcp) THEN "mcp_binding_mismatch"
    ELSE IF ~Authentic(t) THEN "tampered"
    ELSE "ok"

OneMore(n) == IF n = 2 THEN 2 ELSE n + 1

(* Mutant: a good ticket is not marked as used.                            *)
RedeemUnmarked(i, ctx) ==
  /\ uses' = IF Verdict(i, ctx) = "ok" THEN [uses EXCEPT ![i] = OneMore(@)] ELSE uses
  /\ UNCHANGED <<now, issued, revoked, tickets>>

Redeem(i, ctx) ==
  LET code == Verdict(i, ctx) IN
  /\ \/ /\ code = "ok"
        /\ tickets' = [tickets EXCEPT ![i].status = "redeemed"]
        /\ uses' = [uses EXCEPT ![i] = OneMore(@)]
     \/ /\ code = "tampered"
        /\ tickets' = [tickets EXCEPT ![i].status = "tampered"]
        /\ UNCHANGED uses
     \/ /\ code = "expired"
        /\ tickets' = Without(tickets, {i})
        /\ UNCHANGED uses
     \/ /\ code \notin {"ok", "tampered", "expired"}
        /\ UNCHANGED <<tickets, uses>>
  /\ UNCHANGED <<now, issued, revoked>>

-----------------------------------------------------------------------------
Live(i) == tickets[i].status = "issued"

(* The loop the three invalidation methods share: the live tickets of S.   *)
Cancel(S) ==
  LET hit == {i \in S \cap DOMAIN tickets : Live(i)} IN
  /\ tickets' = [i \in DOMAIN tickets |->
                   IF i \in hit THEN [tickets[i] EXCEPT !.status = "invalidated"]
                   ELSE tickets[i]]
  /\ revoked' = revoked \cup hit
  /\ UNCHANGED <<now, issued, uses>>

(* invalidateForCapabilityVersion: this exact version only.                *)
BoundTo(c, v) == {i \in DOMAIN tickets : /\ tickets[i].body.capability = c
                                         /\ tickets[i].body.capabilityVersion = v}

InvalidateForCapabilityVersion(c, v) == Cancel(BoundTo(c, v))

Invalidate(i) == Cancel({i})

(* invalidateWhere: the predicate is the caller's, so any set of tickets.  *)
InvalidateWhere(S) == Cancel(S)

-----------------------------------------------------------------------------
(* One assignment to a field of the stored object of i.  A signature worth *)
(* writing is that of another ticket the caller keeps; any other one does  *)
(* no more than an edit of a signed field does.                            *)
Edits(b) ==
  {[b EXCEPT !.capability = c] : c \in Capabilities}
    \cup {[b EXCEPT !.capabilityVersion = v] : v \in Versions}
    \cup {[b EXCEPT !.mcp = m] : m \in Mcp}
    \cup {[b EXCEPT !.payload = p] : p \in Payloads}
    \cup {[b EXCEPT !.issuedAt = t] : t \in Time}
    \cup {[b EXCEPT !.expiresAt = t] : t \in Time}

Writes(i) ==
  {[tickets[i] EXCEPT !.body = b] : b \in Edits(tickets[i].body)}
    \cup {[tickets[i] EXCEPT !.status = s] : s \in Status}
    \cup {[tickets[i] EXCEPT !.signature = tickets[j].signature] :
             j \in Held \cap DOMAIN tickets}

Mutate(i) ==
  /\ i \in Held \cap DOMAIN tickets
  /\ \E t \in Writes(i) : tickets' = [tickets EXCEPT ![i] = t]
  /\ UNCHANGED <<now, issued, uses, revoked>>

Tick ==
  /\ now < MaxTime
  /\ now' = now + 1
  /\ UNCHANGED <<tickets, issued, uses, revoked>>

Next ==
  \/ \E b \in Bindings : Issue(b)
  \/ \E i \in Ids, ctx \in Contexts : Redeem(i, ctx)
  \/ \E c \in Capabilities, v \in Versions : InvalidateForCapabilityVersion(c, v)
  \/ \E i \in Ids : Invalidate(i)
  \/ \E S \in SUBSET Ids : InvalidateWhere(S)
  \/ \E i \in Ids : Mutate(i)
  \/ Tick

Spec == Init /\ [][Next]_vars

-----------------------------------------------------------------------------
(* Types, and what every reachable store has in common: keys are ids that  *)
(* were issued, and a signature is over the lifetime issue() granted.      *)
TypeOK ==
  /\ now \in 0..MaxTime
  /\ issued \in 0..MaxIssued
  /\ DOMAIN tickets \subseteq 1..issued
  /\ \A i \in DOMAIN tickets :
       /\ tickets[i] \in Entries
       /\ tickets[i].signature.issuedAt <= now
       /\ tickets[i].signature.expiresAt = tickets[i].signature.issuedAt + TtlMs
  /\ uses \in [Ids -> 0..2]
  /\ revoked \in SUBSET Ids

(* The tickets nobody keeps the object of: what the store alone answers    *)
(* for, whatever is written into the objects of the others.                *)
Own == Ids \ Held

(* Single use: over the whole life of the process, whatever expired, was   *)
(* evicted or cancelled in between, and whatever the holders of other      *)
(* tickets write into them, no ticket of the store's own is redeemed       *)
(* twice.                                                                  *)
AtMostOnce == \A i \in Own : uses[i] <= 1

(* A ticket that an invalidation counted is never redeemed, and one that   *)
(* was redeemed is never counted as invalidated.                           *)
RevokedNeverRedeemed == \A i \in revoked \cap Own : uses[i] = 0

(* Once redeemed, a ticket is reported as replayed (or not_found after its *)
(* eviction) and never as expired, invalidated or mismatching, however     *)
(* much later it is presented and for whatever operation.                  *)
RedeemedReportsReplay ==
  \A i \in Own, ctx \in Contexts : uses[i] > 0 => Verdict(i, ctx) \in {"replay", "not_found"}

(* Whatever is written into a stored ticket, redeem() says ok only for     *)
(* what issue() signed: the ticket's fields are the signed ones, they name *)
(* the capability and version the executor asks for, and its MCP operation *)
(* if it names one; the signed lifetime has not passed.  A ticket of the   *)
(* store's own has not been cancelled either.                              *)
RedeemsWhatWasSigned ==
  [][\A i \in Ids, ctx \in Contexts :
       Redeem(i, ctx) /\ Verdict(i, ctx) = "ok" =>
         LET signed == tickets[i].signature IN
         /\ tickets[i].body = signed
         /\ signed.capability = ctx.capability
         /\ signed.capabilityVersion = ctx.capabilityVersion
         /\ ctx.mcp # NoMcp => signed.mcp = ctx.mcp
         /\ now <= signed.expiresAt
         /\ i \in Own => i \notin revoked]_vars

(* Eviction on issue() keeps the store within maxTickets and takes no more *)
(* than must go.  Among the tickets of the store's own it takes the oldest *)
(* first, so that the one just issued, which the caller is about to be     *)
(* given, goes only if no other of them is left: however the holders of    *)
(* other tickets redate those.                                             *)
EvictionTakesOldest ==
  [][issued' # issued =>
       LET lost == (DOMAIN tickets \cup {issued'}) \ DOMAIN tickets' IN
       /\ Cardinality(DOMAIN tickets') <= MaxTickets
       /\ lost = {} \/ Cardinality(DOMAIN tickets') = MaxTickets
       /\ \A gone \in lost \cap Own, kept \in DOMAIN tickets' \cap Own : gone < kept]_vars

-----------------------------------------------------------------------------
(* Refinement: the grant each ticket of the store's own stands for.        *)
GrantPhase(i) ==
  IF uses[i] > 0 THEN "spent"
  ELSE IF i > issued THEN "unissued"
  ELSE IF i \in DOMAIN tickets THEN IF Live(i) THEN "usable" ELSE "void"
  ELSE "void"

GrantDeadline(i) ==
  IF GrantPhase(i) = "usable" THEN tickets[i].signature.expiresAt ELSE 0

Grant == INSTANCE SingleUseGrant WITH
  Grants <- Own, Deadlines <- Time, clock <- now,
  phase <- [i \in Own |-> GrantPhase(i)],
  deadline <- [i \in Own |-> GrantDeadline(i)]

(* The store implements SingleUseGrant.                                    *)
ImplementsSingleUse == Grant!Spec
=============================================================================
