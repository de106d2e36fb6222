-------------------------- MODULE TicketStoreProofs --------------------------
(***************************************************************************)
(* TicketStore for every value of its constants: its types, single use,    *)
(* and what a redemption is worth.                                         *)
(***************************************************************************)
EXTENDS TicketStore, FiniteSetTheorems, WellFoundedInduction, TLAPS

(* Of the tickets of the store's own: the history variables say what       *)
(* happened, the status is what redeem() reads, and the two agree.         *)
UsedIsRedeemed ==
  \A i \in Own : uses[i] > 0 =>
    /\ uses[i] = 1 /\ i <= issued /\ i \notin revoked
    /\ i \in DOMAIN tickets => tickets[i].status = "redeemed"

RevokedIsInvalidated ==
  \A i \in revoked \cap Own :
    /\ i <= issued
    /\ i \in DOMAIN tickets => tickets[i].status = "invalidated"

(* Only the store writes their status, and nobody their body.              *)
OwnIsAsSigned ==
  \A i \in DOMAIN tickets \cap Own :
    /\ tickets[i].status = "redeemed" => uses[i] = 1
    /\ tickets[i].status # "expired"
    /\ tickets[i].body = tickets[i].signature

IInv == TypeOK /\ UsedIsRedeemed /\ RevokedIsInvalidated /\ OwnIsAsSigned

-----------------------------------------------------------------------------
LEMMA WithoutIsRestriction ==
  ASSUME NEW m, NEW S
  PROVE  /\ DOMAIN Without(m, S) = DOMAIN m \ S
         /\ \A i \in DOMAIN m \ S : Without(m, S)[i] = m[i]
  BY DEF Without

(* redeem() says ok only of an open, unexpired ticket whose body is the    *)
(* signed one and names what the executor asks for.                        *)
LEMMA OkMeansSound ==
  ASSUME NEW i \in Ids, NEW ctx \in Contexts, TypeOK, Verdict(i, ctx) = "ok"
  PROVE  /\ i \in DOMAIN tickets
         /\ tickets[i].status \in {"issued", "expired"}
         /\ now <= tickets[i].body.expiresAt
         /\ tickets[i].body = tickets[i].signature
         /\ tickets[i].body.capability = ctx.capability
         /\ tickets[i].body.capabilityVersion = ctx.capabilityVersion
         /\ ctx.mcp # NoMcp => tickets[i].body.mcp = ctx.mcp
<1>1. i \in DOMAIN tickets
  BY DEF Verdict
<1>2. tickets[i] \in Entries /\ now \in Nat /\ tickets[i].body.expiresAt \in Nat
  BY <1>1, StoreAssumption DEF TypeOK, Entries, Bodies, Time
<1>3. tickets[i].status \in Status
  BY <1>2 DEF Entries
<1>4. ~Closed(tickets[i])
  BY <1>1, <1>3 DEF Verdict, Closed, ClosedCode, Status
<1> QED
  BY <1>1, <1>2, <1>3, <1>4
     DEF Verdict, Closed, Expired, Authentic, BoundToOperation, ClosedCode, Status

(* and answers one of its codes whatever the store holds.                  *)
LEMMA VerdictIsCode ==
  ASSUME NEW i \in Ids, NEW ctx \in Contexts, TypeOK
  PROVE  Verdict(i, ctx) \in Codes
<1>1. i \in DOMAIN tickets => tickets[i].status \in Status
  BY DEF TypeOK, Entries
<1> QED
  BY <1>1 DEF Verdict, Closed, ClosedCode, Codes, Status

-----------------------------------------------------------------------------
LEMMA InitInvariant == Init => IInv
  BY StoreAssumption DEF Init, IInv, TypeOK, UsedIsRedeemed, RevokedIsInvalidated,
     OwnIsAsSigned, Ids, Own

LEMMA IssueInvariant ==
  ASSUME IInv, NEW b \in Bindings, Issue(b)
  PROVE  IInv'
<1> DEFINE stored == [i \in DOMAIN tickets \cup {issued + 1} |->
                        IF i = issued + 1 THEN NewEntry(b) ELSE tickets[i]]
<1>1. /\ issued' = issued + 1 /\ issued < MaxIssued /\ issued \in Nat
      /\ tickets' = Without(stored, Excess(stored))
      /\ UNCHANGED <<now, uses, revoked>>
  BY StoreAssumption DEF Issue, IInv, TypeOK
<1>2. DOMAIN tickets' \subseteq DOMAIN tickets \cup {issued + 1}
  BY <1>1 DEF Without
<1>3. \A i \in DOMAIN tickets' :
        tickets'[i] = IF i = issued + 1 THEN NewEntry(b) ELSE tickets[i]
  BY <1>1 DEF Without
<1>4. /\ NewEntry(b) \in Entries /\ NewEntry(b).status = "issued"
      /\ NewEntry(b).body = NewEntry(b).signature
      /\ NewEntry(b).signature.issuedAt <= now
      /\ NewEntry(b).signature.expiresAt = NewEntry(b).signature.issuedAt + TtlMs
  BY StoreAssumption DEF NewEntry, Entries, Bodies, Bindings, Mcp, Time, Status, IInv, TypeOK
<1> HIDE DEF stored
<1>5. issued + 1 \in Ids /\ issued' \in 0..MaxIssued
  BY <1>1, StoreAssumption DEF Ids
<1>6. issued + 1 \in Own => uses[issued + 1] = 0 /\ issued + 1 \notin revoked
  <2> SUFFICES ASSUME issued + 1 \in Own
               PROVE  uses[issued + 1] = 0 /\ issued + 1 \notin revoked
    OBVIOUS
  <2>1. uses[issued + 1] > 0 => issued + 1 <= issued
    BY DEF IInv, UsedIsRedeemed
  <2>2. uses[issued + 1] \in 0..2
    BY <1>5 DEF IInv, TypeOK
  <2>3. issued + 1 \in revoked => issued + 1 <= issued
    BY DEF IInv, RevokedIsInvalidated
  <2> QED
    BY <1>1, <2>1, <2>2, <2>3
<1>7. TypeOK'
  <2>1. /\ DOMAIN tickets' \subseteq 1..issued'
        /\ \A i \in DOMAIN tickets' :
             /\ tickets'[i] \in Entries
             /\ tickets'[i].signature.issuedAt <= now
             /\ tickets'[i].signature.expiresAt = tickets'[i].signature.issuedAt + TtlMs
    <3>1. DOMAIN tickets \subseteq 1..issued /\ \A i \in DOMAIN tickets :
             /\ tickets[i] \in Entries
             /\ tickets[i].signature.issuedAt <= now
             /\ tickets[i].signature.expiresAt = tickets[i].signature.issuedAt + TtlMs
      BY DEF IInv, TypeOK
    <3> QED
      BY <1>1, <1>2, <1>3, <1>4, <3>1
  <2> QED
    BY <1>1, <1>5, <2>1 DEF IInv, TypeOK
<1>8. UsedIsRedeemed' /\ RevokedIsInvalidated'
  <2>1. \A i \in Own : i \in Nat /\ uses[i] \in 0..2
    BY StoreAssumption DEF Own, Ids, IInv, TypeOK
  <2> QED
    BY <1>1, <1>2, <1>3, <1>6, <2>1 DEF IInv, UsedIsRedeemed, RevokedIsInvalidated
<1>9. OwnIsAsSigned'
  BY <1>1, <1>2, <1>3, <1>4 DEF IInv, OwnIsAsSigned
<1> QED
  BY <1>7, <1>8, <1>9 DEF IInv

(* A step that leaves the store's own tickets and their history alone.     *)
LEMMA OwnUntouched ==
  ASSUME IInv, TypeOK', UNCHANGED issued,
         DOMAIN tickets' \cap Own \subseteq DOMAIN tickets,
         \A i \in DOMAIN tickets' \cap Own : tickets'[i] = tickets[i],
         \A i \in Own : uses'[i] = uses[i],
         revoked' \cap Own = revoked \cap Own
  PROVE  IInv'
  BY DEF IInv, UsedIsRedeemed, RevokedIsInvalidated, OwnIsAsSigned

(* A step that writes one entry.                                           *)
LEMMA WriteKeepsTypes ==
  ASSUME TypeOK, NEW k \in DOMAIN tickets, NEW t \in Entries,
         t.signature.issuedAt <= now,
         t.signature.expiresAt = t.signature.issuedAt + TtlMs,
         tickets' = [tickets EXCEPT ![k] = t], UNCHANGED <<now, issued, revoked>>,
         uses' \in [Ids -> 0..2]
  PROVE  TypeOK'
<1>1. /\ DOMAIN tickets' = DOMAIN tickets /\ tickets'[k] = t
      /\ \A i \in DOMAIN tickets : i # k => tickets'[i] = tickets[i]
  OBVIOUS
<1> QED
  BY <1>1 DEF TypeOK

(* What redeem() does to the entry of k, by its answer.                    *)
LEMMA RedeemWrites ==
  ASSUME TypeOK, NEW k \in Ids, NEW ctx \in Contexts, Redeem(k, ctx)
  PROVE  /\ UNCHANGED <<now, issued, revoked>>
         /\ Verdict(k, ctx) \in {"ok", "tampered", "expired"} => k \in DOMAIN tickets
         /\ Verdict(k, ctx) = "ok" =>
              /\ tickets' = [tickets EXCEPT ![k] = [tickets[k] EXCEPT !.status = "redeemed"]]
              /\ uses' = [uses EXCEPT ![k] = OneMore(@)]
         /\ Verdict(k, ctx) = "tampered" =>
              /\ tickets' = [tickets EXCEPT ![k] = [tickets[k] EXCEPT !.status = "tampered"]]
              /\ tickets[k].status \notin {"redeemed", "invalidated"}
              /\ tickets[k].status # "tampered" => tickets[k].body # tickets[k].signature
              /\ uses' = uses
         /\ Verdict(k, ctx) = "expired" =>
              /\ tickets' = Without(tickets, {k}) /\ uses' = uses
              /\ tickets[k].status \in {"issued", "expired"}
         /\ Verdict(k, ctx) \notin {"ok", "tampered", "expired"} =>
              UNCHANGED <<tickets, uses>>
<1>1. k \in DOMAIN tickets => tickets[k].status \in Status
  BY DEF TypeOK, Entries
<1>2. Verdict(k, ctx) \in {"ok", "tampered", "expired"} => k \in DOMAIN tickets
  BY DEF Verdict
<1>3. Verdict(k, ctx) = "tampered" =>
        /\ tickets[k].status \notin {"redeemed", "invalidated"}
        /\ tickets[k].status # "tampered" => tickets[k].body # tickets[k].signature
  BY <1>1, <1>2 DEF Verdict, Closed, ClosedCode, Status, Authentic
<1>4. Verdict(k, ctx) = "expired" => tickets[k].status \in {"issued", "expired"}
  BY <1>1, <1>2 DEF Verdict, Closed, ClosedCode, Status
<1> QED
  BY <1>2, <1>3, <1>4 DEF Redeem

LEMMA RedeemInvariant ==
  ASSUME IInv, NEW k \in Ids, NEW ctx \in Contexts, Redeem(k, ctx)
  PROVE  IInv'
<1> DEFINE code == Verdict(k, ctx)
<1>1. /\ UNCHANGED <<now, issued, revoked>> /\ TypeOK
      /\ code \in {"ok", "tampered", "expired"} => k \in DOMAIN tickets /\ tickets[k] \in Entries
  BY RedeemWrites DEF IInv, TypeOK
<1>2. CASE code = "ok"
  <2>1. /\ tickets' = [tickets EXCEPT ![k] = [tickets[k] EXCEPT !.status = "redeemed"]]
        /\ uses' = [uses EXCEPT ![k] = OneMore(@)]
    BY <1>1, <1>2, RedeemWrites
  <2>2. [tickets[k] EXCEPT !.status = "redeemed"] \in Entries
    BY <1>1, <1>2 DEF Entries, Status
  <2>3. /\ uses' \in [Ids -> 0..2] /\ \A i \in Ids : i # k => uses'[i] = uses[i]
        /\ uses[k] = 0 => uses'[k] = 1
    BY <1>1, <2>1 DEF TypeOK, OneMore
  <2>4. [tickets[k] EXCEPT !.status = "redeemed"].signature = tickets[k].signature
    BY <1>1, <1>2 DEF Entries
  <2>5. TypeOK'
    BY <1>1, <1>2, <2>1, <2>2, <2>3, <2>4, WriteKeepsTypes DEF TypeOK
  <2>6. CASE k \notin Own
    <3>1. /\ DOMAIN tickets' = DOMAIN tickets
          /\ \A i \in DOMAIN tickets : i # k => tickets'[i] = tickets[i]
      BY <1>1, <1>2, <2>1
    <3> QED
      BY <1>1, <2>3, <2>5, <2>6, <3>1, OwnUntouched DEF Own
  <2>7. CASE k \in Own
    <3>1. tickets[k].status = "issued" /\ tickets[k].body = tickets[k].signature
      BY <1>1, <1>2, <2>7, OkMeansSound DEF IInv, OwnIsAsSigned
    <3>2. uses[k] \in 0..2 /\ uses[k] = 0 /\ k \notin revoked /\ k <= issued
      BY <1>1, <1>2, <2>7, <3>1 DEF IInv, UsedIsRedeemed, RevokedIsInvalidated, TypeOK, Ids
    <3>3. /\ DOMAIN tickets' = DOMAIN tickets
          /\ \A i \in DOMAIN tickets : i # k => tickets'[i] = tickets[i]
          /\ tickets'[k].status = "redeemed"
          /\ tickets'[k].body = tickets'[k].signature
      BY <1>1, <1>2, <2>1, <3>1 DEF Entries
    <3>4. UsedIsRedeemed' /\ RevokedIsInvalidated'
      BY <1>1, <2>3, <3>1, <3>2, <3>3 DEF IInv, UsedIsRedeemed, RevokedIsInvalidated, Own
    <3>5. OwnIsAsSigned'
      BY <2>3, <3>2, <3>3 DEF IInv, OwnIsAsSigned, Own
    <3> QED
      BY <2>5, <3>4, <3>5 DEF IInv
  <2> QED
    BY <2>6, <2>7
<1>3. CASE code = "tampered"
  <2>1. /\ tickets' = [tickets EXCEPT ![k] = [tickets[k] EXCEPT !.status = "tampered"]]
        /\ uses' = uses /\ tickets[k].status \notin {"redeemed", "invalidated"}
        /\ tickets[k].status # "tampered" => tickets[k].body # tickets[k].signature
    BY <1>1, <1>3, RedeemWrites
  <2>2. /\ [tickets[k] EXCEPT !.status = "tampered"] \in Entries
        /\ [tickets[k] EXCEPT !.status = "tampered"].signature = tickets[k].signature
    BY <1>1, <1>3 DEF Entries, Status
  <2>3. TypeOK'
    BY <1>1, <1>3, <2>1, <2>2, WriteKeepsTypes DEF TypeOK
  <2>4. k \in Own => tickets[k].status = "tampered"
    BY <1>1, <1>3, <2>1 DEF IInv, OwnIsAsSigned
  <2>5. /\ DOMAIN tickets' = DOMAIN tickets
        /\ \A i \in DOMAIN tickets : i # k => tickets'[i] = tickets[i]
        /\ k \in Own => tickets'[k] = tickets[k]
    BY <1>1, <1>3, <2>1, <2>4 DEF Entries
  <2>6. \A i \in DOMAIN tickets' \cap Own : tickets'[i] = tickets[i]
    BY <2>5
  <2> QED
    BY <1>1, <2>1, <2>3, <2>5, <2>6, OwnUntouched
<1>4. CASE code = "expired"
  <2>1. tickets' = Without(tickets, {k}) /\ uses' = uses
    BY <1>1, <1>4, RedeemWrites
  <2>2. /\ DOMAIN tickets' = DOMAIN tickets \ {k}
        /\ \A i \in DOMAIN tickets \ {k} : tickets'[i] = tickets[i]
    BY <2>1, WithoutIsRestriction
  <2>3. TypeOK'
    BY <1>1, <2>1, <2>2 DEF TypeOK
  <2> QED
    BY <1>1, <2>1, <2>2, <2>3, OwnUntouched
<1>5. CASE code \notin {"ok", "tampered", "expired"}
  <2>1. UNCHANGED <<tickets, uses>>
    BY <1>1, <1>5, RedeemWrites
  <2>2. TypeOK'
    BY <1>1, <2>1 DEF TypeOK
  <2> QED
    BY <1>1, <2>1, <2>2, OwnUntouched
<1> QED
  BY <1>2, <1>3, <1>4, <1>5

(* The loop the invalidation methods share.                                *)
LEMMA CancelInvariant ==
  ASSUME IInv, NEW S, Cancel(S)
  PROVE  IInv'
<1> DEFINE hit == {i \in S \cap DOMAIN tickets : Live(i)}
<1>1. /\ revoked' = revoked \cup hit
      /\ UNCHANGED <<now, issued, uses>>
      /\ DOMAIN tickets' = DOMAIN tickets
      /\ \A i \in DOMAIN tickets :
           tickets'[i] = IF i \in hit THEN [tickets[i] EXCEPT !.status = "invalidated"]
                         ELSE tickets[i]
  BY DEF Cancel
<1>2. \A i \in hit : /\ i \in DOMAIN tickets /\ i <= issued /\ i \in Ids
                     /\ tickets[i] \in Entries /\ tickets[i].status = "issued"
  BY StoreAssumption DEF Live, IInv, TypeOK, Ids
<1>3. \A i \in hit : /\ tickets'[i] \in Entries
                     /\ tickets'[i].status = "invalidated"
                     /\ tickets'[i].signature = tickets[i].signature
                     /\ tickets'[i].body = tickets[i].body
  BY <1>1, <1>2 DEF Entries, Status
<1>4. \A i \in DOMAIN tickets \ hit : tickets'[i] = tickets[i]
  BY <1>1
<1> HIDE DEF hit
<1>5. TypeOK'
  BY <1>1, <1>2, <1>3, <1>4 DEF IInv, TypeOK
<1>6. \A i \in hit \cap Own : uses[i] = 0
  BY <1>2 DEF IInv, UsedIsRedeemed, TypeOK, Own
<1>7. UsedIsRedeemed' /\ RevokedIsInvalidated'
  BY <1>1, <1>2, <1>3, <1>4, <1>6 DEF IInv, UsedIsRedeemed, RevokedIsInvalidated
<1>8. OwnIsAsSigned'
  BY <1>1, <1>3, <1>4 DEF IInv, OwnIsAsSigned
<1> QED
  BY <1>5, <1>7, <1>8 DEF IInv

LEMMA EditsAreBodies ==
  ASSUME NEW b \in Bodies
  PROVE  Edits(b) \subseteq Bodies
  BY DEF Edits, Bodies

(* What a holder writes is an entry, its signature one that issue() made.  *)
LEMMA WritesAreEntries ==
  ASSUME TypeOK, NEW k \in DOMAIN tickets, NEW t \in Writes(k)
  PROVE  /\ t \in Entries
         /\ t.signature.issuedAt <= now
         /\ t.signature.expiresAt = t.signature.issuedAt + TtlMs
<1>1. /\ tickets[k] \in Entries
      /\ tickets[k].signature.issuedAt <= now
      /\ tickets[k].signature.expiresAt = tickets[k].signature.issuedAt + TtlMs
  BY DEF TypeOK
<1>2. CASE \E b \in Edits(tickets[k].body) : t = [tickets[k] EXCEPT !.body = b]
  <2>1. PICK b \in Bodies : t = [tickets[k] EXCEPT !.body = b]
    BY <1>1, <1>2, EditsAreBodies DEF Entries
  <2> QED
    BY <1>1, <2>1 DEF Entries
<1>3. CASE \E s \in Status : t = [tickets[k] EXCEPT !.status = s]
  BY <1>1, <1>3 DEF Entries
<1>4. CASE \E j \in Held \cap DOMAIN tickets :
             t = [tickets[k] EXCEPT !.signature = tickets[j].signature]
  <2>1. PICK j \in Held \cap DOMAIN tickets :
          t = [tickets[k] EXCEPT !.signature = tickets[j].signature]
    BY <1>4
  <2>2. /\ tickets[j] \in Entries
        /\ tickets[j].signature.issuedAt <= now
        /\ tickets[j].signature.expiresAt = tickets[j].signature.issuedAt + TtlMs
    BY DEF TypeOK
  <2>3. t.signature = tickets[j].signature /\ t \in Entries
    BY <1>1, <2>1, <2>2 DEF Entries
  <2> QED
    BY <2>2, <2>3
<1> QED
  BY <1>2, <1>3, <1>4 DEF Writes

LEMMA MutateInvariant ==
  ASSUME IInv, NEW k \in Ids, Mutate(k)
  PROVE  IInv'
<1>1. /\ k \in Held /\ k \in DOMAIN tickets /\ k \notin Own
      /\ UNCHANGED <<now, issued, uses, revoked>>
  BY DEF Mutate, Own
<1>2. PICK t \in Writes(k) : tickets' = [tickets EXCEPT ![k] = t]
  BY DEF Mutate
<1>3. TypeOK'
  BY <1>1, <1>2, WritesAreEntries, WriteKeepsTypes DEF IInv, TypeOK
<1>4. /\ DOMAIN tickets' = DOMAIN tickets
      /\ \A i \in DOMAIN tickets : i # k => tickets'[i] = tickets[i]
  BY <1>2
<1> QED
  BY <1>1, <1>3, <1>4, OwnUntouched

LEMMA TickInvariant ==
  ASSUME IInv, Tick
  PROVE  IInv'
<1>1. now' \in 0..MaxTime /\ now' >= now /\ now \in Nat
  BY StoreAssumption DEF IInv, TypeOK, Tick
<1>2. UNCHANGED <<tickets, issued, uses, revoked>>
  BY DEF Tick
<1>3. TypeOK'
  BY <1>1, <1>2 DEF IInv, TypeOK, Entries, Bodies, Time
<1> QED
  BY <1>2, <1>3, OwnUntouched

LEMMA StepInvariant == IInv /\ [Next]_vars => IInv'
<1> SUFFICES ASSUME IInv, [Next]_vars PROVE IInv'
  OBVIOUS
<1>1. ASSUME NEW b \in Bindings, Issue(b) PROVE IInv'
  BY <1>1, IssueInvariant
<1>2. ASSUME NEW i \in Ids, NEW ctx \in Contexts, Redeem(i, ctx) PROVE IInv'
  BY <1>2, RedeemInvariant
<1>3. ASSUME NEW c \in Capabilities, NEW v \in Versions,
             InvalidateForCapabilityVersion(c, v)
      PROVE  IInv'
  BY <1>3, CancelInvariant DEF InvalidateForCapabilityVersion
<1>4. ASSUME NEW i \in Ids, Invalidate(i) PROVE IInv'
  BY <1>4, CancelInvariant DEF Invalidate
<1>5. ASSUME NEW S \in SUBSET Ids, InvalidateWhere(S) PROVE IInv'
  BY <1>5, CancelInvariant DEF InvalidateWhere
<1>6. ASSUME NEW i \in Ids, Mutate(i) PROVE IInv'
  BY <1>6, MutateInvariant
<1>7. CASE Tick
  BY <1>7, TickInvariant
<1>8. CASE UNCHANGED vars
  BY <1>8 DEF vars, IInv, TypeOK, UsedIsRedeemed, RevokedIsInvalidated, OwnIsAsSigned
<1> QED
  BY <1>1, <1>2, <1>3, <1>4, <1>5, <1>6, <1>7, <1>8 DEF Next

THEOREM Invariance == Spec => []IInv
  BY InitInvariant, StepInvariant, PTL DEF Spec

-----------------------------------------------------------------------------
(* The store keeps its types whatever is written into the objects it       *)
(* handed out: ids, statuses, and every signature covers exactly the       *)
(* lifetime issue() granted (ticket-store.ts:141-171).                     *)
THEOREM TypeCorrect == Spec => []TypeOK
<1>1. IInv => TypeOK
  BY DEF IInv
<1> QED
  BY <1>1, Invariance, PTL

(* redeem() says ok at most once for each ticket of the store's own        *)
(* (ticket-store.ts:180-302).                                              *)
THEOREM SingleUse == Spec => []AtMostOnce
<1>1. IInv => AtMostOnce
  BY DEF IInv, UsedIsRedeemed, AtMostOnce, TypeOK, Own
<1> QED
  BY <1>1, Invariance, PTL

(* A cancelled ticket of the store's own is never redeemed                 *)
(* (ticket-store.ts:305-371).                                              *)
THEOREM RevocationIsFinal == Spec => []RevokedNeverRedeemed
<1>1. IInv => RevokedNeverRedeemed
  BY DEF IInv, UsedIsRedeemed, RevokedNeverRedeemed, TypeOK, Own
<1> QED
  BY <1>1, Invariance, PTL

(* A second presentation of a ticket of the store's own is reported as a   *)
(* replay or as not found, for whatever operation and however late         *)
(* (ticket-store.ts:189-206).                                              *)
THEOREM ReplayIsReported == Spec => []RedeemedReportsReplay
<1>1. IInv => RedeemedReportsReplay
  BY DEF IInv, UsedIsRedeemed, RedeemedReportsReplay, Verdict, Closed, ClosedCode
<1> QED
  BY <1>1, Invariance, PTL

(* Whoever gets an ok presents a ticket whose every bound field is as it   *)
(* was signed, for the capability, version and MCP operation that were     *)
(* asked for, inside the lifetime that was signed, whatever was written    *)
(* into the object issue() returned; and one of the store's own has not    *)
(* been cancelled (ticket-store.ts:221-302).                               *)
THEOREM RedemptionIsSound == Spec => RedeemsWhatWasSigned
<1> DEFINE Sound(i, ctx) ==
             LET signed == tickets[i].signature IN
             /\ tickets[i].body = signed
             /\ signed.capability = ctx.capability
             /\ signed.capabilityVersion = ctx.capabilityVersion
             /\ ctx.mcp # NoMcp => signed.mcp = ctx.mcp
             /\ now <= signed.expiresAt
             /\ i \in Own => i \notin revoked
           Step == \A i \in Ids, ctx \in Contexts :
                     Redeem(i, ctx) /\ Verdict(i, ctx) = "ok" => Sound(i, ctx)
<1>1. ASSUME IInv PROVE Step
  <2> SUFFICES ASSUME NEW i \in Ids, NEW ctx \in Contexts, Verdict(i, ctx) = "ok"
               PROVE  Sound(i, ctx)
    OBVIOUS
  <2>1. /\ i \in DOMAIN tickets /\ tickets[i].status \in {"issued", "expired"}
        /\ now <= tickets[i].body.expiresAt
        /\ tickets[i].body = tickets[i].signature
        /\ tickets[i].body.capability = ctx.capability
        /\ tickets[i].body.capabilityVersion = ctx.capabilityVersion
        /\ ctx.mcp # NoMcp => tickets[i].body.mcp = ctx.mcp
    BY <1>1, OkMeansSound DEF IInv
  <2>2. i \in Own => i \notin revoked
    BY <1>1, <2>1 DEF IInv, RevokedIsInvalidated
  <2> QED
    BY <2>1, <2>2
<1>2. RedeemsWhatWasSigned <=> [][Step]_vars
  BY PTL DEF RedeemsWhatWasSigned
<1> QED
  BY <1>1, <1>2, Invariance, PTL DEF Spec

-----------------------------------------------------------------------------
(* Eviction.  For the tickets of the store's own the sort by issuedAt is   *)
(* the order of issue, because the clock does not run backwards and nobody *)
(* redates them; the store is full at most.                                *)
InOrderOfIssue ==
  \A i, j \in DOMAIN tickets \cap Own : i <= j =>
    tickets[i].body.issuedAt <= tickets[j].body.issuedAt

WithinLimit == IsFiniteSet(DOMAIN tickets) /\ Cardinality(DOMAIN tickets) <= MaxTickets

LEMMA LeastNatural ==
  ASSUME NEW T \in SUBSET Nat, T # {}
  PROVE  \E x \in T : \A y \in T : x <= y
<1>1. PICK x \in T : \A y \in T : ~ (<<y, x>> \in OpToRel(<, Nat))
  BY NatLessThanWellFounded, WFMin
<1>2. \A y \in T : ~(y < x)
  BY <1>1 DEF OpToRel
<1> QED
  BY <1>2

(* The first entry of the sort: the least issuedAt, and of those with that *)
(* one the least id.                                                       *)
LEMMA FirstOfSort ==
  ASSUME NEW D \in SUBSET Nat, D # {}, NEW m, DOMAIN m = D,
         \A i \in D : m[i].body.issuedAt \in Nat
  PROVE  \E k \in D : /\ Older(m, k) = {}
                      /\ \A i \in D : i # k => k \in Older(m, i)
<1> DEFINE Dates == {m[i].body.issuedAt : i \in D}
<1>1. Dates \in SUBSET Nat /\ Dates # {}
  OBVIOUS
<1>2. PICK date \in Dates : \A d \in Dates : date <= d
  BY <1>1, LeastNatural
<1> DEFINE First == {i \in D : m[i].body.issuedAt = date}
<1>3. First \in SUBSET Nat /\ First # {}
  BY <1>2
<1>4. PICK k \in First : \A i \in First : k <= i
  BY <1>3, LeastNatural
<1>5. k \in D /\ k \in Nat /\ m[k].body.issuedAt = date /\ date \in Nat
  BY <1>1, <1>4
<1>6. \A i \in D : i \in Nat /\ date <= m[i].body.issuedAt /\ m[i].body.issuedAt \in Nat
  BY <1>2
<1>7. \A i \in D : m[i].body.issuedAt = date => k <= i
  BY <1>4
<1> HIDE DEF Dates, First
<1>8. Older(m, k) = {}
  <2> SUFFICES ASSUME NEW j \in Older(m, k) PROVE FALSE
    OBVIOUS
  <2>1. /\ j \in D
        /\ \/ m[j].body.issuedAt < m[k].body.issuedAt
           \/ m[j].body.issuedAt = m[k].body.issuedAt /\ j < k
    BY DEF Older
  <2>2. /\ j \in Nat /\ date <= m[j].body.issuedAt /\ m[j].body.issuedAt \in Nat
        /\ m[j].body.issuedAt = date => k <= j
    BY <1>6, <1>7, <2>1
  <2> QED
    BY <1>5, <2>1, <2>2
<1>9. ASSUME NEW i \in D, i # k PROVE k \in Older(m, i)
  <2>1. i \in Nat /\ date <= m[i].body.issuedAt /\ m[i].body.issuedAt \in Nat
    BY <1>6
  <2>2. \/ m[k].body.issuedAt < m[i].body.issuedAt
        \/ m[k].body.issuedAt = m[i].body.issuedAt /\ k < i
    BY <1>5, <1>7, <1>9, <2>1
  <2> QED
    BY <1>5, <2>2 DEF Older
<1> QED
  BY <1>5, <1>8, <1>9

(* What issue() leaves: either there was room, or exactly the first entry  *)
(* of the sort goes.                                                       *)
LEMMA IssueEvictsFirst ==
  ASSUME IInv, InOrderOfIssue, WithinLimit, NEW b \in Bindings, Issue(b)
  PROVE  \E n \in Ids :
           /\ n = issued + 1 /\ n \notin DOMAIN tickets
           /\ DOMAIN tickets' \subseteq DOMAIN tickets \cup {n}
           /\ \A i \in DOMAIN tickets' :
                tickets'[i] = IF i = n THEN NewEntry(b) ELSE tickets[i]
           /\ WithinLimit'
           /\ \/ (DOMAIN tickets \cup {n}) \ DOMAIN tickets' = {}
              \/ Cardinality(DOMAIN tickets') = MaxTickets
           /\ \A gone \in ((DOMAIN tickets \cup {n}) \ DOMAIN tickets') \cap Own :
                \A kept \in DOMAIN tickets' \cap Own : gone < kept
<1>1. PICK n \in Ids : /\ n = issued + 1 /\ n \in Nat /\ issued \in Nat
                       /\ DOMAIN tickets \subseteq 1..issued
  BY StoreAssumption DEF Issue, IInv, TypeOK, Ids
<1> DEFINE D == DOMAIN tickets \cup {n}
           stored == [i \in D |-> IF i = n THEN NewEntry(b) ELSE tickets[i]]
<1>2. tickets' = Without(stored, Excess(stored)) /\ DOMAIN stored = D
  BY <1>1 DEF Issue
<1>3. n \notin DOMAIN tickets /\ D \in SUBSET Nat /\ D # {}
      /\ \A i \in DOMAIN tickets : i < n
  BY <1>1
<1>4. IsFiniteSet(D) /\ Cardinality(D) = Cardinality(DOMAIN tickets) + 1
      /\ Cardinality(DOMAIN tickets) \in Nat
  BY <1>3, FS_AddElement, FS_CardinalityType DEF WithinLimit
<1>5. \A i \in D : stored[i] = IF i = n THEN NewEntry(b) ELSE tickets[i]
  OBVIOUS
<1>6. NewEntry(b).body.issuedAt = now /\ now \in Nat
  BY StoreAssumption DEF NewEntry, IInv, TypeOK
<1>7. \A i \in DOMAIN tickets : /\ tickets[i].body.issuedAt \in Nat
                                /\ i \in Own => tickets[i].body.issuedAt <= now
  BY StoreAssumption DEF IInv, OwnIsAsSigned, TypeOK, Entries, Bodies, Time
<1>8. \A i \in D : stored[i].body.issuedAt \in Nat
  BY <1>5, <1>6, <1>7
<1>9. \A i, j \in D \cap Own : i <= j => stored[i].body.issuedAt <= stored[j].body.issuedAt
  <2> SUFFICES ASSUME NEW i \in D \cap Own, NEW j \in D \cap Own, i <= j
               PROVE  stored[i].body.issuedAt <= stored[j].body.issuedAt
    OBVIOUS
  <2>1. CASE j = n
    BY <1>5, <1>6, <1>7, <2>1
  <2>2. CASE j # n
    <3>1. i # n
      BY <1>1, <1>3, <2>2
    <3> QED
      BY <1>5, <2>2, <3>1 DEF InOrderOfIssue
  <2> QED
    BY <2>1, <2>2
<1> HIDE DEF stored
<1>10. /\ DOMAIN tickets' = D \ Excess(stored)
       /\ \A i \in DOMAIN tickets' : tickets'[i] = IF i = n THEN NewEntry(b) ELSE tickets[i]
  BY <1>2, <1>5 DEF Without
<1>11. \A i \in D : /\ Older(stored, i) \in SUBSET D /\ IsFiniteSet(Older(stored, i))
                    /\ Cardinality(Older(stored, i)) \in Nat
                    /\ Cardinality(Older(stored, i)) = 0 <=> Older(stored, i) = {}
  <2> SUFFICES ASSUME NEW i \in D
               PROVE  /\ Older(stored, i) \in SUBSET D /\ IsFiniteSet(Older(stored, i))
                      /\ Cardinality(Older(stored, i)) \in Nat
                      /\ Cardinality(Older(stored, i)) = 0 <=> Older(stored, i) = {}
    OBVIOUS
  <2>1. Older(stored, i) \in SUBSET D
    BY <1>2 DEF Older
  <2>2. IsFiniteSet(Older(stored, i)) /\ Cardinality(Older(stored, i)) \in Nat
    BY <1>4, <2>1, FS_Subset, FS_CardinalityType
  <2> QED
    BY <2>1, <2>2, FS_EmptySet
<1>12. CASE Cardinality(D) <= MaxTickets
  <2>1. Excess(stored) = {}
    BY <1>2, <1>4, <1>11, <1>12, StoreAssumption DEF Excess
  <2>2. DOMAIN tickets' = D
    BY <1>10, <2>1
  <2>3. WithinLimit'
    BY <1>4, <1>12, <2>2 DEF WithinLimit
  <2> QED
    BY <1>1, <1>3, <1>10, <2>2, <2>3
<1>13. CASE Cardinality(D) = MaxTickets + 1
  <2>1. PICK k \in D : /\ Older(stored, k) = {}
                       /\ \A i \in D : i # k => k \in Older(stored, i)
    BY <1>2, <1>3, <1>8, FirstOfSort
  <2>2. \A i \in D : i \in Excess(stored) <=> Older(stored, i) = {}
    BY <1>2, <1>11, <1>13, StoreAssumption DEF Excess
  <2>3. \A i \in D : i \in Excess(stored) <=> i = k
    BY <2>1, <2>2
  <2>4. DOMAIN tickets' = D \ {k}
    BY <1>10, <2>3
  <2>5. IsFiniteSet(D \ {k}) /\ Cardinality(D \ {k}) = MaxTickets
    <3> HIDE DEF D
    <3>1. IsFiniteSet(D \ {k}) /\ Cardinality(D \ {k}) = Cardinality(D) - 1
      BY <1>4, <2>1, FS_RemoveElement
    <3> QED
      BY <1>13, <3>1, StoreAssumption
  <2>6. WithinLimit' /\ Cardinality(DOMAIN tickets') = MaxTickets
    BY <2>4, <2>5, StoreAssumption DEF WithinLimit
  <2>7. ASSUME k \in Own, NEW kept \in DOMAIN tickets' \cap Own PROVE k < kept
    <3>1. kept \in D \cap Own /\ kept # k /\ k \in D \cap Own /\ k \in Nat /\ kept \in Nat
      BY <1>3, <2>1, <2>4, <2>7
    <3>2. \/ stored[k].body.issuedAt < stored[kept].body.issuedAt
          \/ stored[k].body.issuedAt = stored[kept].body.issuedAt /\ k < kept
      BY <2>1, <3>1 DEF Older
    <3>3. kept < k => stored[kept].body.issuedAt <= stored[k].body.issuedAt
      BY <1>9, <3>1
    <3> QED
      BY <1>8, <3>1, <3>2, <3>3
  <2>8. (DOMAIN tickets \cup {n}) \ DOMAIN tickets' = {k}
    BY <2>1, <2>4
  <2> HIDE DEF D
  <2>9. \A gone \in ((DOMAIN tickets \cup {n}) \ DOMAIN tickets') \cap Own :
          \A kept \in DOMAIN tickets' \cap Own : gone < kept
    BY <2>7, <2>8
  <2>10. DOMAIN tickets' \subseteq DOMAIN tickets \cup {n}
    BY <2>4 DEF D
  <2> QED
    BY <1>1, <1>3, <1>10, <2>6, <2>9, <2>10
<1> QED
  BY <1>4, <1>12, <1>13, StoreAssumption DEF WithinLimit

(* Every other step keeps the store's own entries in their place.          *)
LEMMA OthersKeepOrder ==
  ASSUME InOrderOfIssue, WithinLimit,
         DOMAIN tickets' \subseteq DOMAIN tickets,
         \A i \in DOMAIN tickets' \cap Own : tickets'[i].body = tickets[i].body
  PROVE  InOrderOfIssue' /\ WithinLimit'
<1>1. InOrderOfIssue'
  BY DEF InOrderOfIssue
<1>2. WithinLimit'
  <2>1. IsFiniteSet(DOMAIN tickets') /\ Cardinality(DOMAIN tickets') <= Cardinality(DOMAIN tickets)
    BY FS_Subset DEF WithinLimit
  <2>2. Cardinality(DOMAIN tickets') \in Nat /\ Cardinality(DOMAIN tickets) \in Nat
    BY <2>1, FS_CardinalityType DEF WithinLimit
  <2> QED
    BY <2>1, <2>2, StoreAssumption DEF WithinLimit
<1> QED
  BY <1>1, <1>2

LEMMA IssueKeepsOrder ==
  ASSUME IInv, InOrderOfIssue, WithinLimit, NEW b \in Bindings, Issue(b)
  PROVE  InOrderOfIssue' /\ WithinLimit'
<1>1. PICK n \in Ids :
        /\ n = issued + 1
        /\ DOMAIN tickets' \subseteq DOMAIN tickets \cup {n}
        /\ \A i \in DOMAIN tickets' :
             tickets'[i] = IF i = n THEN NewEntry(b) ELSE tickets[i]
        /\ WithinLimit'
  BY IssueEvictsFirst
<1>2. NewEntry(b).body.issuedAt = now /\ now \in Nat /\ issued \in Nat
  BY StoreAssumption DEF NewEntry, IInv, TypeOK
<1>3. \A i \in DOMAIN tickets \cap Own :
        tickets[i].body.issuedAt <= now /\ i <= issued /\ i \in Nat
  BY StoreAssumption DEF IInv, OwnIsAsSigned, TypeOK
<1>4. ASSUME NEW i \in DOMAIN tickets' \cap Own, NEW j \in DOMAIN tickets' \cap Own, i <= j
      PROVE  tickets'[i].body.issuedAt <= tickets'[j].body.issuedAt
  <2>1. CASE j = n
    BY <1>1, <1>2, <1>3, <2>1
  <2>2. CASE j # n
    <3>1. i # n
      BY <1>1, <1>2, <1>3, <1>4, <2>2
    <3> QED
      BY <1>1, <1>4, <2>2, <3>1 DEF InOrderOfIssue
  <2> QED
    BY <2>1, <2>2
<1> QED
  BY <1>1, <1>4 DEF InOrderOfIssue, Own

LEMMA OrderInvariant ==
  IInv /\ IInv' /\ InOrderOfIssue /\ WithinLimit /\ [Next]_vars =>
    InOrderOfIssue' /\ WithinLimit'
<1> SUFFICES ASSUME IInv, IInv', InOrderOfIssue, WithinLimit, [Next]_vars
             PROVE  InOrderOfIssue' /\ WithinLimit'
  OBVIOUS
<1> DEFINE Kept == /\ DOMAIN tickets' \subseteq DOMAIN tickets
                   /\ \A i \in DOMAIN tickets' \cap Own : tickets'[i].body = tickets[i].body
<1>1. ASSUME NEW b \in Bindings, Issue(b) PROVE InOrderOfIssue' /\ WithinLimit'
  BY <1>1, IssueKeepsOrder
<1>2. ASSUME NEW k \in Ids, NEW ctx \in Contexts, Redeem(k, ctx) PROVE Kept
  <2>1. CASE \E s \in Status : tickets' = [tickets EXCEPT ![k] = [tickets[k] EXCEPT !.status = s]]
    <3>1. PICK s \in Status : tickets' = [tickets EXCEPT ![k] = [tickets[k] EXCEPT !.status = s]]
      BY <2>1
    <3>2. \A i \in DOMAIN tickets : tickets[i] \in Entries
      BY DEF IInv, TypeOK
    <3> QED
      BY <3>1, <3>2 DEF Entries
  <2>2. CASE tickets' = Without(tickets, {k})
    BY <2>2 DEF Without
  <2>3. CASE UNCHANGED tickets
    BY <2>3
  <2> QED
    BY <1>2, <2>1, <2>2, <2>3, RedeemWrites DEF IInv, Status
<1>3. ASSUME NEW S, Cancel(S) PROVE Kept
  <2>1. DOMAIN tickets' = DOMAIN tickets
    BY <1>3 DEF Cancel
  <2>2. \A i \in DOMAIN tickets : tickets[i] \in Entries
    BY DEF IInv, TypeOK
  <2>3. \A i \in DOMAIN tickets :
          tickets'[i] = tickets[i] \/ tickets'[i] = [tickets[i] EXCEPT !.status = "invalidated"]
    BY <1>3 DEF Cancel
  <2> QED
    BY <2>1, <2>2, <2>3 DEF Entries
<1>4. ASSUME NEW k \in Ids, Mutate(k) PROVE Kept
  <2>1. k \in Held /\ \E t : tickets' = [tickets EXCEPT ![k] = t]
    BY <1>4 DEF Mutate
  <2> QED
    BY <2>1 DEF Own
<1>5. ASSUME Tick \/ UNCHANGED vars PROVE Kept
  BY <1>5 DEF Tick, vars
<1>6. Kept => InOrderOfIssue' /\ WithinLimit'
  BY OthersKeepOrder
<1> HIDE DEF Kept
<1> QED
  BY <1>1, <1>2, <1>3, <1>4, <1>5, <1>6
     DEF Next, InvalidateForCapabilityVersion, Invalidate, InvalidateWhere

THEOREM OrderInvariance == Spec => [](InOrderOfIssue /\ WithinLimit)
<1>1. Init => InOrderOfIssue /\ WithinLimit
  BY FS_EmptySet, StoreAssumption DEF Init, InOrderOfIssue, WithinLimit
<1> QED
  BY <1>1, OrderInvariant, Invariance, PTL DEF Spec

(* Eviction on issue() (ticket-store.ts:141-171, 392-405) keeps the store  *)
(* within its limit and takes no more than must go; of the store's own     *)
(* tickets it takes the oldest first, the one just issued last, however    *)
(* other tickets are redated through the objects issue() handed out.       *)
THEOREM EvictionIsFair == Spec => EvictionTakesOldest
<1> DEFINE Lost == (DOMAIN tickets \cup {issued'}) \ DOMAIN tickets'
           Step == issued' # issued =>
             LET lost == (DOMAIN tickets \cup {issued'}) \ DOMAIN tickets' IN
             /\ Cardinality(DOMAIN tickets') <= MaxTickets
             /\ lost = {} \/ Cardinality(DOMAIN tickets') = MaxTickets
             /\ \A gone \in lost \cap Own, kept \in DOMAIN tickets' \cap Own : gone < kept
<1>1. ASSUME IInv, InOrderOfIssue, WithinLimit, [Next]_vars PROVE [Step]_vars
  <2>1. CASE UNCHANGED issued
    BY <2>1
  <2>2. ASSUME NEW b \in Bindings, Issue(b) PROVE Step
    <3>1. issued' = issued + 1
      BY <2>2 DEF Issue
    <3>2. /\ WithinLimit'
          /\ Lost = {} \/ Cardinality(DOMAIN tickets') = MaxTickets
          /\ \A gone \in Lost \cap Own : \A kept \in DOMAIN tickets' \cap Own : gone < kept
      BY <1>1, <2>2, <3>1, IssueEvictsFirst
    <3> QED
      BY <3>2 DEF WithinLimit
  <2>3. ASSUME NEW k \in Ids, NEW ctx \in Contexts, Redeem(k, ctx) PROVE UNCHANGED issued
    BY <2>3 DEF Redeem
  <2>4. ASSUME NEW S, Cancel(S) PROVE UNCHANGED issued
    BY <2>4 DEF Cancel
  <2>5. ASSUME NEW i \in Ids, Mutate(i) PROVE UNCHANGED issued
    BY <2>5 DEF Mutate
  <2>6. Tick \/ UNCHANGED vars => UNCHANGED issued
    BY DEF Tick, vars
  <2> HIDE DEF Step
  <2> QED
    BY <1>1, <2>1, <2>2, <2>3, <2>4, <2>5, <2>6
       DEF Next, InvalidateForCapabilityVersion, Invalidate, InvalidateWhere
<1>2. EvictionTakesOldest <=> [][Step]_vars
  BY PTL DEF EvictionTakesOldest
<1> HIDE DEF Step
<1> QED
  BY <1>1, <1>2, Invariance, OrderInvariance, PTL DEF Spec

-----------------------------------------------------------------------------
(* Refinement.  The grant an entry stands for, in terms of the store.      *)
PhaseMeans(i) ==
  /\ GrantPhase(i) = "usable" <=> i \in DOMAIN tickets /\ tickets[i].status = "issued"
  /\ GrantPhase(i) = "usable" => GrantDeadline(i) = tickets[i].signature.expiresAt
  /\ GrantPhase(i) # "usable" => GrantDeadline(i) = 0
  /\ GrantPhase(i) = "unissued" <=> i > issued
  /\ GrantPhase(i) = "spent" <=> uses[i] > 0
  /\ GrantPhase(i) \in {"unissued", "usable", "spent", "void"}

PhasesMean == \A i \in Own : PhaseMeans(i)

LEMMA PhaseOf == IInv => PhasesMean
<1> SUFFICES ASSUME IInv, NEW i \in Own PROVE PhaseMeans(i)
  BY DEF PhasesMean
<1>1. uses[i] \in 0..2 /\ issued \in Nat /\ i \in Nat
  BY StoreAssumption DEF IInv, TypeOK, Ids, Own
<1>2. uses[i] > 0 => i <= issued /\ (i \in DOMAIN tickets => tickets[i].status = "redeemed")
  BY DEF IInv, UsedIsRedeemed
<1>3. i \in DOMAIN tickets => i <= issued
  BY <1>1 DEF IInv, TypeOK
<1> QED
  BY <1>1, <1>2, <1>3 DEF PhaseMeans, GrantPhase, GrantDeadline, Live

LEMMA PhaseOfNext == IInv' => PhasesMean'
  BY PhaseOf, PTL

(* Grants that a step leaves alone.                                        *)
LEMMA SameGrants ==
  ASSUME IInv, IInv', NEW i \in Own,
         (i \in DOMAIN tickets /\ tickets[i].status = "issued")
           <=> (i \in DOMAIN tickets' /\ tickets'[i].status = "issued"),
         i \in DOMAIN tickets' => tickets'[i].signature = tickets[i].signature,
         i > issued <=> i > issued',
         uses'[i] = uses[i]
  PROVE  GrantPhase(i)' = GrantPhase(i) /\ GrantDeadline(i)' = GrantDeadline(i)
<1>1. PhaseMeans(i) /\ PhaseMeans(i)'
  BY PhaseOf, PhaseOfNext DEF PhasesMean, Own
<1> QED
  BY <1>1 DEF PhaseMeans

(* issue() makes a grant usable and voids what it evicts; one that nobody  *)
(* will see as a grant, because its object is kept or because it is itself *)
(* the one evicted, only voids.                                            *)
LEMMA IssueRefines ==
  ASSUME IInv, IInv', InOrderOfIssue, WithinLimit, NEW b \in Bindings, Issue(b)
  PROVE  [Grant!Next]_(Grant!vars)
<1>1. PICK n \in Ids :
        /\ n = issued + 1 /\ n \notin DOMAIN tickets
        /\ DOMAIN tickets' \subseteq DOMAIN tickets \cup {n}
        /\ \A i \in DOMAIN tickets' : tickets'[i] = IF i = n THEN NewEntry(b) ELSE tickets[i]
  BY IssueEvictsFirst
<1>2. /\ issued' = issued + 1 /\ UNCHANGED <<now, uses>> /\ issued \in Nat
      /\ now \in Nat /\ now <= MaxTime
      /\ \A i \in Own : i \in Nat /\ i \in Ids
  BY StoreAssumption DEF Issue, IInv, TypeOK, Own, Ids
<1>3. NewEntry(b).status = "issued" /\ NewEntry(b).signature.expiresAt = now + TtlMs
  BY DEF NewEntry
<1>4. \A i \in Own : PhaseMeans(i) /\ PhaseMeans(i)'
  BY PhaseOf, PhaseOfNext DEF PhasesMean, Own
<1>5. n \in Own => GrantPhase(n) = "unissued"
  BY <1>1, <1>2, <1>4 DEF PhaseMeans
<1> DEFINE voided == {h \in Own : /\ h \notin DOMAIN tickets'
                                  /\ GrantPhase(h) = "usable" \/ h = n}
<1>6. voided \in SUBSET Own
  OBVIOUS
<1>7. ASSUME NEW h \in voided
      PROVE  /\ GrantPhase(h) = "usable" \/ (h = n /\ GrantPhase(h) = "unissued")
             /\ GrantPhase(h)' = "void" /\ GrantDeadline(h)' = 0
  <2>1. h \in Own /\ h \in Nat /\ h \notin DOMAIN tickets' /\ (GrantPhase(h) = "usable" \/ h = n)
    BY <1>2
  <2>2. ~(h > issued') /\ ~(uses'[h] > 0)
    BY <1>1, <1>2, <1>4, <1>5, <2>1 DEF PhaseMeans
  <2> QED
    BY <1>4, <1>5, <2>1, <2>2 DEF PhaseMeans
<1>8. ASSUME NEW h \in Own, h # n, h \notin voided
      PROVE  GrantPhase(h)' = GrantPhase(h) /\ GrantDeadline(h)' = GrantDeadline(h)
  <2>1. (h \in DOMAIN tickets /\ tickets[h].status = "issued")
          <=> (h \in DOMAIN tickets' /\ tickets'[h].status = "issued")
    BY <1>1, <1>4, <1>8 DEF PhaseMeans
  <2>2. h > issued <=> h > issued'
    BY <1>1, <1>2, <1>8
  <2> QED
    BY <1>1, <1>2, <1>8, <2>1, <2>2, SameGrants
<1>9. CASE n \in Own /\ n \in DOMAIN tickets'
  <2>1. GrantPhase(n)' = "usable" /\ GrantDeadline(n)' = now + TtlMs
    BY <1>1, <1>3, <1>4, <1>9 DEF PhaseMeans
  <2>2. n \notin voided
    BY <1>9
  <2>3. \A h \in voided : GrantPhase(h) = "usable"
    BY <1>7, <2>2
  <2>4. now + TtlMs \in Time /\ now + TtlMs >= now
    BY <1>2, StoreAssumption DEF Time
  <2> HIDE DEF voided
  <2>5. \A h \in Own :
          /\ GrantPhase(h)' = IF h = n THEN "usable"
                              ELSE IF h \in voided THEN "void" ELSE GrantPhase(h)
          /\ GrantDeadline(h)' = IF h = n THEN now + TtlMs
                                 ELSE IF h \in voided THEN 0 ELSE GrantDeadline(h)
    BY <1>7, <1>8, <2>1, <2>2
  <2>6. /\ n \in Own /\ GrantPhase(n) = "unissued" /\ UNCHANGED now
        /\ \A h \in voided : h \in Own
    BY <1>2, <1>5, <1>6, <1>9
  <2>7. Grant!Issue(n, now + TtlMs, voided)
    BY <2>3, <2>4, <2>5, <2>6 DEF Grant!Issue
  <2> QED
    BY <1>6, <2>4, <2>6, <2>7 DEF Grant!Next
<1>10. CASE ~(n \in Own /\ n \in DOMAIN tickets')
  <2>1. n \in Own => n \in voided
    BY <1>10
  <2> HIDE DEF voided
  <2>2. \A h \in Own :
          /\ GrantPhase(h)' = IF h \in voided THEN "void" ELSE GrantPhase(h)
          /\ GrantDeadline(h)' = IF h \in voided THEN 0 ELSE GrantDeadline(h)
    BY <1>7, <1>8, <2>1
  <2>3. \A h \in voided : h \in Own /\ GrantPhase(h) \in {"unissued", "usable"}
    BY <1>6, <1>7
  <2>4. Grant!Void(voided)
    BY <1>2, <2>2, <2>3 DEF Grant!Void
  <2> QED
    BY <1>6, <2>4 DEF Grant!Next
<1> QED
  BY <1>9, <1>10

(* A step that voids exactly the grants in S.                              *)
LEMMA VoidRefines ==
  ASSUME IInv, IInv', NEW S \in SUBSET Own, UNCHANGED <<now, issued, uses>>,
         \A h \in S : /\ h \in DOMAIN tickets /\ tickets[h].status = "issued"
                      /\ h \notin DOMAIN tickets' \/ tickets'[h].status # "issued",
         DOMAIN tickets' \subseteq DOMAIN tickets,
         \A h \in (DOMAIN tickets \cap Own) \ S :
            /\ h \in DOMAIN tickets' /\ tickets'[h].status = tickets[h].status
            /\ tickets'[h].signature = tickets[h].signature
  PROVE  [Grant!Next]_(Grant!vars)
<1>1. \A i \in Own : PhaseMeans(i) /\ PhaseMeans(i)'
  BY PhaseOf, PhaseOfNext DEF PhasesMean, Own
<1>2. ASSUME NEW h \in S
      PROVE  GrantPhase(h) = "usable" /\ GrantPhase(h)' = "void" /\ GrantDeadline(h)' = 0
  BY <1>1 DEF PhaseMeans
<1>3. ASSUME NEW h \in Own, h \notin S
      PROVE  GrantPhase(h)' = GrantPhase(h) /\ GrantDeadline(h)' = GrantDeadline(h)
  BY <1>1, <1>3 DEF PhaseMeans
<1>4. \A h \in Own :
        /\ GrantPhase(h)' = IF h \in S THEN "void" ELSE GrantPhase(h)
        /\ GrantDeadline(h)' = IF h \in S THEN 0 ELSE GrantDeadline(h)
  BY <1>2, <1>3
<1>5. Grant!Void(S)
  BY <1>2, <1>4 DEF Grant!Void
<1> QED
  BY <1>5 DEF Grant!Next

(* A step that leaves every grant as it is.                                *)
LEMMA StutterRefines ==
  ASSUME IInv, IInv', UNCHANGED <<now, issued>>,
         \A i \in Own : /\ uses'[i] = uses[i]
                        /\ i \in DOMAIN tickets <=> i \in DOMAIN tickets'
                        /\ i \in DOMAIN tickets => tickets'[i] = tickets[i]
  PROVE  UNCHANGED Grant!vars
<1>1. \A h \in Own : GrantPhase(h)' = GrantPhase(h) /\ GrantDeadline(h)' = GrantDeadline(h)
  BY SameGrants
<1> QED
  BY <1>1 DEF Grant!vars, Own

LEMMA SpendRefines ==
  ASSUME IInv, IInv', NEW k \in Own, NEW ctx \in Contexts, Redeem(k, ctx),
         Verdict(k, ctx) = "ok"
  PROVE  Grant!Spend(k)
<1>1. \A i \in Own : PhaseMeans(i) /\ PhaseMeans(i)'
  BY PhaseOf, PhaseOfNext DEF PhasesMean, Own
<1>2. /\ tickets' = [tickets EXCEPT ![k] = [tickets[k] EXCEPT !.status = "redeemed"]]
      /\ uses' = [uses EXCEPT ![k] = OneMore(@)] /\ k \in Ids
      /\ UNCHANGED <<now, issued>>
  BY RedeemWrites DEF IInv, Own
<1>3. /\ k \in DOMAIN tickets /\ tickets[k].status = "issued"
      /\ now <= tickets[k].body.expiresAt /\ tickets[k].body = tickets[k].signature
  BY OkMeansSound DEF IInv, OwnIsAsSigned, Own
<1>4. GrantPhase(k) = "usable" /\ now <= GrantDeadline(k)
  BY <1>1, <1>3 DEF PhaseMeans
<1>5. uses'[k] > 0
  BY <1>2 DEF IInv, TypeOK, OneMore
<1>6. GrantPhase(k)' = "spent" /\ GrantDeadline(k)' = 0
  BY <1>1, <1>5 DEF PhaseMeans
<1>7. ASSUME NEW h \in Own, h # k
      PROVE  GrantPhase(h)' = GrantPhase(h) /\ GrantDeadline(h)' = GrantDeadline(h)
  <2>1. /\ DOMAIN tickets' = DOMAIN tickets
        /\ h \in DOMAIN tickets => tickets'[h] = tickets[h]
        /\ uses'[h] = uses[h]
    BY <1>2, <1>7 DEF IInv, TypeOK, Own
  <2> QED
    BY <1>2, <2>1, SameGrants
<1>8. \A h \in Own :
        /\ GrantPhase(h)' = IF h = k THEN "spent" ELSE GrantPhase(h)
        /\ GrantDeadline(h)' = IF h = k THEN 0 ELSE GrantDeadline(h)
  BY <1>6, <1>7
<1> QED
  BY <1>2, <1>4, <1>8 DEF Grant!Spend

LEMMA RedeemRefines ==
  ASSUME IInv, IInv', NEW k \in Ids, NEW ctx \in Contexts, Redeem(k, ctx)
  PROVE  [Grant!Next]_(Grant!vars)
<1> DEFINE code == Verdict(k, ctx)
<1>1. /\ UNCHANGED <<now, issued>>
      /\ code \in {"ok", "tampered", "expired"} => k \in DOMAIN tickets /\ tickets[k] \in Entries
      /\ k \in Own <=> k \notin Held
  BY RedeemWrites DEF IInv, TypeOK, Own
<1>2. CASE code = "ok" /\ k \in Own
  BY <1>2, SpendRefines DEF Grant!Next
<1>3. CASE code = "ok" /\ k \notin Own
  <2>1. /\ tickets' = [tickets EXCEPT ![k] = [tickets[k] EXCEPT !.status = "redeemed"]]
        /\ uses' = [uses EXCEPT ![k] = OneMore(@)]
    BY <1>3, RedeemWrites DEF IInv
  <2>2. \A i \in Own : i # k /\ i \in Ids
    BY <1>3 DEF Own
  <2>3. \A i \in Own : /\ uses'[i] = uses[i]
                       /\ i \in DOMAIN tickets <=> i \in DOMAIN tickets'
                       /\ i \in DOMAIN tickets => tickets'[i] = tickets[i]
    BY <2>1, <2>2 DEF IInv, TypeOK
  <2> QED
    BY <1>1, <2>3, StutterRefines
<1>4. CASE code = "tampered"
  <2>1. /\ tickets' = [tickets EXCEPT ![k] = [tickets[k] EXCEPT !.status = "tampered"]]
        /\ uses' = uses
        /\ tickets[k].status # "tampered" => tickets[k].body # tickets[k].signature
    BY <1>4, RedeemWrites DEF IInv
  <2>2. k \in Own => tickets[k].status = "tampered"
    BY <1>1, <1>4, <2>1 DEF IInv, OwnIsAsSigned
  <2>3. \A i \in DOMAIN tickets : i = k /\ i \in Own => tickets'[i] = tickets[i]
    BY <1>1, <1>4, <2>1, <2>2 DEF Entries
  <2>4. /\ DOMAIN tickets' = DOMAIN tickets
        /\ \A i \in DOMAIN tickets \cap Own : tickets'[i] = tickets[i]
    BY <2>1, <2>3
  <2> QED
    BY <1>1, <2>1, <2>4, StutterRefines
<1>5. CASE code = "expired"
  <2>1. /\ tickets' = Without(tickets, {k}) /\ uses' = uses
        /\ tickets[k].status \in {"issued", "expired"}
    BY <1>5, RedeemWrites DEF IInv
  <2>2. /\ DOMAIN tickets' = DOMAIN tickets \ {k}
        /\ \A i \in DOMAIN tickets' : tickets'[i] = tickets[i]
    BY <2>1 DEF Without
  <2>3. k \in Own => tickets[k].status = "issued"
    BY <1>1, <1>5, <2>1 DEF IInv, OwnIsAsSigned
  <2>4. {k} \cap Own \in SUBSET Own /\ UNCHANGED <<now, issued, uses>>
    BY <1>1, <2>1
  <2>5. \A h \in {k} \cap Own :
          /\ h \in DOMAIN tickets /\ tickets[h].status = "issued"
          /\ h \notin DOMAIN tickets' \/ tickets'[h].status # "issued"
    BY <1>1, <1>5, <2>2, <2>3
  <2>6. /\ DOMAIN tickets' \subseteq DOMAIN tickets
        /\ \A h \in (DOMAIN tickets \cap Own) \ ({k} \cap Own) :
             /\ h \in DOMAIN tickets' /\ tickets'[h].status = tickets[h].status
             /\ tickets'[h].signature = tickets[h].signature
    BY <2>2
  <2> QED
    BY <2>4, <2>5, <2>6, VoidRefines
<1>6. CASE code \notin {"ok", "tampered", "expired"}
  <2>1. UNCHANGED <<tickets, uses>>
    BY <1>6, RedeemWrites DEF IInv
  <2> QED
    BY <1>1, <2>1, StutterRefines
<1> QED
  BY <1>2, <1>3, <1>4, <1>5, <1>6

LEMMA CancelRefines ==
  ASSUME IInv, IInv', NEW S, Cancel(S)
  PROVE  [Grant!Next]_(Grant!vars)
<1> DEFINE hit == {i \in S \cap DOMAIN tickets : Live(i)}
<1>1. /\ UNCHANGED <<now, issued, uses>> /\ DOMAIN tickets' = DOMAIN tickets
      /\ \A i \in hit : tickets'[i] = [tickets[i] EXCEPT !.status = "invalidated"]
      /\ \A i \in DOMAIN tickets \ hit : tickets'[i] = tickets[i]
  BY DEF Cancel
<1>2. \A i \in hit : /\ i \in DOMAIN tickets /\ tickets[i].status = "issued"
                     /\ tickets[i] \in Entries
  BY DEF Live, IInv, TypeOK
<1>3. \A i \in hit : tickets'[i].status = "invalidated"
  BY <1>1, <1>2 DEF Entries
<1> HIDE DEF hit
<1>4. hit \cap Own \in SUBSET Own
  OBVIOUS
<1>5. \A h \in hit \cap Own :
        /\ h \in DOMAIN tickets /\ tickets[h].status = "issued"
        /\ h \notin DOMAIN tickets' \/ tickets'[h].status # "issued"
  BY <1>2, <1>3
<1>6. /\ DOMAIN tickets' \subseteq DOMAIN tickets
      /\ \A h \in (DOMAIN tickets \cap Own) \ (hit \cap Own) :
           /\ h \in DOMAIN tickets' /\ tickets'[h].status = tickets[h].status
           /\ tickets'[h].signature = tickets[h].signature
  BY <1>1
<1> QED
  BY <1>1, <1>4, <1>5, <1>6, VoidRefines

(* Writing into a kept object touches no grant of the store's own.         *)
LEMMA MutateRefines ==
  ASSUME IInv, IInv', NEW k \in Ids, Mutate(k)
  PROVE  UNCHANGED Grant!vars
<1>1. /\ k \in Held /\ UNCHANGED <<now, issued, uses>>
      /\ \E t : tickets' = [tickets EXCEPT ![k] = t]
  BY DEF Mutate
<1>2. \A i \in Own : /\ i \in DOMAIN tickets <=> i \in DOMAIN tickets'
                     /\ i \in DOMAIN tickets => tickets'[i] = tickets[i]
  BY <1>1 DEF Own
<1> QED
  BY <1>1, <1>2, StutterRefines

LEMMA TickRefines ==
  ASSUME IInv, IInv', Tick
  PROVE  Grant!Tick
<1>1. now' = now + 1 /\ UNCHANGED <<tickets, issued, uses>>
  BY DEF Tick
<1>2. \A h \in Own : GrantPhase(h)' = GrantPhase(h) /\ GrantDeadline(h)' = GrantDeadline(h)
  BY <1>1, SameGrants
<1> QED
  BY <1>1, <1>2 DEF Grant!Tick, Own

LEMMA StepRefines ==
  IInv /\ IInv' /\ InOrderOfIssue /\ WithinLimit /\ [Next]_vars => [Grant!Next]_(Grant!vars)
<1> SUFFICES ASSUME IInv, IInv', InOrderOfIssue, WithinLimit, [Next]_vars
             PROVE  [Grant!Next]_(Grant!vars)
  OBVIOUS
<1>1. ASSUME NEW b \in Bindings, Issue(b) PROVE [Grant!Next]_(Grant!vars)
  BY <1>1, IssueRefines
<1>2. ASSUME NEW k \in Ids, NEW ctx \in Contexts, Redeem(k, ctx)
      PROVE  [Grant!Next]_(Grant!vars)
  BY <1>2, RedeemRefines
<1>3. ASSUME NEW S, Cancel(S) PROVE [Grant!Next]_(Grant!vars)
  BY <1>3, CancelRefines
<1>4. ASSUME NEW k \in Ids, Mutate(k) PROVE [Grant!Next]_(Grant!vars)
  BY <1>4, MutateRefines
<1>5. CASE Tick
  BY <1>5, TickRefines DEF Grant!Next
<1>6. CASE UNCHANGED vars
  <2>1. UNCHANGED <<now, tickets, issued, uses>>
    BY <1>6 DEF vars
  <2> QED
    BY <2>1, StutterRefines
<1> QED
  BY <1>1, <1>2, <1>3, <1>4, <1>5, <1>6
     DEF Next, InvalidateForCapabilityVersion, Invalidate, InvalidateWhere

LEMMA InitRefines == Init => Grant!Init
<1> SUFFICES ASSUME Init PROVE Grant!Init
  OBVIOUS
<1>1. /\ now = 0 /\ DOMAIN tickets = {} /\ issued = 0
      /\ \A i \in Own : uses[i] = 0 /\ i > issued
  BY StoreAssumption DEF Init, Ids, Own
<1>2. \A i \in Own : GrantPhase(i) = "unissued" /\ GrantDeadline(i) = 0
  BY <1>1 DEF GrantPhase, GrantDeadline
<1> QED
  BY <1>1, <1>2 DEF Grant!Init

(* The store implements the single-use grant: every ticket of its own is   *)
(* spent at most once, only inside the lifetime issue() gave it, and what  *)
(* is spent or void stays so, whatever happens to the tickets whose object *)
(* somebody keeps (ticket-store.ts:100-405).                               *)
THEOREM StoreImplementsSingleUse == Spec => ImplementsSingleUse
<1>1. []IInv /\ [](InOrderOfIssue /\ WithinLimit) /\ [][Next]_vars => [][Grant!Next]_(Grant!vars)
  BY StepRefines, PTL
<1> QED
  BY <1>1, InitRefines, Invariance, OrderInvariance, PTL DEF Spec, ImplementsSingleUse, Grant!Spec
=============================================================================
