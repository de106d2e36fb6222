--------------------------- MODULE SingleUseGrant ---------------------------
(***************************************************************************)
(* What an authorization ticket promises, with no store behind it: a grant *)
(* is usable for a while, is spent at most once and only inside its        *)
(* window, and once it is spent or void it stays so.  TicketStore is shown *)
(* to implement this specification.                                        *)
(***************************************************************************)
EXTENDS Naturals

CONSTANTS
  Grants,     \* the identities a grant may have
  Deadlines   \* the points in time at which a grant may lapse

VARIABLES
  clock,      \* the current time
  phase,      \* phase[g]: "unissued", "usable", "spent" or "void"
  deadline    \* deadline[g]: last moment at which a usable g can be spent, else 0

vars == <<clock, phase, deadline>>

Init ==
  /\ clock = 0
  /\ phase = [g \in Grants |-> "unissued"]
  /\ deadline = [g \in Grants |-> 0]

(* A grant becomes usable; issuing it may void others to make room.        *)
Issue(g, d, voided) ==
  /\ phase[g] = "unissued"
  /\ d >= clock
  /\ \A h \in voided : phase[h] = "usable"
  /\ phase' = [h \in Grants |-> IF h = g THEN "usable"
                                ELSE IF h \in voided THEN "void" ELSE phase[h]]
  /\ deadline' = [h \in Grants |-> IF h = g THEN d
                                   ELSE IF h \in voided THEN 0 ELSE deadline[h]]
  /\ UNCHANGED clock

(* The single use of a grant, inside its window.                           *)
Spend(g) ==
  /\ phase[g] = "usable"
  /\ clock <= deadline[g]
  /\ phase' = [phase EXCEPT ![g] = "spent"]
  /\ deadline' = [deadline EXCEPT ![g] = 0]
  /\ UNCHANGED clock

(* Any set of grants is withdrawn, before their use or before anyone could *)
(* use them.                                                               *)
Void(voided) ==
  /\ \A h \in voided : phase[h] \in {"unissued", "usable"}
  /\ phase' = [h \in Grants |-> IF h \in voided THEN "void" ELSE phase[h]]
  /\ deadline' = [h \in Grants |-> IF h \in voided THEN 0 ELSE deadline[h]]
  /\ UNCHANGED clock

Tick == clock' = clock + 1 /\ UNCHANGED <<phase, deadline>>

Next ==
  \/ \E g \in Grants, d \in Deadlines, voided \in SUBSET Grants : Issue(g, d, voided)
  \/ \E g \in Grants : Spend(g)
  \/ \E voided \in SUBSET Grants : Void(voided)
  \/ Tick

Spec == Init /\ [][Next]_vars
=============================================================================
