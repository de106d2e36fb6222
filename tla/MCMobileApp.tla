---------------------------- MODULE MCMobileApp ----------------------------
(* MobileApp with two hosts, a pairing code of each, a challenge of the first *)
(* and a forged one that names the second.                                  *)
EXTENDS MobileApp

CONSTANTS c1, c2, h1, h2, p1, p2

MCChallenges ==
    {[id |-> c1, host |-> h1, genuine |-> TRUE, expiresAt |-> 1],
     [id |-> c2, host |-> h2, genuine |-> FALSE, expiresAt |-> 1]}
MCPairings ==
    {[host |-> h1, genuine |-> TRUE, expiresAt |-> 1],
     [host |-> h2, genuine |-> TRUE, expiresAt |-> 1]}
=============================================================================
