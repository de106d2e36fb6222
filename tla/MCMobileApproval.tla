-------------------------- MODULE MCMobileApproval --------------------------
(* MobileApproval with two requests and one device. *)
EXTENDS MobileApproval

CONSTANTS c1, c2, phone
=============================================================================
