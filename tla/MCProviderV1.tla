---------------------------- MODULE MCProviderV1 ----------------------------
(* ProviderV1 with two requests and one device. *)
EXTENDS ProviderV1

CONSTANTS c1, c2, phone
=============================================================================
