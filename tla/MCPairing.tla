----------------------------- MODULE MCPairing ------------------------------
(* Pairing with two devices, whose names are interchangeable.              *)
EXTENDS Pairing, TLC

CONSTANTS phone, tablet

DeviceSymmetry == Permutations(DeviceIds)
=============================================================================
