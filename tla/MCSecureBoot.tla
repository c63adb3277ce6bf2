---------------------------- MODULE MCSecureBoot ----------------------------
(* SecureBoot with three key pairs: one enrolled, one installed and one    *)
(* newly made can all differ.                                              *)
EXTENDS Status, TLC

CONSTANTS p1, p2, p3

MCPairs == {p1, p2, p3}
AnyPair == Permutations(MCPairs)
=============================================================================
