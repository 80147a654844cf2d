----------------------------- MODULE MCHashRing -----------------------------
(***************************************************************************)
(* Three nodes with two virtual nodes each on a ring of six hashes: every   *)
(* placement, from all on one hash to all on different ones, up to the      *)
(* names of the nodes and the numbers of their virtual nodes.               *)
(***************************************************************************)
EXTENDS HashRing, TLC

Symmetric == Permutations(Nodes) \cup Permutations(Virtual)
=============================================================================
