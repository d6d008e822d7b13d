------------------------------- MODULE MCPmap -------------------------------
(* Two address spaces of three addresses, two of them under one table.     *)
EXTENDS Pmap, TLC

CONSTANTS v3, d1, d2

MCPDX == [va \in VA |-> IF va = v3 THEN d2 ELSE d1]

Symmetry == Permutations(Page \ {ZeroPage}) \cup Permutations(Env)
=============================================================================
