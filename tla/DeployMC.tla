------------------------------- MODULE DeployMC --------------------------------
(* Instances of Deploy for TLC: one package of module A and one whose      *)
(* manifest does not parse.                                                *)

EXTENDS Deploy

CONSTANTS A, B, u, v, wasm

MCIdOf == [p \in Packages |-> IF p[wasm] = u THEN A ELSE None]

================================================================================
