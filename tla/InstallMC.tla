------------------------------- MODULE InstallMC -------------------------------
(* Instances of Install for TLC: a package is a .wasm file with or without *)
(* a .component.toml, each of one of two revisions.  The toml, where there *)
(* is one, names module A or B; without it, revision u of the .wasm is     *)
(* module A, and v does not parse.                                         *)

EXTENDS Install, TLC

CONSTANTS A, B, u, v, wasm, toml

MCIdOf ==
  [p \in Packages |->
     IF toml \in DOMAIN p
       THEN IF p[toml] = u THEN A ELSE B
       ELSE IF p[wasm] = u THEN A ELSE None]

Symmetry == Permutations(Installers)

================================================================================
