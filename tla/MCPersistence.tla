---------------------------- MODULE MCPersistence ----------------------------
(* Instances of Persistence for TLC: symmetry of the sets whose elements the *)
(* specification treats alike, for the runs that check safety only.          *)
EXTENDS Persistence, TLC

Symmetry ==
  Permutations(Vars) \union Permutations(Writers) \union Permutations(Inodes)

===============================================================================
