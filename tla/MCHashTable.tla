----------------------------- MODULE MCHashTable ----------------------------
(* Model-checking instances of HashTable.  Every hash function from the     *)
(* keys to 0..MaxHash is tried, so every pattern of collisions occurs.      *)
EXTENDS HashTable, TLC

(* Keys differ only by their hashes, values not at all.                     *)
Symmetry == Permutations(Keys) \cup Permutations(Values)
=============================================================================
