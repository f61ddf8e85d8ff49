--------------------------- MODULE MCRegistryIndex ---------------------------
(* Model-checking instance of RegistryIndex, and with it of Registry. *)
EXTENDS RegistryIndex

\* campaigns are interchangeable
RegistrySymmetry == Permutations(Ids)
=============================================================================
