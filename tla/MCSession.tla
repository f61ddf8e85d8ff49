----------------------------- MODULE MCSession ------------------------------
(* Two accounts in one browser, and two ids to create under. *)
EXTENDS Session

\* ids are interchangeable, and so are accounts
SessionSymmetry == Permutations(Ids) \cup Permutations(Owners)
=============================================================================
