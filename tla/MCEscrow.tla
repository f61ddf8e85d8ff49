------------------------------ MODULE MCEscrow ------------------------------
(* Model-checking instances of ProductionEscrow. *)
EXTENDS ProductionEscrow

\* the arguments of the one-campaign instance, illegal ones included
SmallAmounts == -1 .. 4

\* the arguments of the two-campaign instance
PairAmounts == 0 .. 2

\* campaigns and tokens are interchangeable: only their equality is ever tested
PairSymmetry == Permutations(CampaignIds) \cup Permutations(Tokens)
=============================================================================
