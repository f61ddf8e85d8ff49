----------------------------- MODULE MCIndexer ------------------------------
(* Model-checking instances of Indexer. *)
EXTENDS Indexer

\* enough for a target of two to be reached in one contribution or in two; zero is
\* the payout that goes with a full refund and a full payout
UpToTwo == 0 .. 2

\* polls are interchangeable
PollSymmetry == Permutations(Polls)
=============================================================================
