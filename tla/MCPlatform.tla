----------------------------- MODULE MCPlatform -----------------------------
(* Model-checking instance of Platform. *)
EXTENDS Platform

\* enough for a target of two to be reached in one contribution or in two; zero is
\* the payout that goes with a full refund and a full payout
UpToTwo == 0 .. 2
=============================================================================
