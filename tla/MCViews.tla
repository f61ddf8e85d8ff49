------------------------------ MODULE MCViews -------------------------------
(* Model-checking instance of Console, and with it of Views. *)
EXTENDS Console

\* a target of three can be reached in one contribution or in several, by one investor
\* or by both
UpToThree == 0 .. 3
=============================================================================
