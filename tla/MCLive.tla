------------------------------- MODULE MCLive -------------------------------
(* One campaign's pages in one browser, and one other client with tokens. *)
EXTENDS LiveUpdates
=============================================================================
