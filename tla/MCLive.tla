------------------------------- MODULE MCLive -------------------------------
(* A small instance of Live for TLC.                                       *)
EXTENDS Live

CONSTANTS c1, c2
=============================================================================
