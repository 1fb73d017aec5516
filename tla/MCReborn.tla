------------------------------ MODULE MCReborn ------------------------------
(* Reborn on a small instance for TLC.                                     *)
EXTENDS Reborn

CONSTANTS a, b, empty, d1, d2
=============================================================================
