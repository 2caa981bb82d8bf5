----------------------------- MODULE MCProgram -----------------------------
(* Instances of Program for TLC.                                           *)
EXTENDS Program

CONSTANTS s1, s2
=============================================================================
