----------------------------- MODULE MCCsiReader -----------------------------
(* Instances of CsiReader for TLC.                                         *)
EXTENDS CsiReader

CONSTANTS h1, h2

MCBlockLens == 1 .. 7
=============================================================================
