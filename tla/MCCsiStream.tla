----------------------------- MODULE MCCsiStream -----------------------------
(* Instances of CsiStream for TLC.                                         *)
EXTENDS CsiStream
=============================================================================
