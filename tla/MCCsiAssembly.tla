---------------------------- MODULE MCCsiAssembly ----------------------------
(* Instances of CsiAssembly for TLC.                                       *)
EXTENDS CsiAssembly
=============================================================================
