------------------------------ MODULE MCBonding ------------------------------
(* Model of Bonding for TLC.                                               *)
EXTENDS Bonding
=============================================================================
