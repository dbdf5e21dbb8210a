------------------------------ MODULE MCPayout ------------------------------
(* Model of Payout for TLC.                                               *)
EXTENDS Payout

=============================================================================
