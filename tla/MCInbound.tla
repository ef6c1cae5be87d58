----------------------------- MODULE MCInbound ------------------------------
(* Instances of Inbound for TLC.                                           *)
EXTENDS Inbound, TLC

CONSTANTS m1, m2, m3

=============================================================================
