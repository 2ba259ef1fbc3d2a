------------------------------ MODULE MCCooker ------------------------------
(***************************************************************************)
(* Two UIs, one after the other, for TLC.                                  *)
(***************************************************************************)
EXTENDS Cooker, TLC

CONSTANTS u1, u2

=============================================================================
