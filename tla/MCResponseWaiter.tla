-------------------------- MODULE MCResponseWaiter --------------------------
(***************************************************************************)
(* ResponseWaiter for TLC, with plain model values from the cfg files.     *)
(***************************************************************************)
EXTENDS ResponseWaiter
=============================================================================
