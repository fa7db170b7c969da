---------------------------- MODULE MCFppCommand ----------------------------
(***************************************************************************)
(* FppCommand for TLC.  Its constants are plain model values, given in the *)
(* cfg files; the liveness property rules symmetry out.                    *)
(***************************************************************************)
EXTENDS FppCommand
=============================================================================
