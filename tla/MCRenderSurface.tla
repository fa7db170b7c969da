-------------------------- MODULE MCRenderSurface --------------------------
(***************************************************************************)
(* RenderSurface for TLC: two surfaces, two sequences of different step    *)
(* times, two goroutines.                                                  *)
(***************************************************************************)
EXTENDS RenderSurface, TLC

CONSTANTS s1, s2, slow, fast, o1, o2

MCOrder == <<s1, s2>>
MCContents == {slow, fast}
MCStepTime == [c \in MCContents |-> IF c = slow THEN 50 ELSE 25]

MCOps == {o1, o2}
SameOps == Permutations(MCOps)
=============================================================================
