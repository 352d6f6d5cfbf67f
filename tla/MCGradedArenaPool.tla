-------------------------- MODULE MCGradedArenaPool --------------------------
(* Six bit sizes: the rungs are 8, 16 and 32.  Ladders with a gap, with a  *)
(* repeat, out of order, off the powers and beyond the range.              *)
EXTENDS GradedArenaPool, TLC

SizeLists ==
  { <<>>, <<8>>, <<8, 16, 32>>, <<8, 32>>, <<16, 16>>, <<32, 8>>, <<4, 8>>, <<12>>,
    <<8, 16, 32, 32>> }

Names == Permutations(Arenas)
=============================================================================
