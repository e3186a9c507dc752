------------------------- MODULE MCTransparentLogo -------------------------
(* Instances of TransparentLogo for TLC. *)
EXTENDS TransparentLogo

\* A 5 x 5 image: a way in from the upper edge, the two sides of a ring, its
\* centre, and the pixels of the edges between the sampled ones.
Ring ==
  LET gap   == {<<1, 0>>, <<1, 1>>}
      left  == {<<2, 1>>, <<1, 2>>}
      right == {<<3, 1>>, <<3, 2>>, <<3, 3>>, <<2, 3>>, <<1, 3>>}
      edge  == {<<3, 0>>, <<1, 4>>, <<3, 4>>, <<0, 1>>, <<0, 3>>, <<4, 1>>, <<4, 3>>}
  IN  {gap, left, right, edge, {<<2, 2>>}}
=============================================================================
