----------------------------- MODULE MCFthArray -----------------------------
(* FthList for TLC: chunks of 2 cells and at most 3 chunks, so that the   *)
(* buffer grows, moves its data, shrinks and reaches its limit within a    *)
(* handful of words.                                                       *)
EXTENDS FthList

MCInserted == {<<>>, <<Nil, False>>}
MCIndex == {-2, 0, 1, 2}
=============================================================================
