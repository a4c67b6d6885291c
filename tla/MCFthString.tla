----------------------------- MODULE MCFthString ----------------------------
(* FthString for TLC: chunks of 3 cells, two or three of them in the        *)
(* largest buffer, and the chars newline, A and a.                          *)
EXTENDS FthString, TLC

MCUpper == 1 :> 1 @@ 2 :> 2 @@ 3 :> 2
MCLower == 1 :> 1 @@ 2 :> 3 @@ 3 :> 3
MCAdded == {<<>>, <<3>>, <<1, 2>>}
MCIndex == {-1, 0, 1, 3}
MCLength == {-1, 0, 2, MAX_SEQ_LENGTH + 1}
=============================================================================
