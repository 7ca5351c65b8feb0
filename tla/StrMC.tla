-------------------------------- MODULE StrMC --------------------------------
(* A small instance of Str: every text of a null character, a space and a  *)
(* character that is negative as a signed char.                            *)
EXTENDS Str, SequencesExt

Bytes     == {-1, 0, 32}
Blank     == {32}
Texts     == BoundedSeq(Bytes, 4)
Arguments == BoundedSeq(Bytes, 3)
=============================================================================
