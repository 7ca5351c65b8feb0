----------------------------- MODULE KeyHashMC -----------------------------
(* Small instances of KeyHash: strs of up to three bytes, and addresses of *)
(* eight bytes, two of which are not 0.                                    *)
EXTENDS KeyHash, SequencesExt, Bitwise

Bytes == {0, 1, 97, 127, 128, 255}

Strings == BoundedSeq(Bytes, 2) \cup {<<97, b, c>> : b, c \in Bytes}

Addresses ==
  {[n \in 1 .. 8 |-> IF n = m THEN b ELSE IF n = k THEN 97 ELSE 0] :
     m \in {1, 4, 8}, k \in {2, 7}, b \in Bytes}

\* Xor16 is the exclusive or of the library.
ASSUME XorAssumption ==
  \A x \in 0 .. 255, y \in Bytes :
    /\ Xor16(x, y) = x ^^ y
    /\ Xor16(256 * x + y, 256 * y + x) = (256 * x + y) ^^ (256 * y + x)

StringsAndAddresses == Strings \cup Addresses
=============================================================================
