------------------------------ MODULE MCAesCtr ------------------------------
(***************************************************************************)
(* Blocks of two bytes of two bits: every carry and the wrap of the whole  *)
(* counter happen within a message, and sixteen counters are enough for it.*)
(***************************************************************************)
EXTENDS AesCtr, Bitwise

MCXorByte(a, b) == a ^^ b
\* A permutation of the counters that is not linear.
MCCipher(iv) ==
  LET x == (iv[0] * 4 + iv[1]) * (iv[0] * 4 + iv[1] + 7) + 3 * iv[1] IN
    [k \in Offset |-> IF k = 0 THEN (x + iv[0]) % 4 ELSE (x \div 4 + iv[1]) % 4]
MCMessage == {[j \in Index |-> j % 4]}
=============================================================================
