------------------------------ MODULE MCAesCbc ------------------------------
(***************************************************************************)
(* Blocks of three bits, and a permutation of them that is not linear.     *)
(***************************************************************************)
EXTENDS AesCbc, Bitwise

MCBlock == 0..7
MCXor(a, b) == a ^^ b
Permutation == <<3, 6, 0, 5, 7, 1, 4, 2>>
MCCipher(b) == Permutation[b + 1]
MCInvCipher(b) == CHOOSE a \in MCBlock : MCCipher(a) = b
MCMessage == [1..3 -> {0, 5}]
=============================================================================
