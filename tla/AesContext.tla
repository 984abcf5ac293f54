----------------------------- MODULE AesContext -----------------------------
(***************************************************************************)
(* The part of struct AES_ctx (aes.h:44-50) that the key schedule writes   *)
(* and the cipher reads, as words of four bytes, and the sizes the build   *)
(* gives it (aes.h:33-42, aes.c:42-58).                                    *)
(***************************************************************************)
EXTENDS AesSteps

CONSTANTS
  Nr,            \* rounds
  RoundKeys      \* what the array may hold before a key is expanded into it

Words == Nb * (Nr + 1)
Word == [Four -> Byte]
Schedule == [0..Words - 1 -> Word]

\* Nr is counted in a uint8_t.
ASSUME ContextAssumption == Nr \in 1..255 /\ RoundKeys \subseteq Schedule

VARIABLE RoundKey
=============================================================================
