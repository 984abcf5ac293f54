----------------------------- MODULE AesCipher -----------------------------
(***************************************************************************)
(* Cipher and InvCipher (aes.c:413-461), one action per step of a round: a *)
(* block is encrypted in place and decrypted in place, as AES_ECB_encrypt  *)
(* and AES_ECB_decrypt do it (aes.c:470-480).                              *)
(*                                                                         *)
(* The two loops are not mirror images: the short round is the last of one *)
(* and the first of the other, and each has one AddRoundKey outside.       *)
(***************************************************************************)
EXTENDS AesContext

CONSTANT Plain           \* blocks the program encrypts
ASSUME PlainAssumption == Plain \subseteq State

Step == {"SubBytes", "ShiftRows", "MixColumns", "AddRoundKey"}
InvStep == {"InvShiftRows", "InvSubBytes", "AddRoundKey", "InvMixColumns"}

VARIABLES
  state,         \* the block
  op,            \* "Cipher", "InvCipher", or between two calls
  round, step,   \* the step to be done
  plain, past    \* history: the block as given, and before each step of Cipher

cipherVars == <<state, op, round, step, plain, past>>
vars == <<RoundKey, cipherVars>>

\* A step of Cipher leaves the block s, and r and next to be done.
CipherStep(s, r, next) ==
  /\ op = "Cipher" /\ op' = op
  /\ state' = s /\ round' = r /\ step' = next
  /\ past' = [past EXCEPT ![r][next] = s]
  /\ UNCHANGED <<RoundKey, plain>>
InvCipherStep(s, r, next) ==
  /\ op = "InvCipher" /\ op' = op
  /\ state' = s /\ round' = r /\ step' = next
  /\ UNCHANGED <<RoundKey, plain, past>>
Returns(o, s, next) ==
  /\ op = o /\ op' = next
  /\ state' = s
  /\ UNCHANGED <<RoundKey, round, step, plain, past>>

AES_ECB_encrypt(m) ==
  /\ op \in {"idle", "decrypted"} /\ op' = "Cipher"
  /\ state' = m /\ plain' = m
  /\ round' = 0 /\ step' = "AddRoundKey"
  /\ past' = [past EXCEPT ![0]["AddRoundKey"] = m]
  /\ UNCHANGED RoundKey

CipherSubBytes ==
  /\ step = "SubBytes"
  /\ CipherStep(SubBytes(state), round, "ShiftRows")

\* Mutant: the last round is as long as the others.
CipherShiftRowsNoBreak ==
  /\ step = "ShiftRows"
  /\ CipherStep(ShiftRows(state), round, "MixColumns")
\* The last round breaks here.
CipherShiftRows ==
  /\ step = "ShiftRows"
  /\ CipherStep(ShiftRows(state), round, IF round = Nr THEN "AddRoundKey" ELSE "MixColumns")

CipherMixColumns ==
  /\ step = "MixColumns"
  /\ CipherStep(MixColumns(state), round, "AddRoundKey")

\* Mutant: there is no last round.
CipherAddRoundKeyNoStop ==
  /\ step = "AddRoundKey"
  /\ CipherStep(AddRoundKey(round, state, RoundKey), round + 1, "SubBytes")
\* Round 0 is before the loop, round Nr is after it.
CipherAddRoundKey ==
  /\ step = "AddRoundKey"
  /\ LET s == AddRoundKey(round, state, RoundKey) IN
       IF round = Nr THEN Returns("Cipher", s, "encrypted")
                     ELSE CipherStep(s, round + 1, "SubBytes")

AES_ECB_decrypt ==
  /\ op = "encrypted" /\ op' = "InvCipher"
  /\ round' = Nr /\ step' = "AddRoundKey"
  /\ UNCHANGED <<RoundKey, state, plain, past>>

DoInvShiftRows ==
  /\ step = "InvShiftRows"
  /\ InvCipherStep(InvShiftRows(state), round, "InvSubBytes")
DoInvSubBytes ==
  /\ step = "InvSubBytes"
  /\ InvCipherStep(InvSubBytes(state), round, "AddRoundKey")

\* Round Nr is before the loop, round 0 breaks out of it.
InvCipherAddRoundKey ==
  /\ step = "AddRoundKey"
  /\ LET s == AddRoundKey(round, state, RoundKey) IN
       \/ round = Nr /\ InvCipherStep(s, Nr - 1, "InvShiftRows")
       \/ round = 0 /\ Returns("InvCipher", s, "decrypted")
       \/ round \in 1..Nr - 1 /\ InvCipherStep(s, round, "InvMixColumns")

DoInvMixColumns ==
  /\ step = "InvMixColumns"
  /\ InvCipherStep(InvMixColumns(state), round - 1, "InvShiftRows")

Init ==
  /\ RoundKey \in RoundKeys
  /\ plain \in Plain /\ state = plain
  /\ op = "idle" /\ round = 0 /\ step = "AddRoundKey"
  /\ past = [r \in 0..Nr |-> [s \in Step |-> plain]]

Next ==
  \/ \E m \in Plain : AES_ECB_encrypt(m)
  \/ CipherSubBytes \/ CipherShiftRows \/ CipherMixColumns \/ CipherAddRoundKey
  \/ AES_ECB_decrypt
  \/ DoInvShiftRows \/ DoInvSubBytes \/ InvCipherAddRoundKey \/ DoInvMixColumns

Spec == Init /\ [][Next]_vars
-----------------------------------------------------------------------------
(***************************************************************************)
(* Properties.                                                             *)
(***************************************************************************)
\* The block stays a block, and the round selects a key inside RoundKey
\* (aes.c:237-247).
TypeOK ==
  /\ RoundKey \in Schedule
  /\ state \in State /\ plain \in State
  /\ op \in {"idle", "Cipher", "encrypted", "InvCipher", "decrypted"}
  /\ round \in 0..Nr
  /\ step \in Step \cup InvStep
  /\ past \in [0..Nr -> [Step -> State]]

\* Decryption gives the block back, whatever the key schedule and however
\* many rounds (aes.c:413-461).
RoundTrip == op = "decrypted" => state = plain
=============================================================================
