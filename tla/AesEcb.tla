------------------------------- MODULE AesEcb -------------------------------
(***************************************************************************)
(* The key schedule and the cipher over one context, as ECB mode uses them *)
(* (aes.c:219-222, 470-480): a program that expands keys, encrypts a block *)
(* and decrypts it.  Between the two it may expand the same key once more  *)
(* into the same context, as a receiver would that reuses it.              *)
(***************************************************************************)
EXTENDS AesKeyExpansion, AesCipher, Fips197

CONSTANT Vectors   \* known answers: records of a key, a block and its cipher text

ecbVars == <<contextVars, cipherVars>>

EcbInit ==
  /\ KeyInit
  /\ plain \in Plain /\ state = plain
  /\ op = "idle" /\ round = 0 /\ step = "AddRoundKey"
  /\ past = [r \in 0..Nr |-> [s \in Step |-> plain]]

Expand ==
  /\ \/ op \in {"idle", "decrypted"} /\ \E k \in Keys : AES_init_ctx(k)
     \/ op = "encrypted" /\ AES_init_ctx(Key)
     \/ CopyWord \/ ExpandWord \/ KeyExpansionReturn
  /\ UNCHANGED cipherVars

Crypt == Expanded /\ Next /\ UNCHANGED keyVars

EcbNext == Expand \/ Crypt

EcbSpec == EcbInit /\ [][EcbNext]_ecbVars
-----------------------------------------------------------------------------
\* Both halves of the context's use keep to their arrays.
EcbTypeOK == TypeOK /\ KeyTypeOK

\* AES_ECB_encrypt leaves what FIPS-197 says of the block it was given and of
\* the key that was expanded (aes.c:146-474).
EncryptsAsStandard ==
  op = "encrypted" =>
    /\ \A k \in 0..Words - 1 : Standard(k, RoundKey)
    /\ IsCipher(plain, RoundKey, state, [r \in 0..Nr - 1 |-> past[r + 1]["SubBytes"]])

\* The answers of test.c:111-317, which are those of benchmark.c:69-255.
KnownAnswer ==
  \A v \in Vectors :
    op = "encrypted" /\ Key = v.key /\ plain = v.in => state = v.out
=============================================================================
