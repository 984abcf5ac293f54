------------------------------- MODULE AesCbc -------------------------------
(***************************************************************************)
(* CBC mode (aes.c:492-529): a message encrypted in place by one context   *)
(* and decrypted in place by another, each in calls of any number of       *)
(* blocks, the loops one iteration at a time.  The round keys do not       *)
(* change, so the block cipher is a parameter.                             *)
(*                                                                         *)
(* The encrypting loop does not write ctx->Iv: it keeps a pointer to the   *)
(* last block it wrote in the caller's buffer, and copies that block back  *)
(* when it ends.  The decrypting loop overwrites the block it needs next.  *)
(***************************************************************************)
EXTENDS Integers

CONSTANTS
  Block,                     \* values of AES_BLOCKLEN bytes
  XorWithIv(_, _),           \* what it leaves in buf, of the two blocks
  Cipher(_), InvCipher(_),   \* with the RoundKey of both contexts
  N,                         \* blocks of a message
  Message                    \* the messages the program sends

ASSUME SizeAssumption == N \in Nat \ {0} /\ Message \subseteq [1..N -> Block]
ASSUME BlockAssumption ==
  /\ Block # {}
  /\ \A a, b \in Block : XorWithIv(a, b) \in Block /\ XorWithIv(XorWithIv(a, b), b) = a
ASSUME CipherAssumption ==
  \A b \in Block : /\ Cipher(b) \in Block /\ InvCipher(b) \in Block
                   /\ InvCipher(Cipher(b)) = b

VARIABLES
  plain, iv0,   \* history: the message, and the IV both sides started it with
  \* AES_CBC_encrypt_buffer
  ebuf,         \* the buffer
  eiv,          \* ctx->Iv
  Iv,           \* the pointer: 0 for ctx->Iv, j for block j of the buffer
  e, eend,      \* blocks done, and where the call in progress ends
  ebusy,
  sent,         \* blocks encrypted by calls that have returned
  \* AES_CBC_decrypt_buffer
  dbuf, div, d, dend, dbusy

encryptVars == <<ebuf, eiv, Iv, e, eend, ebusy, sent>>
decryptVars == <<dbuf, div, d, dend, dbusy>>
vars == <<plain, iv0, encryptVars, decryptVars>>

EncryptCall(n) ==
  /\ ~ebusy /\ ebusy' = TRUE
  /\ eend' = e + n
  /\ Iv' = 0
  /\ UNCHANGED <<plain, iv0, ebuf, eiv, e, sent, decryptVars>>

Deref == IF Iv = 0 THEN eiv ELSE ebuf[Iv]

\* Mutant: one iteration too many.
EncryptBlockTooFar ==
  /\ ebusy /\ e <= eend
  /\ ebuf' = [ebuf EXCEPT ![e + 1] = Cipher(XorWithIv(@, Deref))]
  /\ Iv' = e + 1
  /\ e' = e + 1
  /\ UNCHANGED <<plain, iv0, eiv, eend, ebusy, sent, decryptVars>>

\* XorWithIv, Cipher, Iv = buf, buf += AES_BLOCKLEN.
EncryptBlock ==
  /\ ebusy /\ e < eend
  /\ ebuf' = [ebuf EXCEPT ![e + 1] = Cipher(XorWithIv(@, Deref))]
  /\ Iv' = e + 1
  /\ e' = e + 1
  /\ UNCHANGED <<plain, iv0, eiv, eend, ebusy, sent, decryptVars>>

\* Mutant: the IV is not stored for the next call.
EncryptReturnNoStore ==
  /\ ebusy /\ e = eend /\ ebusy' = FALSE
  /\ sent' = e
  /\ UNCHANGED <<plain, iv0, ebuf, eiv, Iv, e, eend, decryptVars>>

\* memcpy(ctx->Iv, Iv, AES_BLOCKLEN), of itself after a call of no blocks.
EncryptReturn ==
  /\ ebusy /\ e = eend /\ ebusy' = FALSE
  /\ eiv' = Deref /\ sent' = e
  /\ UNCHANGED <<plain, iv0, ebuf, Iv, e, eend, decryptVars>>

\* The other side has received the next n blocks into its buffer.
DecryptCall(n) ==
  /\ ~dbusy /\ dbusy' = TRUE
  /\ dend' = d + n
  /\ dbuf' = [j \in 1..N |-> IF j \in d + 1 .. d + n THEN ebuf[j] ELSE dbuf[j]]
  /\ UNCHANGED <<plain, iv0, div, d, encryptVars>>

\* Mutant: the block is saved only after it was decrypted.
DecryptBlockLateSave ==
  /\ dbusy /\ d < dend
  /\ dbuf' = [dbuf EXCEPT ![d + 1] = XorWithIv(InvCipher(@), div)]
  /\ div' = dbuf'[d + 1]
  /\ d' = d + 1
  /\ UNCHANGED <<plain, iv0, dend, dbusy, encryptVars>>

\* The ciphertext is saved in storeNextIv before it is decrypted in place.
DecryptBlock ==
  /\ dbusy /\ d < dend
  /\ LET storeNextIv == dbuf[d + 1] IN
       /\ dbuf' = [dbuf EXCEPT ![d + 1] = XorWithIv(InvCipher(@), div)]
       /\ div' = storeNextIv
  /\ d' = d + 1
  /\ UNCHANGED <<plain, iv0, dend, dbusy, encryptVars>>

DecryptReturn ==
  /\ dbusy /\ d = dend /\ dbusy' = FALSE
  /\ UNCHANGED <<plain, iv0, dbuf, div, d, dend, encryptVars>>

\* AES_ctx_set_iv on both contexts, for another message.
ctx_set_iv(m, iv) ==
  /\ ~ebusy /\ ~dbusy /\ d = N
  /\ plain' = m /\ iv0' = iv
  /\ ebuf' = m /\ eiv' = iv /\ e' = 0 /\ eend' = 0 /\ sent' = 0
  /\ div' = iv /\ d' = 0 /\ dend' = 0
  /\ UNCHANGED <<Iv, ebusy, dbuf, dbusy>>

\* Both contexts come from AES_init_ctx_iv.
Init ==
  /\ plain \in Message /\ iv0 \in Block
  /\ ebuf = plain /\ eiv = iv0 /\ Iv = 0 /\ e = 0 /\ eend = 0 /\ ebusy = FALSE /\ sent = 0
  /\ dbuf = [j \in 1..N |-> iv0] /\ div = iv0 /\ d = 0 /\ dend = 0 /\ dbusy = FALSE

Next ==
  \/ \E n \in 0..(N - e) : EncryptCall(n)
  \/ EncryptBlock \/ EncryptReturn
  \/ \E n \in 0..(sent - d) : DecryptCall(n)
  \/ DecryptBlock \/ DecryptReturn
  \/ \E m \in Message, iv \in Block : ctx_set_iv(m, iv)

Spec == Init /\ [][Next]_vars
-----------------------------------------------------------------------------
(***************************************************************************)
(* Properties.                                                             *)
(***************************************************************************)
\* The pointers and lengths stay inside the buffers.
TypeOK ==
  /\ plain \in Message /\ iv0 \in Block
  /\ ebuf \in [1..N -> Block] /\ eiv \in Block /\ Iv \in 0..N
  /\ e \in 0..N /\ eend \in e..N /\ ebusy \in BOOLEAN
  /\ dbuf \in [1..N -> Block] /\ div \in Block
  /\ d \in 0..N /\ dend \in d..N /\ dbusy \in BOOLEAN
  /\ sent \in dend..e

\* However the message is cut into calls, its ciphertext is one CBC chain
\* from the IV, and what is not encrypted yet is untouched (aes.c:501-514).
Previous(j) == IF j = 1 THEN iv0 ELSE ebuf[j - 1]
OneChain ==
  \A j \in 1..N :
    ebuf[j] = IF j <= e THEN Cipher(XorWithIv(plain[j], Previous(j))) ELSE plain[j]

\* However the ciphertext is cut into calls, and independently of how the
\* message was, decrypting in place recovers the message (aes.c:516-529).
Recovered == \A j \in 1..d : dbuf[j] = plain[j]
=============================================================================
