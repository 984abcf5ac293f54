---------------------------- MODULE AesCbcProofs ----------------------------
(***************************************************************************)
(* Proofs about AesCbc, for every block cipher, message and way of cutting *)
(* it.                                                                     *)
(***************************************************************************)
EXTENDS AesCbc, TLAPS

(***************************************************************************)
(* What the two loops keep: where the chaining value is, and that what     *)
(* the other side still has to decrypt is ciphertext.                      *)
(***************************************************************************)
LastOf(k) == IF k = 0 THEN iv0 ELSE ebuf[k]
Chaining ==
  /\ ebusy => Deref = LastOf(e) /\ Iv <= e
  /\ ~ebusy => eiv = LastOf(e) /\ sent = e
  /\ div = LastOf(d)
Received == dbusy => \A j \in d + 1 .. dend : dbuf[j] = ebuf[j]
IInv == OneChain /\ Recovered /\ Chaining /\ Received
-----------------------------------------------------------------------------
\* The pointers and lengths of both loops stay inside the buffers
\* (aes.c:501-529).
THEOREM TypeCorrect == Spec => []TypeOK
<1>1. Init => TypeOK
  <2> SUFFICES ASSUME Init PROVE TypeOK
    OBVIOUS
  <2>1. plain \in Message /\ plain \in [1..N -> Block] /\ iv0 \in Block
    BY SizeAssumption DEF Init
  <2>2. dbuf \in [1..N -> Block]
    BY <2>1 DEF Init
  <2>3. /\ Iv \in 0..N /\ e \in 0..N /\ eend \in e..N /\ d \in 0..N /\ dend \in d..N
        /\ sent \in dend..e
    BY SizeAssumption DEF Init
  <2> QED  BY <2>1, <2>2, <2>3 DEF Init, TypeOK
<1>2. TypeOK /\ [Next]_vars => TypeOK'
  <2> SUFFICES ASSUME TypeOK, [Next]_vars PROVE TypeOK'
    OBVIOUS
  <2> USE SizeAssumption DEF TypeOK
  <2>1. CASE \E n \in 0..(N - e) : EncryptCall(n)
    BY <2>1 DEF EncryptCall, decryptVars
  <2>2. CASE EncryptBlock
    <3>1. e + 1 \in 1..N /\ Deref \in Block /\ ebuf[e + 1] \in Block
      BY <2>2 DEF EncryptBlock, Deref
    <3>2. Cipher(XorWithIv(ebuf[e + 1], Deref)) \in Block
      BY <3>1, BlockAssumption, CipherAssumption
    <3> QED  BY <2>2, <3>1, <3>2 DEF EncryptBlock, decryptVars
  <2>3. CASE EncryptReturn
    <3>1. Deref \in Block
      BY DEF Deref
    <3>2. sent' \in dend..e
      BY <2>3 DEF EncryptReturn
    <3>3. ebusy' \in BOOLEAN
      BY <2>3 DEF EncryptReturn
    <3> QED  BY <2>3, <3>1, <3>2, <3>3 DEF EncryptReturn, decryptVars
  <2>4. CASE \E n \in 0..(sent - d) : DecryptCall(n)
    BY <2>4 DEF DecryptCall, encryptVars
  <2>5. CASE DecryptBlock
    <3>1. d + 1 \in 1..N /\ dbuf[d + 1] \in Block
      BY <2>5 DEF DecryptBlock
    <3>2. XorWithIv(InvCipher(dbuf[d + 1]), div) \in Block
      BY <3>1, BlockAssumption, CipherAssumption
    <3> QED  BY <2>5, <3>1, <3>2 DEF DecryptBlock, encryptVars
  <2>6. CASE DecryptReturn
    BY <2>6 DEF DecryptReturn, encryptVars
  <2>7. CASE \E m \in Message, iv \in Block : ctx_set_iv(m, iv)
    BY <2>7 DEF ctx_set_iv
  <2>8. CASE UNCHANGED vars
    BY <2>8 DEF vars, encryptVars, decryptVars
  <2> QED  BY <2>1, <2>2, <2>3, <2>4, <2>5, <2>6, <2>7, <2>8 DEF Next
<1> QED  BY <1>1, <1>2, PTL DEF Spec

-----------------------------------------------------------------------------
\* One block through both directions of the chain.
LEMMA BlockRoundTrip ==
  ASSUME NEW p \in Block, NEW prev \in Block
  PROVE  XorWithIv(InvCipher(Cipher(XorWithIv(p, prev))), prev) = p
BY BlockAssumption, CipherAssumption

LEMMA InitIInv == Init => IInv
BY SizeAssumption DEF Init, IInv, OneChain, Recovered, Chaining, Received, LastOf

\* An iteration of the encrypting loop appends one link to the chain, and
\* leaves alone the blocks the other side may be working on.
LEMMA EncryptBlockKeeps ==
  ASSUME TypeOK, IInv, EncryptBlock
  PROVE  IInv'
<1> USE SizeAssumption DEF TypeOK
<1>1. /\ e + 1 \in 1..N /\ e' = e + 1 /\ Iv' = e + 1 /\ ebusy /\ ebusy'
      /\ UNCHANGED <<plain, iv0, eiv, eend, sent, dbuf, div, d, dend, dbusy>>
      /\ ebuf' = [ebuf EXCEPT ![e + 1] = Cipher(XorWithIv(ebuf[e + 1], Deref))]
  BY DEF EncryptBlock, decryptVars
<1>2. ebuf'[e + 1] = Cipher(XorWithIv(plain[e + 1], LastOf(e)))
  BY <1>1 DEF IInv, OneChain, Chaining
<1>3. \A j \in 1..N : j # e + 1 => ebuf'[j] = ebuf[j]
  BY <1>1
<1>4. \A j \in 0..e : LastOf(j)' = LastOf(j)
  BY <1>1, <1>3 DEF LastOf
<1>5. OneChain'
  <2> SUFFICES ASSUME NEW j \in 1..N
               PROVE  ebuf'[j] = IF j <= e' THEN Cipher(XorWithIv(plain'[j], Previous(j)')) ELSE plain'[j]
    BY DEF OneChain
  <2>1. CASE j = e + 1
    BY <1>1, <1>2, <1>3, <2>1 DEF Previous, LastOf
  <2>2. CASE j # e + 1
    <3>1. j <= e => Previous(j)' = Previous(j)
      BY <1>1, <1>3 DEF Previous
    <3> QED  BY <1>1, <1>3, <2>2, <3>1 DEF IInv, OneChain
  <2> QED  BY <2>1, <2>2
<1>6. Chaining'
  BY <1>1, <1>4 DEF IInv, Chaining, Deref, LastOf
<1>7. Recovered' /\ Received'
  BY <1>1, <1>3 DEF IInv, Recovered, Received
<1> QED  BY <1>5, <1>6, <1>7 DEF IInv

\* An iteration of the decrypting loop recovers one block and takes its
\* ciphertext as the next IV.
LEMMA DecryptBlockKeeps ==
  ASSUME TypeOK, IInv, DecryptBlock
  PROVE  IInv'
<1> USE SizeAssumption DEF TypeOK
<1>1. /\ d + 1 \in 1..N /\ d + 1 <= e /\ d' = d + 1 /\ dbusy
      /\ UNCHANGED <<plain, iv0, ebuf, eiv, Iv, e, eend, ebusy, sent, dend, dbusy>>
      /\ dbuf' = [dbuf EXCEPT ![d + 1] = XorWithIv(InvCipher(dbuf[d + 1]), div)]
      /\ div' = dbuf[d + 1]
  BY DEF DecryptBlock, encryptVars
<1>2. dbuf[d + 1] = ebuf[d + 1] /\ div = LastOf(d)
  <2>1. d + 1 \in d + 1 .. dend
    BY DEF DecryptBlock
  <2> QED  BY <1>1, <2>1 DEF IInv, Received, Chaining
<1>3. ebuf[d + 1] = Cipher(XorWithIv(plain[d + 1], LastOf(d)))
  BY <1>1 DEF IInv, OneChain, Previous, LastOf
<1>4. dbuf'[d + 1] = plain[d + 1]
  <2>1. plain[d + 1] \in Block /\ LastOf(d) \in Block
    BY <1>1 DEF LastOf
  <2> QED  BY <1>1, <1>2, <1>3, <2>1, BlockRoundTrip
<1>5. Recovered'
  BY <1>1, <1>4 DEF IInv, Recovered
<1>6. Received'
  BY <1>1 DEF IInv, Received
<1>7. OneChain' /\ Chaining'
  BY <1>1, <1>2 DEF IInv, OneChain, Previous, Chaining, LastOf, Deref
<1> QED  BY <1>5, <1>6, <1>7 DEF IInv

LEMMA StepIInv ==
  ASSUME TypeOK, IInv, [Next]_vars
  PROVE  IInv'
<1> USE SizeAssumption DEF TypeOK
<1>1. CASE \E n \in 0..(N - e) : EncryptCall(n)
  BY <1>1 DEF EncryptCall, decryptVars, IInv, OneChain, Previous, Recovered, Chaining, Received,
              LastOf, Deref
<1>2. CASE EncryptBlock
  BY <1>2, EncryptBlockKeeps
<1>3. CASE EncryptReturn
  BY <1>3 DEF EncryptReturn, decryptVars, IInv, OneChain, Previous, Recovered, Chaining, Received,
              LastOf, Deref
<1>4. CASE \E n \in 0..(sent - d) : DecryptCall(n)
  BY <1>4 DEF DecryptCall, encryptVars, IInv, OneChain, Previous, Recovered, Chaining, Received,
              LastOf, Deref
<1>5. CASE DecryptBlock
  BY <1>5, DecryptBlockKeeps
<1>6. CASE DecryptReturn
  BY <1>6 DEF DecryptReturn, encryptVars, IInv, OneChain, Previous, Recovered, Chaining, Received,
              LastOf, Deref
<1>7. CASE \E m \in Message, iv \in Block : ctx_set_iv(m, iv)
  BY <1>7 DEF ctx_set_iv, IInv, OneChain, Previous, Recovered, Chaining, Received, LastOf, Deref
<1>8. CASE UNCHANGED vars
  BY <1>8 DEF vars, encryptVars, decryptVars, IInv, OneChain, Previous, Recovered, Chaining,
              Received, LastOf, Deref
<1> QED  BY <1>1, <1>2, <1>3, <1>4, <1>5, <1>6, <1>7, <1>8 DEF Next

LEMMA Invariant == Spec => []IInv
<1> QED  BY InitIInv, StepIInv, TypeCorrect, PTL DEF Spec

\* The ciphertext is one chain from the IV, however the message is cut into
\* calls of AES_CBC_encrypt_buffer (aes.c:501-514).
THEOREM ChainUnbroken == Spec => []OneChain
<1>1. IInv => OneChain
  BY DEF IInv
<1> QED  BY <1>1, Invariant, PTL

\* AES_CBC_decrypt_buffer recovers the message, however the two sides cut it
\* (aes.c:516-529).
THEOREM MessageRecovered == Spec => []Recovered
<1>1. IInv => Recovered
  BY DEF IInv
<1> QED  BY <1>1, Invariant, PTL
=============================================================================
