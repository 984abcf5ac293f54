---------------------------- MODULE AesEcbProofs ----------------------------
(***************************************************************************)
(* The key schedule, and ECB mode with it.                                 *)
(***************************************************************************)
EXTENDS AesEcb, AesCipherProofs

(***************************************************************************)
(* The elements of Rcon that were read are those passed so far.            *)
(***************************************************************************)
UsedSoFar == used = {n \in 1..10 : n * Nk < i}
KeyIInv == KeyTypeOK /\ Scheduled /\ UsedSoFar
-----------------------------------------------------------------------------
LEMMA BuildType ==
  /\ Nk \in 4..8 /\ Words \in Nat /\ Words > Nk /\ 4 * Words = keyExpSize
  /\ 10 * Nk < Words => Nk = 4
BY BuildAssumption DEF Words, Nb

LEMMA RconType == DOMAIN Rcon = 0..10 /\ \A n \in 0..10 : Rcon[n] \in Byte
BY RconAssumption

LEMMA WordTypes ==
  \A v, w \in Word : /\ XorWord(v, w) \in Word /\ RotWord(v) \in Word /\ SubWord(v) \in Word
                     /\ \A n \in 0..10 : AddRcon(v, n) \in Word
<1>1. TAKE v \in Word, w \in Word
<1>2. \A j \in Four : (j + 1) % 4 \in Four
  BY DEF Four
<1>3. XorWord(v, w) \in Word /\ RotWord(v) \in Word
  BY <1>2, XorType DEF XorWord, RotWord, Word
<1>4. SubWord(v) \in Word
  BY SboxAssumption DEF SubWord, Word
<1>5. \A n \in 0..10 : AddRcon(v, n) \in Word
  BY RconType, XorType DEF AddRcon, Word, Four
<1> QED BY <1>3, <1>4, <1>5

\* The index into Rcon, at each word where it is read.
LEMMA RconIndex ==
  ASSUME NEW k \in Nk..Words - 1
  PROVE  k % Nk = 0 => k \div Nk \in 1..LastRcon
<1>1. CASE Nk = 4 /\ Nr = 10
  BY <1>1 DEF Words, Nb, LastRcon
<1>2. CASE Nk = 6 /\ Nr = 12
  BY <1>2 DEF Words, Nb, LastRcon
<1>3. CASE Nk = 8 /\ Nr = 14
  BY <1>3 DEF Words, Nb, LastRcon
<1> QED BY <1>1, <1>2, <1>3, BuildAssumption

\* Multiples of Nk are where another element of Rcon is passed.
LEMMA RconPassed ==
  ASSUME NEW k \in Nk..Words - 1
  PROVE  /\ k % Nk = 0 => {n \in 1..10 : n * Nk < k + 1} = {n \in 1..10 : n * Nk < k} \cup {k \div Nk}
         /\ k % Nk # 0 => {n \in 1..10 : n * Nk < k + 1} = {n \in 1..10 : n * Nk < k}
<1>1. CASE Nk = 4 /\ Nr = 10
  BY <1>1 DEF Words, Nb
<1>2. CASE Nk = 6 /\ Nr = 12
  BY <1>2 DEF Words, Nb
<1>3. CASE Nk = 8 /\ Nr = 14
  BY <1>3 DEF Words, Nb
<1> QED BY <1>1, <1>2, <1>3, BuildAssumption

LEMMA RconAll == {n \in 1..10 : n * Nk < Words} = 1..LastRcon
<1>1. CASE Nk = 4 /\ Nr = 10
  BY <1>1 DEF Words, Nb, LastRcon
<1>2. CASE Nk = 6 /\ Nr = 12
  BY <1>2 DEF Words, Nb, LastRcon
<1>3. CASE Nk = 8 /\ Nr = 14
  BY <1>3 DEF Words, Nb, LastRcon
<1> QED BY <1>1, <1>2, <1>3, BuildAssumption
-----------------------------------------------------------------------------
(***************************************************************************)
(* KeyExpansion.                                                           *)
(***************************************************************************)
LEMMA RconNotYet == {n \in 1..10 : n * Nk < 0} = {}
BY BuildAssumption

LEMMA KeyInitially == KeyInit => KeyIInv
<1>1. RoundKeys \subseteq Schedule /\ Keys \subseteq [0..Nk - 1 -> Word]
  BY ContextAssumption, KeysAssumption
<1>2. 4 * 0 <= keyExpSize /\ 0 \in 0..Words
  BY BuildType
<1>3. KeyInit => KeyTypeOK
  BY <1>1, <1>2 DEF KeyInit, KeyTypeOK
<1>4. KeyInit => Scheduled
  BY DEF KeyInit, Scheduled
<1>5. KeyInit => UsedSoFar
  BY RconNotYet DEF KeyInit, UsedSoFar
<1> QED BY <1>3, <1>4, <1>5 DEF KeyIInv

\* A word that is written leaves the relation of those before it alone.
LEMMA StandardKept ==
  ASSUME KeyTypeOK, Scheduled, i \in 0..Words - 1, NEW w \in Word, Key' = Key,
         RoundKey' = [RoundKey EXCEPT ![i] = w], i' = i + 1,
         \A k : k = i => Standard(k, RoundKey)'
  PROVE  Scheduled'
<1>1. \A k \in 0..Words - 1 : k # i => RoundKey'[k] = RoundKey[k]
  BY DEF KeyTypeOK, Schedule
<1>2. ASSUME NEW k \in 0..i - 1 PROVE Standard(k, RoundKey)'
  <2>1. Standard(k, RoundKey)
    BY DEF Scheduled
  <2>2. k \in 0..Words - 1 /\ k # i /\ RoundKey'[k] = RoundKey[k]
    <3>1. k \in 0..Words - 1 /\ k # i
      BY BuildType
    <3> QED BY <1>1, <3>1
  <2>3. k >= Nk => /\ k - 1 \in 0..Words - 1 /\ k - 1 # i /\ RoundKey'[k - 1] = RoundKey[k - 1]
                   /\ k - Nk \in 0..Words - 1 /\ k - Nk # i /\ RoundKey'[k - Nk] = RoundKey[k - Nk]
    BY <1>1, <2>2, BuildType
  <2>4. k < Nk \/ k >= Nk
    BY BuildType
  <2> QED BY <2>1, <2>2, <2>3, <2>4 DEF Standard
<1>3. \A k \in 0..i' - 1 : k \in 0..i - 1 \/ k = i
  BY BuildType
<1> QED BY <1>2, <1>3 DEF Scheduled

\* The words of a copy and of an expansion are those of the standard.
LEMMA CopyWordStandard ==
  ASSUME KeyTypeOK, CopyWord
  PROVE  /\ i \in 0..Words - 1 /\ Key[i] \in Word /\ RoundKey' = [RoundKey EXCEPT ![i] = Key[i]]
         /\ \A k : k = i => Standard(k, RoundKey)'
<1>1. i \in 0..Nk - 1 /\ i \in 0..Words - 1 /\ Key[i] \in Word
  BY BuildType, KeysAssumption DEF KeyTypeOK, CopyWord
<1>2. RoundKey'[i] = Key'[i] /\ Key' = Key
  BY <1>1 DEF CopyWord, KeyTypeOK, Schedule
<1>3. i < Nk
  BY <1>1, BuildType
<1>4. ASSUME NEW k, k = i PROVE Standard(k, RoundKey)'
  BY <1>2, <1>3, <1>4 DEF Standard
<1> QED BY <1>1, <1>4 DEF CopyWord

LEMMA ExpandWordStandard ==
  ASSUME KeyTypeOK, ExpandWord
  PROVE  /\ i \in Nk..Words - 1
         /\ \E w \in Word : RoundKey' = [RoundKey EXCEPT ![i] = w]
         /\ \A k : k = i => Standard(k, RoundKey)'
<1> DEFINE last == RoundKey[i - 1]
           turned == IF i % Nk = 0 THEN AddRcon(SubWord(RotWord(last)), i \div Nk) ELSE last
           tempa == IF AES256 /\ i % Nk = 4 THEN SubWord(turned) ELSE turned
           w == XorWord(RoundKey[i - Nk], tempa)
<1>1. /\ i \in Nk..Words - 1 /\ Key' = Key
      /\ RoundKey' = [RoundKey EXCEPT ![i] = w]
  BY DEF ExpandWord
<1>2. /\ i - 1 \in 0..Words - 1 /\ i - Nk \in 0..Words - 1 /\ i \in 0..Words - 1
      /\ i - 1 # i /\ i - Nk # i
  BY <1>1, BuildType
<1>3. last \in Word /\ RoundKey[i - Nk] \in Word
  BY <1>2 DEF KeyTypeOK, Schedule
<1>4. i % Nk = 0 => i \div Nk \in 0..10
  <2>1. LastRcon \in 1..10
    BY BuildAssumption DEF LastRcon
  <2> QED BY <1>1, <2>1, RconIndex
<1>5. turned \in Word
  BY <1>3, <1>4, WordTypes
<1>6. tempa \in Word
  BY <1>5, WordTypes
<1>7. w \in Word
  BY <1>3, <1>6, WordTypes
<1>8. RoundKey'[i] = w /\ RoundKey'[i - 1] = last /\ RoundKey'[i - Nk] = RoundKey[i - Nk]
  BY <1>1, <1>2 DEF KeyTypeOK, Schedule
<1>9. tempa = CASE i % Nk = 0 -> AddRcon(SubWord(RotWord(last)), i \div Nk)
                [] Nk > 6 /\ i % Nk = 4 -> SubWord(last)
                [] OTHER -> last
  <2>1. Nk = 8 <=> Nk > 6
    BY BuildAssumption
  <2>2. CASE i % Nk = 0
    BY <2>2
  <2>3. CASE i % Nk # 0 /\ i % Nk = 4 /\ Nk = 8
    BY <2>1, <2>3 DEF AES256
  <2>4. CASE i % Nk # 0 /\ ~(i % Nk = 4 /\ Nk = 8)
    BY <2>1, <2>4 DEF AES256
  <2> QED BY <2>2, <2>3, <2>4
<1>10. ~(i < Nk)
  BY <1>1, BuildType
<1> HIDE DEF turned, tempa, last
<1>11. ASSUME NEW k, k = i PROVE Standard(k, RoundKey)'
  <2>1. /\ RoundKey'[k] = XorWord(RoundKey'[k - Nk], tempa) /\ RoundKey'[k - 1] = last /\ ~(k < Nk)
        /\ tempa = CASE k % Nk = 0 -> AddRcon(SubWord(RotWord(last)), k \div Nk)
                    [] Nk > 6 /\ k % Nk = 4 -> SubWord(last)
                    [] OTHER -> last
    BY <1>8, <1>9, <1>10, <1>11
  <2> QED BY <2>1 DEF Standard
<1> QED BY <1>1, <1>7, <1>11

\* Every step keeps the words that are done as the standard has them.
LEMMA KeyStep ==
  ASSUME KeyIInv, [KeyNext]_contextVars
  PROVE  KeyIInv'
<1> USE DEF KeyIInv
<1>1. ASSUME NEW k \in Keys, AES_init_ctx(k) PROVE KeyIInv'
  <2>1. k \in [0..Nk - 1 -> Word]
    BY KeysAssumption
  <2> QED BY <1>1, <2>1, BuildType, RconType
          DEF AES_init_ctx, KeyTypeOK, Scheduled, UsedSoFar
<1>2. CASE CopyWord
  <2>1. /\ i \in 0..Words - 1 /\ Key[i] \in Word /\ RoundKey' = [RoundKey EXCEPT ![i] = Key[i]]
        /\ \A k : k = i => Standard(k, RoundKey)'
    BY <1>2, CopyWordStandard
  <2>2. Scheduled'
    BY <1>2, <2>1, StandardKept DEF CopyWord
  <2>3. KeyTypeOK'
    BY <1>2, <2>1, BuildType DEF CopyWord, KeyTypeOK, Schedule
  <2>4. UsedSoFar'
    <3>1. i < Nk
      BY <1>2 DEF CopyWord
    <3>2. \A n \in 1..10 : ~(n * Nk < i) /\ ~(n * Nk < i + 1)
      BY <2>1, <3>1, BuildAssumption
    <3> QED BY <1>2, <3>2 DEF CopyWord, UsedSoFar
  <2> QED BY <2>2, <2>3, <2>4
<1>3. CASE ExpandWord
  <2>1. /\ i \in Nk..Words - 1 /\ (\A k : k = i => Standard(k, RoundKey)')
        /\ \E w \in Word : RoundKey' = [RoundKey EXCEPT ![i] = w]
    BY <1>3, ExpandWordStandard
  <2>2. PICK w \in Word : RoundKey' = [RoundKey EXCEPT ![i] = w]
    BY <2>1
  <2>3. i \in 0..Words - 1
    BY <2>1, BuildType
  <2>4. Scheduled'
    BY <1>3, <2>1, <2>2, <2>3, StandardKept DEF ExpandWord
  <2>5. UsedSoFar'
    BY <1>3, <2>1, RconPassed DEF ExpandWord, UsedSoFar
  <2>6. used' \subseteq DOMAIN Rcon
    BY <2>5, RconType DEF UsedSoFar
  <2>7. RoundKey' \in Schedule
    BY <2>2, <2>3 DEF KeyTypeOK, Schedule
  <2>8. i' \in 0..Words /\ 4 * i' <= keyExpSize
    BY <1>3, <2>3, BuildType DEF ExpandWord
  <2>9. KeyTypeOK'
    BY <1>3, <2>6, <2>7, <2>8 DEF ExpandWord, KeyTypeOK
  <2> QED BY <2>4, <2>5, <2>9
<1>4. CASE KeyExpansionReturn
  BY <1>4 DEF KeyExpansionReturn, KeyTypeOK, Scheduled, Standard, UsedSoFar
<1>5. CASE UNCHANGED contextVars
  BY <1>5 DEF contextVars, keyVars, KeyTypeOK, Scheduled, Standard, UsedSoFar
<1> QED BY <1>1, <1>2, <1>3, <1>4, <1>5 DEF KeyNext

LEMMA KeyIInvUse == KeyIInv => RconUse
<1> SUFFICES ASSUME KeyIInv PROVE RconUse
  OBVIOUS
<1>2. /\ i \in 0..Words
      /\ used = {n \in 1..10 : n * Nk < i}
  <2>1. i \in 0..Words
    BY DEF KeyIInv, KeyTypeOK
  <2>2. UsedSoFar
    BY DEF KeyIInv
  <2> QED BY <2>1, <2>2 DEF UsedSoFar
<1>3. ASSUME NEW n \in 1..10, n * Nk < i PROVE n * Nk < Words
  <2>1. n * Nk \in Int /\ i \in Int /\ Words \in Int /\ i <= Words
    BY <1>2, BuildType
  <2> QED BY <1>3, <2>1
<1> QED BY <1>2, <1>3, RconAll DEF RconUse, Expanded
-----------------------------------------------------------------------------
(***************************************************************************)
(* ECB mode.  The cipher runs while no key is expanded, and a key that is  *)
(* expanded once more between encryption and decryption writes what the    *)
(* array holds already: the words before each one are those of the key.    *)
(***************************************************************************)
WholeSchedule == \A k \in 0..Words - 1 : Standard(k, RoundKey)
EcbIInv ==
  /\ KeyIInv /\ TypeOK /\ IInv
  /\ op \in {"Cipher", "InvCipher"} => Expanded
  /\ op \in {"Cipher", "encrypted", "InvCipher"} => WholeSchedule

LEMMA EcbInitially == EcbInit => EcbIInv
<1> SUFFICES ASSUME EcbInit PROVE EcbIInv
  OBVIOUS
<1>1. Init /\ KeyInit
  BY DEF EcbInit, KeyInit, Init
<1> QED BY <1>1, KeyInitially, Initially DEF EcbIInv, EcbInit

\* A step of a second expansion of the same key changes nothing.
LEMMA SameKeySameSchedule ==
  ASSUME KeyIInv, WholeSchedule, CopyWord \/ ExpandWord
  PROVE  UNCHANGED <<RoundKey, Key>>
<1>1. \E w \in Word : i \in 0..Words - 1 /\ RoundKey' = [RoundKey EXCEPT ![i] = w]
  BY CopyWordStandard, ExpandWordStandard, BuildType DEF KeyIInv
<1>2. PICK w \in Word : RoundKey' = [RoundKey EXCEPT ![i] = w]
  BY <1>1
<1>3. i \in 0..Words - 1 /\ RoundKey'[i] = w /\ (\A k \in 0..Words - 1 : k # i => RoundKey'[k] = RoundKey[k])
  BY <1>1, <1>2 DEF KeyIInv, KeyTypeOK, Schedule
<1>4. Key' = Key
  BY DEF CopyWord, ExpandWord
<1>5. (\A k : k = i => Standard(k, RoundKey)') /\ Standard(i, RoundKey)
  BY <1>3, CopyWordStandard, ExpandWordStandard DEF KeyIInv, WholeSchedule
<1>6. i < Nk \/ (i >= Nk /\ i - 1 \in 0..Words - 1 /\ i - 1 # i /\ i - Nk \in 0..Words - 1 /\ i - Nk # i)
  BY <1>3, BuildType
<1>7. RoundKey'[i] = RoundKey[i]
  <2> DEFINE k == i
  <2>1. k = i
    OBVIOUS
  <2>2. PICK l : l = i
    OBVIOUS
  <2>3. Standard(l, RoundKey)' /\ Standard(l, RoundKey)
    BY <1>5, <2>2
  <2> QED BY <1>3, <1>4, <1>6, <2>2, <2>3 DEF Standard
<1>8. RoundKey' = RoundKey
  BY <1>2, <1>3, <1>7 DEF KeyIInv, KeyTypeOK, Schedule
<1> QED BY <1>4, <1>8

\* While no call of the cipher is on and no decryption is awaited, its
\* invariant does not look at the schedule.
LEMMA CipherUnaware ==
  ASSUME TypeOK, IInv, op \in {"idle", "decrypted"}, RoundKey' \in Schedule, UNCHANGED cipherVars
  PROVE  TypeOK' /\ IInv'
BY DEF TypeOK, IInv, RoundTrip, cipherVars

\* Every step of ECB mode.
LEMMA EcbStep ==
  ASSUME EcbIInv, [EcbNext]_ecbVars
  PROVE  EcbIInv'
<1> USE DEF EcbIInv
<1>1. CASE Expand
  <2>1. UNCHANGED cipherVars /\ op \notin {"Cipher", "InvCipher"}'
    <3>1. UNCHANGED cipherVars
      BY <1>1 DEF Expand
    <3>2. op \notin {"Cipher", "InvCipher"}
      BY <1>1 DEF Expand, Expanded, CopyWord, ExpandWord, KeyExpansionReturn
    <3> QED BY <3>1, <3>2 DEF cipherVars
  <2>2. KeyNext
    BY <1>1 DEF Expand, KeyNext, KeyIInv, KeyTypeOK
  <2>3. KeyIInv'
    BY <2>2, KeyStep
  <2>4. RoundKey' \in Schedule
    BY <2>3 DEF KeyIInv, KeyTypeOK
  <2>5. CASE op \in {"idle", "decrypted"}
    <3>1. TypeOK' /\ IInv'
      BY <2>1, <2>4, <2>5, CipherUnaware
    <3> QED BY <2>1, <2>3, <2>5, <3>1 DEF cipherVars
  <2>6. CASE op = "encrypted"
    <3>1. AES_init_ctx(Key) \/ CopyWord \/ ExpandWord \/ KeyExpansionReturn
      BY <1>1, <2>6 DEF Expand
    <3>2. UNCHANGED <<RoundKey, Key>>
      BY <2>6, <3>1, SameKeySameSchedule DEF AES_init_ctx, KeyExpansionReturn
    <3>3. WholeSchedule'
      BY <2>6, <3>2 DEF WholeSchedule, Standard
    <3>4. UNCHANGED vars
      BY <2>1, <3>2 DEF vars
    <3>5. TypeOK' /\ IInv'
      BY <3>4, TypeStep, IInvStep
    <3>6. op' = "encrypted"
      BY <2>1, <2>6 DEF cipherVars
    <3> QED BY <2>3, <3>3, <3>5, <3>6
  <2> QED BY <2>1, <2>5, <2>6 DEF TypeOK, cipherVars
<1>2. CASE Crypt
  <2>1. Expanded /\ Next /\ UNCHANGED keyVars
    BY <1>2 DEF Crypt
  <2>2. TypeOK' /\ IInv'
    BY <2>1, TypeStep, IInvStep
  <2>3. UNCHANGED RoundKey
    BY <2>1 DEF Next, AES_ECB_encrypt, CipherSubBytes, CipherShiftRows, CipherMixColumns,
                CipherAddRoundKey, AES_ECB_decrypt, DoInvShiftRows, DoInvSubBytes,
                InvCipherAddRoundKey, DoInvMixColumns, CipherStep, InvCipherStep, Returns
  <2>4. UNCHANGED contextVars
    BY <2>1, <2>3 DEF contextVars
  <2>5. KeyIInv'
    BY <2>4, KeyStep
  <2>6. Expanded'
    BY <2>1 DEF Expanded, keyVars
  <2>7. WholeSchedule
    BY <2>1 DEF Expanded, KeyIInv, Scheduled, WholeSchedule
  <2>8. WholeSchedule'
    BY <2>4, <2>7 DEF contextVars, keyVars, WholeSchedule, Standard
  <2> QED BY <2>2, <2>5, <2>6, <2>8
<1>3. CASE UNCHANGED ecbVars
  <2>1. UNCHANGED vars /\ UNCHANGED contextVars
    BY <1>3 DEF ecbVars, vars, contextVars
  <2>2. KeyIInv' /\ TypeOK' /\ IInv'
    BY <2>1, KeyStep, TypeStep, IInvStep
  <2>3. Expanded' <=> Expanded
    BY <2>1 DEF contextVars, keyVars, Expanded
  <2>4. WholeSchedule' <=> WholeSchedule
    BY <2>1 DEF contextVars, keyVars, WholeSchedule, Standard
  <2>5. op' = op
    BY <2>1 DEF vars, cipherVars
  <2> QED BY <2>2, <2>3, <2>4, <2>5
<1> QED BY <1>1, <1>2, <1>3 DEF EcbNext

LEMMA EcbInductive == EcbSpec => []EcbIInv
<1>1. EcbIInv /\ [EcbNext]_ecbVars => EcbIInv'
  BY EcbStep
<1> QED BY <1>1, EcbInitially, PTL DEF EcbSpec

\* No word is written outside the array of aes.h, for each of the three
\* builds (aes.c:146-217).
THEOREM KeyTypeCorrect == EcbSpec => []KeyTypeOK
<1>1. EcbIInv => KeyTypeOK
  BY DEF EcbIInv, KeyIInv
<1> QED BY <1>1, EcbInductive, PTL

\* Whatever memory the key is expanded into, the schedule is that of the
\* standard (aes.c:146-217).
THEOREM ScheduleCorrect == EcbSpec => []Scheduled
<1>1. EcbIInv => Scheduled
  BY DEF EcbIInv, KeyIInv
<1> QED BY <1>1, EcbInductive, PTL

\* Each build reads the elements of Rcon that the comment names, and no
\* other (aes.c:128-130).
THEOREM RconCorrect == EcbSpec => []RconUse
<1>1. EcbIInv => RconUse
  BY KeyIInvUse DEF EcbIInv
<1> QED BY <1>1, EcbInductive, PTL

\* A block that is encrypted and decrypted is what it was, for every key,
\* and also if the key is expanded anew in between (aes.c:470-480).
THEOREM EcbRoundTrip == EcbSpec => []RoundTrip
<1>1. EcbIInv => RoundTrip
  BY DEF EcbIInv, IInv
<1> QED BY <1>1, EcbInductive, PTL

\* The block and the schedule stay in their arrays, whatever is expanded and
\* encrypted when (aes.c:146-247).
THEOREM EcbTypeCorrect == EcbSpec => []EcbTypeOK
<1>1. EcbIInv => EcbTypeOK
  BY DEF EcbIInv, KeyIInv, EcbTypeOK
<1> QED BY <1>1, EcbInductive, PTL

\* AES_ECB_encrypt is the standard's Cipher under the standard's schedule of
\* the key that was expanded, for each build, key and block (aes.c:146-474).
THEOREM EncryptionIsStandard == EcbSpec => []EncryptsAsStandard
<1>1. EcbIInv => EncryptsAsStandard
  BY EncryptedIsStandard DEF EcbIInv, EncryptsAsStandard, WholeSchedule, After
<1> QED BY <1>1, EcbInductive, PTL
=============================================================================
