---------------------------- MODULE AesCtrProofs ----------------------------
(***************************************************************************)
(* Proofs about AesCtr, for every block length, cipher, message and way of *)
(* cutting it.                                                             *)
(***************************************************************************)
EXTENDS AesCtr, WellFoundedInduction, FiniteSetTheorems, TLAPS

(***************************************************************************)
(* What a side keeps: the keystream each byte takes follows from the one   *)
(* before and from whether a call begins there.                            *)
(***************************************************************************)
Following(s, j) ==
  LET u == used[s][j - 1] IN
    IF j \in cuts[s] \/ u.pos = BLOCKLEN - 1
    THEN [ctr |-> IncrementIv(u.ctr), pos |-> 0]
    ELSE [ctr |-> u.ctr, pos |-> u.pos + 1]

Progress(s) ==
  /\ cuts[s] \subseteq 0..i[s]
  /\ i[s] > 0 => used[s][0] = [ctr |-> iv0, pos |-> 0]
  /\ \A j \in 1..i[s] - 1 : used[s][j] = Following(s, j)
  /\ Iv[s] = IF i[s] = 0 THEN iv0 ELSE IncrementIv(used[s][i[s] - 1].ctr)
  /\ busy[s] =>
       /\ i[s] <= end[s] /\ end[s] <= Ready(s)
       /\ IF bi[s] = BLOCKLEN
          THEN i[s] = 0 \/ i[s] \in cuts[s] \/ used[s][i[s] - 1].pos = BLOCKLEN - 1
          ELSE /\ i[s] > 0 /\ i[s] \notin cuts[s]
               /\ bi[s] = used[s][i[s] - 1].pos + 1
               /\ buffer[s] = Cipher(used[s][i[s] - 1].ctr)

Combined(s) ==
  /\ i[s] <= Ready(s)
  /\ \A j \in 0..i[s] - 1 :
       buf[s][j] = XorByte(Input(s)[j], Cipher(used[s][j].ctr)[used[s][j].pos])
  /\ busy[s] => \A j \in i[s] .. end[s] - 1 : buf[s][j] = Input(s)[j]

BothAt(j) == j < i["encrypt"] /\ j < i["decrypt"]
Agreement ==
  \A j \in Index : BothAt(j) /\ SameCuts(j) => used["encrypt"][j] = used["decrypt"][j]

AlignedPart ==
  \A s \in Side : Aligned(s) =>
    \A j \in 0..i[s] - 1 : used[s][j].pos = j % BLOCKLEN
AlignedAgreement ==
  Aligned("encrypt") /\ Aligned("decrypt") =>
    \A j \in Index : BothAt(j) => used["encrypt"][j].ctr = used["decrypt"][j].ctr

IInv ==
  /\ sent <= i["encrypt"] /\ (~busy["encrypt"] => sent = i["encrypt"])
  /\ \A s \in Side : Progress(s) /\ Combined(s)
  /\ Agreement /\ AlignedPart /\ AlignedAgreement
-----------------------------------------------------------------------------
\* The incremented counter block is a block.
LEMMA IncrementType ==
  ASSUME NEW iv \in Block
  PROVE  IncrementIv(iv) \in Block
<1>1. \A k \in Offset : iv[k] \in Byte /\ 0 \in Byte /\ (iv[k] # Base - 1 => iv[k] + 1 \in Byte)
  BY SizeAssumption DEF Block, Byte
<1> QED  BY <1>1 DEF IncrementIv, Block

(***************************************************************************)
(* Remainders, of any divisor: the provers know the division theorem only. *)
(***************************************************************************)
LEMMA Euclid ==
  ASSUME NEW b \in Nat \ {0}, NEW j \in Nat
  PROVE  j \div b \in Int /\ j % b \in 0..b - 1 /\ j = b * (j \div b) + (j % b)
OBVIOUS

LEMMA UniqueRemainder ==
  ASSUME NEW b \in Nat \ {0}, NEW x \in Int, NEW y \in Int,
         NEW r \in 0..b - 1, NEW t \in 0..b - 1, b * x + r = b * y + t
  PROVE  r = t
<1>0. b * x \in Int /\ b * y \in Int
  OBVIOUS
<1>1. CASE x >= y + 1
  <2>1. b * x >= b * (y + 1)
    BY <1>1
  <2>2. b * (y + 1) = b * y + b
    OBVIOUS
  <2> QED  BY <1>0, <2>1, <2>2
<1>2. CASE y >= x + 1
  <2>1. b * y >= b * (x + 1)
    BY <1>2
  <2>2. b * (x + 1) = b * x + b
    OBVIOUS
  <2> QED  BY <1>0, <2>1, <2>2
<1>3. CASE x = y
  BY <1>0, <1>3
<1> QED  BY <1>1, <1>2, <1>3

LEMMA ModStep ==
  ASSUME NEW b \in Nat \ {0}, NEW j \in Nat
  PROVE  (j + 1) % b = IF j % b = b - 1 THEN 0 ELSE (j % b) + 1
<1> DEFINE q == j \div b
           r == j % b
           t == (j + 1) % b
           p == (j + 1) \div b
<1>1. q \in Int /\ r \in 0..b - 1 /\ j = b * q + r
  BY Euclid
<1>2. p \in Int /\ t \in 0..b - 1 /\ j + 1 = b * p + t
  BY Euclid
<1> HIDE DEF q, r, t, p
<1>3. CASE r = b - 1
  <2>1. j + 1 = b * (q + 1) + 0
    <3>1. b * (q + 1) = b * q + b /\ b * q \in Int
      BY <1>1
    <3> QED  BY <1>1, <1>3, <3>1
  <2>2. t = 0
    <3>1. 0 \in 0..b - 1 /\ q + 1 \in Int
      BY <1>1
    <3> QED  BY <1>2, <2>1, <3>1, UniqueRemainder
  <2> QED  BY <1>3, <2>2 DEF r, t
<1>4. CASE r # b - 1
  <2>1. j + 1 = b * q + (r + 1) /\ r + 1 \in 0..b - 1
    <3>1. b * q \in Int
      BY <1>1
    <3> QED  BY <1>1, <1>4, <3>1
  <2>2. t = r + 1
    BY <1>1, <1>2, <2>1, UniqueRemainder
  <2> QED  BY <1>4, <2>2 DEF r, t
<1> QED  BY <1>3, <1>4

LEMMA UniqueQuotient ==
  ASSUME NEW b \in Nat \ {0}, NEW x \in Int, NEW y \in Int, b * x = b * y
  PROVE  x = y
<1>0. b * x \in Int /\ b * y \in Int
  OBVIOUS
<1>1. CASE x >= y + 1
  <2>1. b * x >= b * (y + 1) /\ b * (y + 1) = b * y + b
    BY <1>1
  <2> QED  BY <1>0, <2>1
<1>2. CASE y >= x + 1
  <2>1. b * y >= b * (x + 1) /\ b * (x + 1) = b * x + b
    BY <1>2
  <2> QED  BY <1>0, <2>1
<1> QED  BY <1>1, <1>2

LEMMA DivStep ==
  ASSUME NEW b \in Nat \ {0}, NEW j \in Nat
  PROVE  /\ j \div b \in Int /\ 0 \div b = 0
         /\ (j + 1) \div b = IF (j + 1) % b = 0 THEN (j \div b) + 1 ELSE j \div b
<1> DEFINE q == j \div b
           r == j % b
           t == (j + 1) % b
           p == (j + 1) \div b
<1>1. q \in Int /\ r \in 0..b - 1 /\ j = b * q + r
  BY Euclid
<1>2. p \in Int /\ t \in 0..b - 1 /\ j + 1 = b * p + t
  BY Euclid
<1>3. t = IF r = b - 1 THEN 0 ELSE r + 1
  BY ModStep
<1>4. 0 \div b = 0
  OBVIOUS
<1> HIDE DEF q, r, t, p
<1>5. b * q \in Int /\ b * p \in Int /\ b * (q + 1) = b * q + b /\ q + 1 \in Int
  BY <1>1, <1>2
<1>6. CASE t = 0
  <2>1. b * p = b * (q + 1)
    BY <1>1, <1>2, <1>3, <1>5, <1>6
  <2>2. p = q + 1
    BY <1>1, <1>2, <1>5, <2>1, UniqueQuotient
  <2> QED  BY <1>1, <1>4, <1>6, <2>2 DEF q, t, p
<1>7. CASE t # 0
  <2>1. b * p = b * q
    BY <1>1, <1>2, <1>3, <1>5, <1>7
  <2>2. p = q
    BY <1>1, <1>2, <2>1, UniqueQuotient
  <2> QED  BY <1>1, <1>4, <1>7, <2>2 DEF q, t, p
<1> QED  BY <1>6, <1>7

\* Every index of the loops stays inside its array (aes.c:538-569).
THEOREM TypeCorrect == Spec => []TypeOK
<1>1. Init => TypeOK
  <2> SUFFICES ASSUME Init PROVE TypeOK
    OBVIOUS
  <2>1. plain \in Message /\ plain \in [Index -> Byte] /\ iv0 \in Block
    BY SizeAssumption DEF Init
  <2>2. 0 \in Offset /\ 0 \in 0..N /\ BLOCKLEN \in 1..BLOCKLEN
    BY SizeAssumption DEF Offset
  <2> QED  BY <2>1, <2>2 DEF Init, TypeOK
<1>2. TypeOK /\ [Next]_vars => TypeOK'
  <2> SUFFICES ASSUME TypeOK, [Next]_vars PROVE TypeOK'
    OBVIOUS
  <2>1. ASSUME NEW s \in Side, NEW n \in 0..(Ready(s) - i[s]), Call(s, n)
        PROVE  TypeOK'
    <3>1. Input(s) \in [Index -> Byte]
      BY SizeAssumption DEF Input, TypeOK, Side
    <3>2. i[s] \in 0..N /\ i[s] + n \in 0..N
      BY SizeAssumption DEF Ready, TypeOK
    <3>3. [j \in Index |-> IF j \in i[s] .. i[s] + n - 1 THEN Input(s)[j] ELSE buf[s][j]]
            \in [Index -> Byte]
      BY <3>1 DEF TypeOK
    <3>4. BLOCKLEN \in 1..BLOCKLEN
      BY SizeAssumption
    <3> QED  BY <2>1, <3>2, <3>3, <3>4 DEF Call, TypeOK
  <2>2. ASSUME NEW s \in Side, NEW keystream \in Block, NEW k \in Offset, NEW c \in Block,
               CombineByte(s, keystream, k, c), Iv' \in [Side -> Block]
        PROVE  TypeOK'
    <3>1. i[s] \in Index /\ i[s] + 1 \in 0..N /\ k + 1 \in 1..BLOCKLEN
      BY <2>2, SizeAssumption DEF CombineByte, TypeOK, Index, Offset
    <3>2. XorByte(buf[s][i[s]], keystream[k]) \in Byte
      BY <3>1, XorAssumption DEF TypeOK, Block
    <3>3. [ctr |-> c, pos |-> k] \in [ctr : Block, pos : Offset]
      OBVIOUS
    <3> QED  BY <2>2, <3>1, <3>2, <3>3 DEF CombineByte, TypeOK
  <2>3. ASSUME NEW s \in Side, FirstOfBlock(s)
        PROVE  TypeOK'
    <3>1. Iv[s] \in Block /\ Cipher(Iv[s]) \in Block /\ IncrementIv(Iv[s]) \in Block
      BY CipherAssumption, IncrementType DEF TypeOK
    <3>2. 0 \in Offset
      BY SizeAssumption DEF Offset
    <3> QED  BY <2>2, <2>3, <3>1, <3>2 DEF FirstOfBlock, TypeOK
  <2>4. ASSUME NEW s \in Side, RestOfBlock(s)
        PROVE  TypeOK'
    <3>1. bi[s] \in 1..BLOCKLEN /\ bi[s] # BLOCKLEN /\ buffer[s] \in Block
      BY <2>4 DEF RestOfBlock, TypeOK
    <3>2. bi[s] \in Offset
      BY <3>1, SizeAssumption DEF Offset
    <3>3. i[s] - 1 \in Index
      BY <3>1, SizeAssumption DEF TypeOK, Index
    <3>4. used[s][i[s] - 1].ctr \in Block
      BY <3>3 DEF TypeOK
    <3> QED  BY <2>2, <2>4, <3>1, <3>2, <3>4 DEF RestOfBlock, TypeOK
  <2>5. ASSUME NEW s \in Side, Return(s)
        PROVE  TypeOK'
    BY <2>5 DEF Return, TypeOK
  <2>6. CASE UNCHANGED vars
    BY <2>6 DEF vars, TypeOK
  <2> QED  BY <2>1, <2>3, <2>4, <2>5, <2>6 DEF Next
<1> QED  BY <1>1, <1>2, PTL DEF Spec

-----------------------------------------------------------------------------
(***************************************************************************)
(* The inductive invariant.  Took(s, u): side s combines its next byte with*)
(* the keystream byte u.                                                   *)
(***************************************************************************)
Took(s, u) ==
  /\ busy[s] /\ i[s] \in Index /\ i[s] < end[s]
  /\ u \in [ctr : Block, pos : Offset]
  /\ u = IF i[s] = 0 THEN [ctr |-> iv0, pos |-> 0] ELSE Following(s, i[s])
  /\ buf' = [buf EXCEPT ![s][i[s]] = XorByte(@, Cipher(u.ctr)[u.pos])]
  /\ buffer' = [buffer EXCEPT ![s] = Cipher(u.ctr)]
  /\ bi' = [bi EXCEPT ![s] = u.pos + 1]
  /\ i' = [i EXCEPT ![s] = @ + 1]
  /\ used' = [used EXCEPT ![s][i[s]] = u]
  /\ Iv' = [Iv EXCEPT ![s] = IncrementIv(u.ctr)]
  /\ UNCHANGED <<plain, iv0, end, busy, sent, cuts>>

LEMMA FirstTook ==
  ASSUME TypeOK, IInv, NEW s \in Side, FirstOfBlock(s)
  PROVE  Took(s, [ctr |-> Iv[s], pos |-> 0])
<1> DEFINE u == [ctr |-> Iv[s], pos |-> 0]
<1>1. busy[s] /\ i[s] < end[s] /\ bi[s] = BLOCKLEN
  BY DEF FirstOfBlock, CombineByte
<1>2. i[s] \in Index /\ 0 \in Offset /\ Iv[s] \in Block
  BY <1>1, SizeAssumption DEF TypeOK, Index, Offset
<1>3. u = IF i[s] = 0 THEN [ctr |-> iv0, pos |-> 0] ELSE Following(s, i[s])
  <2>1. Progress(s)
    BY DEF IInv
  <2>2. CASE i[s] = 0
    BY <2>1, <2>2 DEF Progress
  <2>3. CASE i[s] # 0
    <3>1. i[s] \in cuts[s] \/ used[s][i[s] - 1].pos = BLOCKLEN - 1
      BY <1>1, <2>1, <2>3 DEF Progress
    <3>2. Iv[s] = IncrementIv(used[s][i[s] - 1].ctr)
      BY <2>1, <2>3 DEF Progress
    <3> QED  BY <2>3, <3>1, <3>2 DEF Following
  <2> QED  BY <2>2, <2>3
<1> QED  BY <1>1, <1>2, <1>3 DEF FirstOfBlock, CombineByte, Took

LEMMA RestTook ==
  ASSUME TypeOK, IInv, NEW s \in Side, RestOfBlock(s)
  PROVE  Took(s, [ctr |-> used[s][i[s] - 1].ctr, pos |-> bi[s]])
<1> DEFINE v == used[s][i[s] - 1]
           u == [ctr |-> v.ctr, pos |-> bi[s]]
<1>1. busy[s] /\ i[s] < end[s] /\ bi[s] # BLOCKLEN /\ Progress(s)
  BY DEF RestOfBlock, CombineByte, IInv
<1>2. i[s] \in Index /\ i[s] > 0 /\ i[s] - 1 \in Index
  BY <1>1, SizeAssumption DEF TypeOK, Index
<1>3. v \in [ctr : Block, pos : Offset]
  BY <1>2 DEF TypeOK
<1>4. i[s] \notin cuts[s] /\ bi[s] = v.pos + 1 /\ buffer[s] = Cipher(v.ctr)
  BY <1>1 DEF Progress
<1>5. bi[s] \in Offset /\ v.pos # BLOCKLEN - 1
  <2>1. bi[s] \in 1..BLOCKLEN /\ BLOCKLEN \in Nat
    BY SizeAssumption DEF TypeOK
  <2> QED  BY <1>1, <1>4, <2>1 DEF Offset
<1>6. u = Following(s, i[s])
  BY <1>4, <1>5 DEF Following
<1>7. Iv[s] = IncrementIv(v.ctr) /\ Iv' = [Iv EXCEPT ![s] = IncrementIv(v.ctr)]
  <2>1. Iv[s] = IncrementIv(v.ctr)
    BY <1>1, <1>2 DEF Progress
  <2>2. Iv' = Iv /\ Iv \in [Side -> Block]
    BY DEF RestOfBlock, TypeOK
  <2> QED  BY <2>1, <2>2
<1>8. buffer' = [buffer EXCEPT ![s] = Cipher(u.ctr)]
  BY <1>4 DEF RestOfBlock, CombineByte
<1>9. buf' = [buf EXCEPT ![s][i[s]] = XorByte(@, Cipher(u.ctr)[u.pos])]
  BY <1>4 DEF RestOfBlock, CombineByte
<1>10. /\ bi' = [bi EXCEPT ![s] = u.pos + 1]
       /\ i' = [i EXCEPT ![s] = @ + 1]
       /\ used' = [used EXCEPT ![s][i[s]] = u]
       /\ UNCHANGED <<plain, iv0, end, busy, sent, cuts>>
  BY DEF RestOfBlock, CombineByte
<1>11. u \in [ctr : Block, pos : Offset]
  BY <1>3, <1>5
<1>12. /\ u = IF i[s] = 0 THEN [ctr |-> iv0, pos |-> 0] ELSE Following(s, i[s])
       /\ Iv' = [Iv EXCEPT ![s] = IncrementIv(u.ctr)]
  BY <1>2, <1>6, <1>7
<1> HIDE DEF u
<1>13. Took(s, u)
  BY <1>1, <1>2, <1>8, <1>9, <1>10, <1>11, <1>12 DEF Took
<1> QED  BY <1>13 DEF u

\* What Took changes, entry by entry.
LEMMA TookFacts ==
  ASSUME TypeOK, IInv, NEW s \in Side, NEW u, Took(s, u)
  PROVE  /\ i'[s] = i[s] + 1 /\ used'[s][i[s]] = u
         /\ buf'[s][i[s]] = XorByte(buf[s][i[s]], Cipher(u.ctr)[u.pos])
         /\ Iv'[s] = IncrementIv(u.ctr) /\ bi'[s] = u.pos + 1 /\ buffer'[s] = Cipher(u.ctr)
         /\ \A j \in Index : j # i[s] => used'[s][j] = used[s][j] /\ buf'[s][j] = buf[s][j]
         /\ \A t \in Side : t # s =>
              /\ i'[t] = i[t] /\ used'[t] = used[t] /\ buf'[t] = buf[t] /\ Iv'[t] = Iv[t]
              /\ bi'[t] = bi[t] /\ buffer'[t] = buffer[t]
BY DEF Took, TypeOK

LEMMA TookProgress ==
  ASSUME TypeOK, TypeOK', IInv, NEW s \in Side, NEW u, Took(s, u), NEW t \in Side
  PROVE  Progress(t)'
<1>1. Progress(t) /\ UNCHANGED <<iv0, cuts, end, busy, sent>> /\ Ready(t)' = Ready(t)
  BY DEF IInv, Took, Ready
<1>2. CASE t # s
  BY <1>1, <1>2, TookFacts DEF Progress, Following
<1>3. CASE t = s
  <2> DEFINE k == i[s]
  <2>1. k \in Index /\ i'[s] = k + 1 /\ used'[s][k] = u /\ u \in [ctr : Block, pos : Offset]
        /\ Iv'[s] = IncrementIv(u.ctr) /\ bi'[s] = u.pos + 1 /\ buffer'[s] = Cipher(u.ctr)
    <3>1. k \in Index /\ u \in [ctr : Block, pos : Offset]
      BY DEF Took
    <3> QED  BY <3>1, TookFacts
  <2>2. \A j \in 0..k - 1 : j \in Index /\ used'[s][j] = used[s][j]
    <3>1. \A j \in 0..k - 1 : j \in Index /\ j # k
      BY <2>1, SizeAssumption DEF Index
    <3> QED  BY <3>1, TookFacts
  <2>3. cuts[s] \subseteq 0..k
    BY <1>1, <1>3 DEF Progress
  <2>4. cuts'[s] \subseteq 0..i'[s]
    BY <1>1, <2>1, <2>3 DEF Index
  <2>5. used'[s][0] = [ctr |-> iv0', pos |-> 0]
    BY <1>1, <1>3, <2>1, <2>2 DEF Progress, Took, Index
  <2>6. \A j \in 1..i'[s] - 1 : used'[s][j] = Following(s, j)'
    <3> SUFFICES ASSUME NEW j \in 1..k PROVE used'[s][j] = Following(s, j)'
      BY <2>1 DEF Index
    <3>1. Following(s, j)' = Following(s, j)
      BY <1>1, <2>1, <2>2 DEF Following, Index
    <3>2. used'[s][j] = Following(s, j)
      BY <1>1, <1>3, <2>1, <2>2 DEF Progress, Took, Index
    <3> QED  BY <3>1, <3>2
  <2>7. i'[s] <= end'[s] /\ end'[s] <= Ready(s)'
    BY <1>1, <1>3, <2>1 DEF Progress, Took, Index, TypeOK
  <2>8. IF bi'[s] = BLOCKLEN
        THEN used'[s][i'[s] - 1].pos = BLOCKLEN - 1
        ELSE /\ i'[s] > 0 /\ i'[s] \notin cuts'[s]
             /\ bi'[s] = used'[s][i'[s] - 1].pos + 1
             /\ buffer'[s] = Cipher(used'[s][i'[s] - 1].ctr)
    BY <1>1, <2>1, <2>3, SizeAssumption DEF Index, Offset
  <2>9. Iv'[s] = IncrementIv(used'[s][i'[s] - 1].ctr) /\ i'[s] # 0
    BY <2>1 DEF Index
  <2> QED  BY <1>3, <2>4, <2>5, <2>6, <2>7, <2>8, <2>9 DEF Progress
<1> QED  BY <1>2, <1>3

LEMMA TookCombined ==
  ASSUME TypeOK, IInv, NEW s \in Side, NEW u, Took(s, u), NEW t \in Side
  PROVE  Combined(t)'
<1> DEFINE k == i[s]
<1>1. /\ Combined(t) /\ Progress(t) /\ sent <= i["encrypt"]
      /\ UNCHANGED <<plain, end, busy, sent>> /\ k \in Index /\ k < end[s] /\ busy[s]
  BY DEF IInv, Took
<1>2. Ready(t)' = Ready(t)
  BY <1>1 DEF Ready
<1>3. i'[s] = k + 1 /\ used'[s][k] = u /\ buf'[s][k] = XorByte(buf[s][k], Cipher(u.ctr)[u.pos])
  BY TookFacts
<1>4. \A j \in Index : j # k => used'[s][j] = used[s][j] /\ buf'[s][j] = buf[s][j]
  BY TookFacts
<1>5. t # s => i'[t] = i[t] /\ used'[t] = used[t] /\ buf'[t] = buf[t]
  BY TookFacts
<1>6. i[t] \in 0..N /\ end[t] \in 0..N /\ sent \in 0..N /\ i[s] \in 0..N
  BY DEF TypeOK
<1>7. CASE t = s
  <2>1. Input(t)' = Input(t)
    <3>1. t = "encrypt" \/ t = "decrypt"
      BY DEF Side
    <3>2. t = "decrypt" => buf'["encrypt"] = buf["encrypt"]
      BY <1>7, TookFacts DEF Side
    <3> QED  BY <1>1, <3>1, <3>2 DEF Input
  <2>2. k < end[t] /\ end[t] <= Ready(t)
    BY <1>1, <1>7 DEF Progress
  <2>3. i'[t] <= Ready(t)'
    BY <1>2, <1>3, <1>6, <1>7, <2>2, SizeAssumption DEF Ready
  <2>4. buf[t][k] = Input(t)[k]
    BY <1>1, <1>6, <1>7 DEF Combined
  <2>5. \A j \in 0..k - 1 : j \in Index /\ j # k
    BY <1>1, SizeAssumption DEF Index
  <2>6. \A j \in 0..i'[t] - 1 :
          buf'[t][j] = XorByte(Input(t)'[j], Cipher(used'[t][j].ctr)[used'[t][j].pos])
    <3> SUFFICES ASSUME NEW j \in 0..k
                 PROVE  buf'[t][j] = XorByte(Input(t)[j], Cipher(used'[t][j].ctr)[used'[t][j].pos])
      BY <1>3, <1>6, <1>7, <2>1
    <3>1. CASE j = k
      BY <1>3, <1>7, <2>4, <3>1
    <3>2. CASE j # k
      <4>1. j \in 0..k - 1
        BY <1>6, <3>2
      <4>2. buf[t][j] = XorByte(Input(t)[j], Cipher(used[t][j].ctr)[used[t][j].pos])
        BY <1>1, <1>7, <4>1 DEF Combined
      <4> QED  BY <1>4, <1>7, <2>5, <4>1, <4>2
    <3> QED  BY <3>1, <3>2
  <2>7. \A j \in i'[t] .. end'[t] - 1 : buf'[t][j] = Input(t)'[j]
    <3> SUFFICES ASSUME NEW j \in k + 1 .. end[t] - 1 PROVE buf'[t][j] = Input(t)[j]
      BY <1>1, <1>3, <1>7, <2>1
    <3>1. j \in Index /\ j # k /\ j \in i[t] .. end[t] - 1
      BY <1>1, <1>6, <1>7, SizeAssumption DEF Index
    <3>2. buf[t][j] = Input(t)[j]
      BY <1>1, <1>7, <3>1 DEF Combined
    <3> QED  BY <1>4, <1>7, <3>1, <3>2
  <2> QED  BY <2>3, <2>6, <2>7 DEF Combined
<1>8. CASE t # s
  <2>1. \A j \in Index : j < Ready(t) => Input(t)'[j] = Input(t)[j]
    <3>1. CASE t = "encrypt"
      BY <1>1, <3>1 DEF Input
    <3>2. CASE t = "decrypt"
      <4>1. s = "encrypt" /\ Ready(t) = sent
        BY <1>8, <3>2 DEF Side, Ready
      <4>2. \A j \in Index : j < Ready(t) => j # k
        BY <1>1, <1>6, <4>1 DEF Index
      <4> QED  BY <1>4, <3>2, <4>1, <4>2 DEF Input
    <3> QED  BY <3>1, <3>2 DEF Side
  <2>2. i[t] <= Ready(t) /\ (busy[t] => end[t] <= Ready(t))
    BY <1>1 DEF Combined, Progress
  <2>3. Ready(t) \in 0..N
    BY <1>6, SizeAssumption DEF Ready
  <2>4. \A j \in 0..i[t] - 1 : j \in Index /\ j < Ready(t)
    BY <1>6, <2>2, <2>3, SizeAssumption DEF Index
  <2>5. busy[t] => \A j \in i[t] .. end[t] - 1 : j \in Index /\ j < Ready(t)
    BY <1>6, <2>2, <2>3, SizeAssumption DEF Index
  <2> QED  BY <1>1, <1>2, <1>5, <1>8, <2>1, <2>2, <2>4, <2>5 DEF Combined
<1> QED  BY <1>7, <1>8

\* The keystream byte a side took at j is the one that follows, if j is not
\* the first.
LEMMA UsedAt ==
  ASSUME TypeOK, IInv, NEW s \in Side, NEW j \in Index, j < i[s]
  PROVE  used[s][j] = IF j = 0 THEN [ctr |-> iv0, pos |-> 0] ELSE Following(s, j)
<1>1. Progress(s) /\ i[s] \in 0..N
  BY DEF IInv, TypeOK
<1> QED  BY <1>1 DEF Progress, Index

LEMMA TookAgreement ==
  ASSUME TypeOK, IInv, NEW s \in Side, NEW u, Took(s, u)
  PROVE  Agreement'
<1> DEFINE k == i[s]
<1>1. k \in Index /\ UNCHANGED <<cuts, iv0>> /\ Agreement
  BY DEF Took, IInv
<1> SUFFICES ASSUME NEW j \in Index, BothAt(j)', SameCuts(j)'
             PROVE  used'["encrypt"][j] = used'["decrypt"][j]
  BY DEF Agreement
<1>2. SameCuts(j) /\ i["encrypt"] \in 0..N /\ i["decrypt"] \in 0..N
  BY <1>1 DEF SameCuts, TypeOK, Side
<1>3. CASE j # k
  <2>1. BothAt(j)
    BY <1>1, <1>2, <1>3, TookFacts DEF BothAt, Index, Side
  <2>2. used["encrypt"][j] = used["decrypt"][j]
    BY <1>1, <1>2, <2>1 DEF Agreement
  <2>3. \A t \in Side : used'[t][j] = used[t][j]
    BY <1>3, TookFacts
  <2> QED  BY <2>2, <2>3 DEF Side
<1>4. CASE j = k
  <2>1. PICK t \in Side : t # s /\ Side = {s, t}
    BY DEF Side
  <2>2. k < i[t] /\ used'[s][k] = u /\ used'[t] = used[t]
    BY <1>4, <2>1, TookFacts DEF BothAt, Side
  <2>3. u = IF k = 0 THEN [ctr |-> iv0, pos |-> 0] ELSE Following(s, k)
    BY DEF Took
  <2>4. used[t][k] = IF k = 0 THEN [ctr |-> iv0, pos |-> 0] ELSE Following(t, k)
    BY <1>1, <2>2, UsedAt
  <2>5. k # 0 => Following(s, k) = Following(t, k)
    <3> SUFFICES ASSUME k # 0 PROVE Following(s, k) = Following(t, k)
      OBVIOUS
    <3>1. k - 1 \in Index /\ BothAt(k - 1) /\ SameCuts(k - 1)
      <4>1. k - 1 \in Index /\ k \in Nat
        BY <1>1, SizeAssumption DEF Index
      <4>2. \A x \in Side : k - 1 < i[x]
        BY <1>2, <2>1, <2>2, <4>1 DEF Side
      <4>3. SameCuts(k - 1)
        BY <1>2, <1>4, <4>1 DEF SameCuts
      <4> QED  BY <4>1, <4>2, <4>3 DEF BothAt, Side
    <3>2. used[s][k - 1] = used[t][k - 1]
      BY <1>1, <2>1, <3>1 DEF Agreement, Side
    <3>3. k \in cuts[s] <=> k \in cuts[t]
      BY <1>1, <1>2, <1>4, <2>1 DEF SameCuts, Side, Index
    <3> QED  BY <3>2, <3>3 DEF Following
  <2>6. used'[s][k] = used'[t][k]
    BY <2>2, <2>3, <2>4, <2>5
  <2> QED  BY <1>4, <2>1, <2>6 DEF Side
<1> QED  BY <1>3, <1>4

\* Where all calls begin at whole blocks, the keystream byte that follows
\* does not depend on them.
LEMMA AlignedFollowing ==
  ASSUME TypeOK, NEW s \in Side, Aligned(s), NEW k \in Index, k # 0,
         used[s][k - 1].pos = (k - 1) % BLOCKLEN
  PROVE  /\ Following(s, k).pos = k % BLOCKLEN
         /\ Following(s, k).ctr = IF k % BLOCKLEN = 0 THEN IncrementIv(used[s][k - 1].ctr)
                                                     ELSE used[s][k - 1].ctr
<1>1. k - 1 \in Nat /\ k = (k - 1) + 1 /\ BLOCKLEN \in Nat \ {0}
  BY SizeAssumption DEF Index
<1>2. /\ (k - 1) % BLOCKLEN \in 0..BLOCKLEN - 1
      /\ k % BLOCKLEN = IF (k - 1) % BLOCKLEN = BLOCKLEN - 1 THEN 0 ELSE ((k - 1) % BLOCKLEN) + 1
  BY <1>1, Euclid, ModStep
<1> DEFINE r == (k - 1) % BLOCKLEN
           t == k % BLOCKLEN
<1>3. r \in 0..BLOCKLEN - 1 /\ t = IF r = BLOCKLEN - 1 THEN 0 ELSE r + 1
  BY <1>2
<1>4. used[s][k - 1].pos = r /\ (k \in cuts[s] => t = 0)
  BY DEF Aligned
<1> HIDE DEF r, t
<1>5. t = 0 <=> k \in cuts[s] \/ r = BLOCKLEN - 1
  BY <1>1, <1>3, <1>4
<1>6. Following(s, k) = IF t = 0 THEN [ctr |-> IncrementIv(used[s][k - 1].ctr), pos |-> 0]
                                 ELSE [ctr |-> used[s][k - 1].ctr, pos |-> r + 1]
  BY <1>4, <1>5 DEF Following
<1>7. Following(s, k).pos = t
  BY <1>3, <1>5, <1>6
<1>8. Following(s, k).ctr = IF t = 0 THEN IncrementIv(used[s][k - 1].ctr) ELSE used[s][k - 1].ctr
  BY <1>6
<1> QED  BY <1>7, <1>8 DEF t

LEMMA TookAligned ==
  ASSUME TypeOK, IInv, NEW s \in Side, NEW u, Took(s, u)
  PROVE  AlignedPart' /\ AlignedAgreement'
<1> DEFINE k == i[s]
<1>1. k \in Index /\ UNCHANGED <<cuts, iv0>> /\ AlignedPart /\ AlignedAgreement
  BY DEF Took, IInv
<1>2. \A t \in Side : Aligned(t)' = Aligned(t) /\ i[t] \in 0..N
  BY <1>1 DEF Aligned, TypeOK
<1>3. used'[s][k] = IF k = 0 THEN [ctr |-> iv0, pos |-> 0] ELSE Following(s, k)
  <2>1. used'[s][k] = u
    BY TookFacts
  <2>2. u = IF k = 0 THEN [ctr |-> iv0, pos |-> 0] ELSE Following(s, k)
    BY DEF Took
  <2> QED  BY <2>1, <2>2
<1>4. k # 0 => k - 1 \in Index /\ k - 1 \in 0..k - 1
  BY <1>1, SizeAssumption DEF Index
<1>5. 0 % BLOCKLEN = 0
  BY SizeAssumption
<1>6. AlignedPart'
  <2> SUFFICES ASSUME NEW t \in Side, Aligned(t), NEW j \in 0..i'[t] - 1
               PROVE  used'[t][j].pos = j % BLOCKLEN
    BY <1>2 DEF AlignedPart
  <2>1. CASE t = s /\ j = k
    <3>1. CASE k = 0
      BY <1>3, <1>5, <2>1, <3>1
    <3>2. CASE k # 0
      <4>1. used[s][k - 1].pos = (k - 1) % BLOCKLEN
        BY <1>1, <1>4, <2>1, <3>2 DEF AlignedPart
      <4> QED  BY <1>1, <1>3, <2>1, <3>2, <4>1, AlignedFollowing
    <3> QED  BY <3>1, <3>2
  <2>2. CASE t # s \/ j # k
    <3>1. j \in 0..i[t] - 1 /\ j \in Index
      BY <1>1, <1>2, <2>2, TookFacts, SizeAssumption DEF Index
    <3>2. used'[t][j] = used[t][j]
      BY <2>2, <3>1, TookFacts
    <3> QED  BY <1>1, <3>1, <3>2 DEF AlignedPart
  <2> QED  BY <2>1, <2>2
<1>7. AlignedAgreement'
  <2> SUFFICES ASSUME Aligned("encrypt"), Aligned("decrypt"), NEW j \in Index, BothAt(j)'
               PROVE  used'["encrypt"][j].ctr = used'["decrypt"][j].ctr
    BY <1>2 DEF AlignedAgreement, Side
  <2>1. CASE j # k
    <3>1. BothAt(j)
      BY <1>1, <1>2, <2>1, TookFacts DEF BothAt, Index, Side
    <3>2. used["encrypt"][j].ctr = used["decrypt"][j].ctr
      BY <1>1, <3>1 DEF AlignedAgreement
    <3>3. \A t \in Side : used'[t][j] = used[t][j]
      BY <2>1, TookFacts
    <3> QED  BY <3>2, <3>3 DEF Side
  <2>2. CASE j = k
    <3>1. PICK t \in Side : t # s /\ Side = {s, t}
      BY DEF Side
    <3>2. k < i[t] /\ used'[t] = used[t]
      BY <2>2, <3>1, TookFacts DEF BothAt, Side
    <3>3. used[t][k] = IF k = 0 THEN [ctr |-> iv0, pos |-> 0] ELSE Following(t, k)
      BY <1>1, <3>2, UsedAt
    <3>4. k # 0 => Following(s, k).ctr = Following(t, k).ctr
      <4> SUFFICES ASSUME k # 0 PROVE Following(s, k).ctr = Following(t, k).ctr
        OBVIOUS
      <4>1. Aligned(s) /\ Aligned(t)
        BY <3>1 DEF Side
      <4>2. k - 1 \in 0..i[t] - 1 /\ BothAt(k - 1)
        BY <1>1, <1>2, <3>1, <3>2 DEF Index, BothAt, Side
      <4>3. used[s][k - 1].pos = (k - 1) % BLOCKLEN /\ used[t][k - 1].pos = (k - 1) % BLOCKLEN
        BY <1>1, <1>4, <4>1, <4>2 DEF AlignedPart
      <4>4. used[s][k - 1].ctr = used[t][k - 1].ctr
        BY <1>1, <1>4, <3>1, <4>2 DEF AlignedAgreement, Side
      <4>5. Following(s, k).ctr = IF k % BLOCKLEN = 0 THEN IncrementIv(used[s][k - 1].ctr)
                                                    ELSE used[s][k - 1].ctr
        BY <1>1, <4>1, <4>3, AlignedFollowing
      <4>6. Following(t, k).ctr = IF k % BLOCKLEN = 0 THEN IncrementIv(used[t][k - 1].ctr)
                                                    ELSE used[t][k - 1].ctr
        BY <1>1, <4>1, <4>3, AlignedFollowing
      <4> QED  BY <4>4, <4>5, <4>6
    <3>5. used'[s][k].ctr = used'[t][k].ctr
      BY <1>3, <3>2, <3>3, <3>4
    <3> QED  BY <2>2, <3>1, <3>5 DEF Side
  <2> QED  BY <2>1, <2>2
<1> QED  BY <1>6, <1>7

LEMMA TookKeeps ==
  ASSUME TypeOK, TypeOK', IInv, NEW s \in Side, NEW u, Took(s, u)
  PROVE  IInv'
<1>1. \A t \in Side : Progress(t)' /\ Combined(t)'
  BY TookProgress, TookCombined
<1>2. Agreement' /\ AlignedPart' /\ AlignedAgreement'
  BY TookAgreement, TookAligned
<1>3. sent' <= i'["encrypt"] /\ (~busy'["encrypt"] => sent' = i'["encrypt"])
  <2>1. UNCHANGED <<sent, busy>> /\ busy[s]
    BY DEF Took
  <2>2. sent <= i["encrypt"] /\ (~busy["encrypt"] => sent = i["encrypt"])
    BY DEF IInv
  <2>3. i["encrypt"] \in 0..N /\ sent \in 0..N
    BY DEF TypeOK, Side
  <2>4. i'["encrypt"] = IF s = "encrypt" THEN i["encrypt"] + 1 ELSE i["encrypt"]
    BY TookFacts DEF Side
  <2> QED  BY <2>1, <2>2, <2>3, <2>4
<1> QED  BY <1>1, <1>2, <1>3 DEF IInv

\* A call begins: nothing is combined, and the bytes it works on are ahead of
\* what either side has done.
LEMMA CallKeeps ==
  ASSUME TypeOK, TypeOK', IInv, NEW s \in Side, NEW n \in 0..(Ready(s) - i[s]), Call(s, n)
  PROVE  IInv'
<1>1. /\ ~busy[s] /\ UNCHANGED <<plain, iv0, Iv, buffer, i, sent, used>>
      /\ \A t \in Side : t # s =>
           busy'[t] = busy[t] /\ end'[t] = end[t] /\ bi'[t] = bi[t] /\ cuts'[t] = cuts[t]
      /\ cuts'[s] = cuts[s] \cup {i[s]} /\ bi'[s] = BLOCKLEN /\ end'[s] = i[s] + n
  BY DEF Call, TypeOK
<1>2. /\ \A j \in Index : buf'[s][j] = IF j \in i[s] .. i[s] + n - 1 THEN Input(s)[j] ELSE buf[s][j]
      /\ \A t \in Side : t # s => buf'[t] = buf[t]
  BY DEF Call, TypeOK
<1>3. \A t \in Side : i[t] \in 0..N /\ end[t] \in 0..N /\ Ready(t) \in 0..N /\ Ready(t)' = Ready(t)
  BY <1>1, SizeAssumption DEF TypeOK, Ready
<1>4. \A t \in Side : Progress(t) /\ Combined(t)
  BY DEF IInv
<1>5. \A t \in Side : Progress(t)'
  <2> SUFFICES ASSUME NEW t \in Side PROVE Progress(t)'
    OBVIOUS
  <2>1. CASE t # s
    BY <1>1, <1>3, <1>4, <2>1 DEF Progress, Following
  <2>2. CASE t = s
    <3>1. \A j \in 1..i[s] - 1 : Following(s, j)' = Following(s, j)
      BY <1>1, <1>3 DEF Following
    <3>2. i'[s] <= end'[s] /\ end'[s] <= Ready(s)' /\ i[s] \in cuts'[s] /\ cuts'[s] \subseteq 0..i[s]
      BY <1>1, <1>3, <1>4 DEF Progress
    <3> QED  BY <1>1, <1>4, <2>2, <3>1, <3>2 DEF Progress
  <2> QED  BY <2>1, <2>2
<1>6. \A t \in Side : Combined(t)'
  <2> SUFFICES ASSUME NEW t \in Side PROVE Combined(t)'
    OBVIOUS
  <2>1. \A j \in Index : j < i[t] => buf'[t][j] = buf[t][j]
    BY <1>2, <1>3 DEF Index
  <2>2. \A j \in Index : j < Ready(t) => Input(t)'[j] = Input(t)[j]
    <3>1. CASE t = "encrypt"
      BY <1>1, <3>1 DEF Input
    <3>2. CASE t = "decrypt" /\ s = "decrypt"
      BY <1>2, <3>2 DEF Input, Side
    <3>3. CASE t = "decrypt" /\ s = "encrypt"
      <4>1. sent = i["encrypt"]
        BY <1>1, <3>3 DEF IInv
      <4> QED  BY <1>2, <1>3, <3>3, <4>1 DEF Input, Ready, Side, Index
    <3> QED  BY <3>1, <3>2, <3>3 DEF Side
  <2>3. i[t] <= Ready(t) /\ \A j \in 0..i[t] - 1 : j \in Index /\ j < Ready(t)
    BY <1>3, <1>4, SizeAssumption DEF Combined, Index
  <2>4. busy'[t] => \A j \in i[t] .. end'[t] - 1 : buf'[t][j] = Input(t)'[j]
    <3>1. CASE t = s
      <4>1. \A j \in i[t] .. end'[t] - 1 : j \in Index /\ j < Ready(t)
        BY <1>1, <1>3, <3>1, SizeAssumption DEF Index
      <4>2. ASSUME NEW j \in i[t] .. end'[t] - 1
            PROVE  buf'[t][j] = Input(t)'[j]
        <5>1. j \in Index /\ j < Ready(t)
          BY <4>1, <4>2
        <5>2. j \in i[s] .. i[s] + n - 1
          <6>1. end'[t] = i[s] + n
            BY <1>1, <3>1
          <6> QED  BY <1>3, <3>1, <4>2, <6>1
        <5>3. buf'[s][j] = Input(s)[j]
          BY <1>2, <5>1, <5>2
        <5> QED  BY <2>2, <3>1, <5>1, <5>3
      <4> QED  BY <4>2
    <3>2. CASE t # s
      <4>1. busy[t] => \A j \in i[t] .. end[t] - 1 : j \in Index /\ j < Ready(t)
        BY <1>3, <1>4, SizeAssumption DEF Progress, Index
      <4> QED  BY <1>1, <1>2, <1>4, <2>2, <3>2, <4>1 DEF Combined
    <3> QED  BY <3>1, <3>2
  <2> QED  BY <1>1, <1>3, <1>4, <2>1, <2>2, <2>3, <2>4 DEF Combined
<1>7. Agreement'
  <2> SUFFICES ASSUME NEW j \in Index, BothAt(j), SameCuts(j)'
               PROVE  used["encrypt"][j] = used["decrypt"][j]
    BY <1>1 DEF Agreement, BothAt
  <2>1. \A l \in 0..j, t \in Side : l \in cuts'[t] <=> l \in cuts[t]
    BY <1>1, <1>3 DEF BothAt, Index, Side
  <2> QED  BY <2>1 DEF IInv, Agreement, SameCuts, Side
<1>8. \A t \in Side : Aligned(t)' => Aligned(t)
  BY <1>1 DEF Aligned
<1>9. AlignedPart' /\ AlignedAgreement'
  BY <1>1, <1>8 DEF IInv, AlignedPart, AlignedAgreement, BothAt, Side
<1>10. sent' <= i'["encrypt"] /\ (~busy'["encrypt"] => sent' = i'["encrypt"])
  BY <1>1 DEF IInv, Call, TypeOK, Side
<1> QED  BY <1>5, <1>6, <1>7, <1>9, <1>10 DEF IInv

\* A call returns.
LEMMA ReturnKeeps ==
  ASSUME TypeOK, TypeOK', IInv, NEW s \in Side, Return(s)
  PROVE  IInv'
<1>1. /\ UNCHANGED <<plain, iv0, buf, Iv, buffer, bi, i, end, cuts, used>>
      /\ sent' = IF s = "encrypt" THEN i[s] ELSE sent
      /\ \A t \in Side : busy'[t] => busy[t]
      /\ \A t \in Side : t # s => busy'[t] = busy[t]
      /\ ~busy'[s]
  BY DEF Return, TypeOK
<1>2. sent <= i["encrypt"] /\ (~busy["encrypt"] => sent = i["encrypt"])
  BY DEF IInv
<1>3. \A t \in Side : i[t] \in 0..N /\ end[t] \in 0..N /\ Ready(t) \in 0..N
  BY SizeAssumption DEF TypeOK, Ready
<1>4. sent \in 0..N /\ sent' \in 0..N
  BY DEF TypeOK
<1>5. \A t \in Side : Ready(t) <= Ready(t)' /\ Ready(t)' \in 0..N
  BY <1>1, <1>2, <1>4, SizeAssumption DEF Ready
<1>6. \A t \in Side : Progress(t) /\ Combined(t)
  BY DEF IInv
<1>7. \A t \in Side : Progress(t)'
  BY <1>1, <1>3, <1>5, <1>6 DEF Progress, Following
<1>8. \A t \in Side : Combined(t)'
  BY <1>1, <1>3, <1>5, <1>6 DEF Combined, Input
<1>9. Agreement' /\ AlignedPart' /\ AlignedAgreement'
  BY <1>1 DEF IInv, Agreement, AlignedPart, AlignedAgreement, BothAt, SameCuts, Aligned
<1>10. sent' <= i'["encrypt"] /\ (~busy'["encrypt"] => sent' = i'["encrypt"])
  BY <1>1, <1>2, <1>3, <1>4 DEF Side
<1> QED  BY <1>7, <1>8, <1>9, <1>10 DEF IInv

LEMMA InitIInv == Init => IInv
<1> SUFFICES ASSUME Init PROVE IInv
  OBVIOUS
<1>1. \A s \in Side : Progress(s)
  BY SizeAssumption DEF Init, Progress
<1>2. \A s \in Side : Combined(s)
  BY SizeAssumption DEF Init, Combined, Ready
<1>3. Agreement /\ AlignedPart /\ AlignedAgreement
  BY DEF Init, Agreement, AlignedPart, AlignedAgreement, BothAt, Index, Side
<1> QED  BY <1>1, <1>2, <1>3 DEF Init, IInv, Side

LEMMA Invariant == Spec => []IInv
<1>1. TypeOK /\ TypeOK' /\ IInv /\ [Next]_vars => IInv'
  <2> SUFFICES ASSUME TypeOK, TypeOK', IInv, [Next]_vars PROVE IInv'
    OBVIOUS
  <2>1. ASSUME NEW s \in Side, NEW n \in 0..(Ready(s) - i[s]), Call(s, n) PROVE IInv'
    BY <2>1, CallKeeps
  <2>2. ASSUME NEW s \in Side, FirstOfBlock(s) PROVE IInv'
    BY <2>2, FirstTook, TookKeeps
  <2>3. ASSUME NEW s \in Side, RestOfBlock(s) PROVE IInv'
    BY <2>3, RestTook, TookKeeps
  <2>4. ASSUME NEW s \in Side, Return(s) PROVE IInv'
    BY <2>4, ReturnKeeps
  <2>5. CASE UNCHANGED vars
    BY <2>5 DEF vars, IInv, Progress, Following, Combined, Input, Ready, Agreement, BothAt,
                SameCuts, AlignedPart, AlignedAgreement, Aligned
  <2> QED  BY <2>1, <2>2, <2>3, <2>4, <2>5 DEF Next
<1> QED  BY InitIInv, <1>1, TypeCorrect, PTL DEF Spec

-----------------------------------------------------------------------------
\* Where the two sides combined a byte with the same keystream, the other
\* side has the byte of the message.
LEMMA SameKeystreamRecovers ==
  ASSUME TypeOK, IInv, NEW j \in 0..i["decrypt"] - 1, used["encrypt"][j] = used["decrypt"][j]
  PROVE  buf["decrypt"][j] = plain[j]
<1>1. /\ Combined("encrypt") /\ Combined("decrypt") /\ sent <= i["encrypt"]
      /\ "encrypt" \in Side /\ "decrypt" \in Side
  BY DEF IInv, Side
<1>2. /\ i["encrypt"] \in 0..N /\ i["decrypt"] \in 0..N /\ sent \in 0..N
      /\ i["decrypt"] <= sent
  BY <1>1 DEF TypeOK, Combined, Ready
<1>3. j \in Index /\ j \in 0..i["encrypt"] - 1
  BY <1>1, <1>2, SizeAssumption DEF Index
<1> DEFINE b == Cipher(used["encrypt"][j].ctr)[used["encrypt"][j].pos]
<1>4. b \in Byte /\ plain[j] \in Byte
  <2>1. used["encrypt"][j] \in [ctr : Block, pos : Offset]
    BY <1>1, <1>3 DEF TypeOK
  <2> QED  BY <1>3, <2>1, CipherAssumption, SizeAssumption DEF TypeOK, Block
<1>5. buf["encrypt"][j] = XorByte(plain[j], b)
  BY <1>1, <1>3 DEF Combined, Input
<1>6. buf["decrypt"][j] = XorByte(buf["encrypt"][j], b)
  BY <1>1 DEF Combined, Input
<1> QED  BY <1>4, <1>5, <1>6, XorAssumption

\* A message is recovered as far as both sides cut it into the same calls of
\* AES_CTR_xcrypt_buffer (aes.c:538-569).
THEOREM SameCutsDecrypt == Spec => []SameCutsRecover
<1>1. TypeOK /\ IInv => SameCutsRecover
  <2> SUFFICES ASSUME TypeOK, IInv, NEW j \in 0..i["decrypt"] - 1, SameCuts(j)
               PROVE  buf["decrypt"][j] = plain[j]
    BY DEF SameCutsRecover
  <2>1. j \in Index /\ BothAt(j)
    <3>1. Combined("decrypt") /\ sent <= i["encrypt"]
      BY DEF IInv, Side
    <3> QED  BY <3>1, SizeAssumption DEF Combined, Ready, TypeOK, Index, BothAt, Side
  <2> QED  BY <2>1, SameKeystreamRecovers DEF IInv, Agreement
<1> QED  BY <1>1, Invariant, TypeCorrect, PTL

\* Cut at whole blocks only, calls need not be the same on both sides
\* (aes.c:544-565).
AlignedCutsRecover ==
  Aligned("encrypt") /\ Aligned("decrypt") =>
    \A j \in 0..i["decrypt"] - 1 : buf["decrypt"][j] = plain[j]

\* Cut at whole blocks on both sides, in whatever way, a message is recovered
\* (aes.c:544-565).
THEOREM AlignedCutsDecrypt == Spec => []AlignedCutsRecover
<1>1. TypeOK /\ IInv => AlignedCutsRecover
  <2> SUFFICES ASSUME TypeOK, IInv, Aligned("encrypt"), Aligned("decrypt"),
                      NEW j \in 0..i["decrypt"] - 1
               PROVE  buf["decrypt"][j] = plain[j]
    BY DEF AlignedCutsRecover
  <2>1. j \in Index /\ BothAt(j) /\ j \in 0..i["encrypt"] - 1
    <3>1. Combined("decrypt") /\ sent <= i["encrypt"]
      BY DEF IInv, Side
    <3> QED  BY <3>1, SizeAssumption DEF Combined, Ready, TypeOK, Index, BothAt, Side
  <2>2. used["encrypt"][j].ctr = used["decrypt"][j].ctr
    BY <2>1 DEF IInv, AlignedAgreement
  <2>3. used["encrypt"][j].pos = used["decrypt"][j].pos
    BY <2>1 DEF IInv, AlignedPart, Side
  <2>4. used["encrypt"][j] = used["decrypt"][j]
    BY <2>1, <2>2, <2>3 DEF TypeOK, Side
  <2> QED  BY <2>4, SameKeystreamRecovers
<1> QED  BY <1>1, Invariant, TypeCorrect, PTL

-----------------------------------------------------------------------------
(***************************************************************************)
(* Induction over the natural numbers, for a set: the library's theorem    *)
(* about well-founded relations, applied to <.                             *)
(***************************************************************************)
LEMMA InductionUpTo ==
  ASSUME NEW m \in Nat, NEW S, 0 \in S, \A n \in 0..m - 1 : n \in S => n + 1 \in S
  PROVE  \A n \in 0..m : n \in S
<1> DEFINE T == (0..m) \ S
           R == OpToRel(<, Nat)
<1> SUFFICES ASSUME T # {} PROVE FALSE
  OBVIOUS
<1>1. PICK x \in T : \A y \in T : ~ (<<y, x>> \in R)
  <2>1. IsWellFoundedOn(R, Nat)
    BY NatLessThanWellFounded DEF OpToRel
  <2>2. T \subseteq Nat
    OBVIOUS
  <2> HIDE DEF R, T
  <2> QED  BY <2>1, <2>2, WFMin
<1>2. x - 1 \in T /\ x - 1 \in Nat /\ x \in Nat
  OBVIOUS
<1>3. <<x - 1, x>> \in R
  BY <1>2 DEF OpToRel
<1> QED  BY <1>1, <1>2, <1>3

-----------------------------------------------------------------------------
(***************************************************************************)
(* The counter as a number.                                                *)
(***************************************************************************)
\* The value of the first k bytes of a counter block, for each k.
Value(iv) == CHOOSE v : v = [k \in Places |-> IF k = 0 THEN 0 ELSE v[k - 1] * Base + iv[k - 1]]

LEMMA ValueFromIs ==
  ASSUME NEW iv PROVE ValueFrom(iv) = Value(iv)[BLOCKLEN]
BY DEF ValueFrom, Value

\* There is such a function, and only one.
LEMMA ValueDef ==
  ASSUME NEW iv \in Block
  PROVE  /\ Value(iv) \in [Places -> Nat]
         /\ Value(iv)[0] = 0
         /\ \A k \in Offset : Value(iv)[k + 1] = Value(iv)[k] * Base + iv[k]
<1> USE SizeAssumption
<1>0. \A k \in Offset : iv[k] \in Nat
  BY DEF Block, Byte
<1> DEFINE Is(n, v) == v[0] = 0 /\ \A k \in 0..n - 1 : v[k + 1] = v[k] * Base + iv[k]
           S == {n \in Nat : \E v \in [0..n -> Nat] : Is(n, v)}
<1>1. 0 \in S
  <2>1. [k \in 0..0 |-> 0] \in [0..0 -> Nat] /\ Is(0, [k \in 0..0 |-> 0])
    OBVIOUS
  <2> QED  BY <2>1
<1>2. ASSUME NEW n \in 0..BLOCKLEN - 1, n \in S PROVE n + 1 \in S
  <2>1. PICK v \in [0..n -> Nat] : Is(n, v)
    BY <1>2
  <2> DEFINE w == [k \in 0..n + 1 |-> IF k = n + 1 THEN v[n] * Base + iv[n] ELSE v[k]]
  <2>2. n \in Nat /\ n \in Offset /\ v[n] \in Nat /\ v[n] * Base + iv[n] \in Nat
    <3>1. n \in Offset /\ v[n] \in Nat /\ iv[n] \in Nat
      BY <1>0 DEF Offset
    <3> QED  BY <3>1 DEF Offset
  <2>3. w \in [0..n + 1 -> Nat]
    BY <2>2
  <2>4. Is(n + 1, w)
    BY <2>1, <2>2
  <2>5. \E x \in [0..n + 1 -> Nat] : Is(n + 1, x)
    <3> HIDE DEF w, Is
    <3> QED  BY <2>3, <2>4
  <2>6. n + 1 \in Nat
    BY <2>2
  <2> HIDE DEF Is
  <2> QED  BY <2>5, <2>6
<1>3. BLOCKLEN \in S
  <2> HIDE DEF S
  <2>1. \A n \in 0..BLOCKLEN : n \in S
    BY <1>1, <1>2, InductionUpTo
  <2> QED  BY <2>1
<1>4. PICK v \in [Places -> Nat] : Is(BLOCKLEN, v)
  BY <1>3 DEF Places
<1>5. v = [k \in Places |-> IF k = 0 THEN 0 ELSE v[k - 1] * Base + iv[k - 1]]
  <2>1. ASSUME NEW k \in Places
        PROVE  v[k] = IF k = 0 THEN 0 ELSE v[k - 1] * Base + iv[k - 1]
    <3>1. k # 0 => k - 1 \in 0..BLOCKLEN - 1 /\ (k - 1) + 1 = k
      BY DEF Places
    <3> QED  BY <1>4, <3>1
  <2> QED  BY <2>1
<1>6. Value(iv) = [k \in Places |-> IF k = 0 THEN 0 ELSE Value(iv)[k - 1] * Base + iv[k - 1]]
  BY <1>5 DEF Value
<1> DEFINE val == Value(iv)
<1> HIDE DEF val
<1>7. val = [k \in Places |-> IF k = 0 THEN 0 ELSE val[k - 1] * Base + iv[k - 1]]
  BY <1>6 DEF val
<1>8. val[0] = 0 /\ \A k \in Offset : val[k + 1] = val[k] * Base + iv[k]
  BY <1>7 DEF Places, Offset
<1>9. \A k \in Places : val[k] \in Nat
  <2> DEFINE V == {k \in Nat : val[k] \in Nat}
  <2>1. 0 \in V
    BY <1>8
  <2>2. ASSUME NEW k \in 0..BLOCKLEN - 1, k \in V PROVE k + 1 \in V
    BY <2>2, <1>8, <1>0 DEF Offset
  <2> HIDE DEF V
  <2>3. \A k \in 0..BLOCKLEN : k \in V
    BY <2>1, <2>2, InductionUpTo
  <2> QED  BY <2>3 DEF V, Places
<1> QED  BY <1>7, <1>8, <1>9 DEF val

\* Products of natural numbers grow with their factors.
LEMMA LessTimes ==
  ASSUME NEW a \in Nat, NEW c \in Nat, a < c, NEW b \in Nat
  PROVE  a * b \in Nat /\ c * b \in Nat /\ a * b + b <= c * b
<1>1. (c - a - 1) \in Nat /\ c = a + 1 + (c - a - 1)
  OBVIOUS
<1>2. PICK d \in Nat : c = a + 1 + d
  BY <1>1
<1>3. c * b = a * b + b + d * b /\ d * b \in Nat /\ a * b \in Nat
  BY <1>2
<1> QED  BY <1>3

\* The largest counter block.
Last == [k \in Offset |-> Base - 1]

LEMMA LastType == Last \in Block
BY SizeAssumption DEF Last, Block, Byte

LEMMA CountersIs == Counters = Value(Last)[BLOCKLEN] + 1
BY ValueFromIs DEF Counters, Last

\* Counters are smaller than the number of them.
LEMMA ValueBound ==
  ASSUME NEW iv \in Block
  PROVE  \A k \in Places : Value(iv)[k] <= Value(Last)[k]
<1> USE SizeAssumption
<1> DEFINE v == Value(iv)
           w == Value(Last)
           S == {k \in Nat : v[k] <= w[k]}
<1>1. /\ v \in [Places -> Nat] /\ w \in [Places -> Nat] /\ v[0] = 0 /\ w[0] = 0
      /\ \A k \in Offset : v[k + 1] = v[k] * Base + iv[k] /\ w[k + 1] = w[k] * Base + (Base - 1)
  BY ValueDef, LastType DEF Last
<1> HIDE DEF v, w
<1>2. 0 \in S
  BY <1>1
<1>3. ASSUME NEW k \in 0..BLOCKLEN - 1, k \in S PROVE k + 1 \in S
  <2>1. k \in Offset /\ v[k] \in Nat /\ w[k] \in Nat /\ v[k] <= w[k]
    BY <1>1, <1>3 DEF Offset, Places
  <2>2. iv[k] \in Nat /\ iv[k] <= Base - 1
    BY <2>1 DEF Block, Byte
  <2>3. v[k] * Base \in Nat /\ w[k] * Base \in Nat /\ v[k] * Base <= w[k] * Base
    <3>1. CASE v[k] < w[k]
      BY <2>1, <3>1, LessTimes
    <3>2. CASE v[k] = w[k]
      BY <2>1, <3>2
    <3> QED  BY <2>1, <3>1, <3>2
  <2> QED  BY <1>1, <2>1, <2>2, <2>3
<1> HIDE DEF S
<1>4. \A k \in 0..BLOCKLEN : k \in S
  BY <1>2, <1>3, InductionUpTo
<1> QED  BY <1>4 DEF S, v, w, Places

\* The carry loop adds one to the number, and wraps at the last counter
\* (aes.c:552-563).
LEMMA IncrementAddsOne ==
  ASSUME NEW iv \in Block
  PROVE  ValueFrom(IncrementIv(iv)) =
           IF ValueFrom(iv) = Counters - 1 THEN 0 ELSE ValueFrom(iv) + 1
<1> USE SizeAssumption
<1> DEFINE v == Value(iv)
           w == Value(Last)
           jv == IncrementIv(iv)
           u == Value(jv)
           Carry(k) == \A l \in k .. BLOCKLEN - 1 : iv[l] = Base - 1
           S == {k \in Nat : u[k] = IF Carry(k) THEN IF v[k] = w[k] THEN 0 ELSE v[k] + 1 ELSE v[k]}
<1>1. /\ v \in [Places -> Nat] /\ w \in [Places -> Nat] /\ u \in [Places -> Nat]
      /\ v[0] = 0 /\ w[0] = 0 /\ u[0] = 0
      /\ \A k \in Offset : v[k + 1] = v[k] * Base + iv[k] /\ w[k + 1] = w[k] * Base + (Base - 1)
                             /\ u[k + 1] = u[k] * Base + jv[k]
  BY ValueDef, LastType, IncrementType DEF Last
<1>2. \A k \in Places : v[k] <= w[k]
  BY ValueBound
<1>3. \A k \in Offset : jv[k] = IF Carry(k + 1) THEN IF iv[k] = Base - 1 THEN 0 ELSE iv[k] + 1 ELSE iv[k]
  BY DEF IncrementIv
<1> HIDE DEF v, w, u, jv
<1>4. 0 \in S
  BY <1>1
<1>5. ASSUME NEW k \in 0..BLOCKLEN - 1, k \in S PROVE k + 1 \in S
  <2>1. /\ k \in Offset /\ k \in Places /\ k + 1 \in Places
        /\ v[k] \in Nat /\ w[k] \in Nat /\ u[k] \in Nat /\ v[k] <= w[k]
        /\ v[k + 1] \in Nat /\ w[k + 1] \in Nat
    <3>1. k \in Offset /\ k \in Places /\ k + 1 \in Places
      BY DEF Offset, Places
    <3> QED  BY <1>1, <1>2, <3>1
  <2>2. iv[k] \in Nat /\ iv[k] <= Base - 1
    BY <2>1 DEF Block, Byte
  <2>3. Carry(k) <=> Carry(k + 1) /\ iv[k] = Base - 1
    BY <2>1 DEF Offset
  <2>4. /\ v[k + 1] = v[k] * Base + iv[k] /\ w[k + 1] = w[k] * Base + (Base - 1)
        /\ u[k + 1] = u[k] * Base + jv[k]
    BY <1>1, <2>1
  <2>5. u[k] = IF Carry(k) THEN IF v[k] = w[k] THEN 0 ELSE v[k] + 1 ELSE v[k]
    BY <1>5
  <2>6. jv[k] = IF Carry(k + 1) THEN IF iv[k] = Base - 1 THEN 0 ELSE iv[k] + 1 ELSE iv[k]
    BY <1>3, <2>1
  <2>7. v[k] * Base \in Nat /\ w[k] * Base \in Nat /\ (v[k] + 1) * Base = v[k] * Base + Base
    BY <2>1
  <2>8. v[k] < w[k] => v[k] * Base + Base <= w[k] * Base
    BY <2>1, LessTimes
  <2> HIDE DEF Carry
  <2>9. u[k + 1] = IF Carry(k + 1) THEN IF v[k + 1] = w[k + 1] THEN 0 ELSE v[k + 1] + 1 ELSE v[k + 1]
    <3>1. CASE ~Carry(k + 1)
      BY <3>1, <2>3, <2>4, <2>5, <2>6
    <3>2. CASE Carry(k + 1) /\ iv[k] # Base - 1
      <4>1. u[k + 1] = v[k] * Base + (iv[k] + 1)
        BY <3>2, <2>3, <2>4, <2>5, <2>6
      <4>2. v[k + 1] # w[k + 1]
        <5>1. CASE v[k] < w[k]
          BY <5>1, <2>2, <2>4, <2>7, <2>8
        <5>2. CASE v[k] = w[k]
          BY <5>2, <3>2, <2>2, <2>4, <2>7
        <5> QED  BY <2>1, <5>1, <5>2
      <4> QED  BY <3>2, <4>1, <4>2, <2>2, <2>4, <2>7
    <3>3. CASE Carry(k + 1) /\ iv[k] = Base - 1 /\ v[k] = w[k]
      <4>1. u[k + 1] = 0 * Base + 0
        BY <3>3, <2>3, <2>4, <2>5, <2>6
      <4> QED  BY <3>3, <4>1, <2>4
    <3>4. CASE Carry(k + 1) /\ iv[k] = Base - 1 /\ v[k] # w[k]
      <4>1. u[k + 1] = (v[k] + 1) * Base
        BY <3>4, <2>3, <2>4, <2>5, <2>6, <2>7
      <4>2. v[k + 1] # w[k + 1]
        BY <3>4, <2>1, <2>2, <2>4, <2>7, <2>8
      <4> QED  BY <3>4, <4>1, <4>2, <2>4, <2>7
    <3> QED  BY <3>1, <3>2, <3>3, <3>4
  <2> QED  BY <2>9
<1> HIDE DEF S
<1>6. \A k \in 0..BLOCKLEN : k \in S
  BY <1>4, <1>5, InductionUpTo
<1>7. u[BLOCKLEN] = IF v[BLOCKLEN] = w[BLOCKLEN] THEN 0 ELSE v[BLOCKLEN] + 1
  BY <1>6 DEF S
<1>8. w[BLOCKLEN] \in Nat /\ Counters = w[BLOCKLEN] + 1
  BY <1>1, CountersIs DEF w, Places
<1> QED  BY <1>7, <1>8, ValueFromIs DEF u, v, jv

(***************************************************************************)
(* Counting the blocks.  How many of the first n bytes begin one:          *)
(***************************************************************************)
BlocksTo(s, n) == Cardinality({j \in 0..n - 1 : used[s][j].pos = 0})

LEMMA BlocksToStep ==
  ASSUME NEW s \in Side, NEW n \in Nat
  PROVE  /\ BlocksTo(s, 0) = 0
         /\ BlocksTo(s, n) \in Nat
         /\ BlocksTo(s, n + 1) = BlocksTo(s, n) + IF used[s][n].pos = 0 THEN 1 ELSE 0
<1> DEFINE F(m) == {j \in 0..m - 1 : used[s][j].pos = 0}
<1>1. F(0) = {} /\ F(n + 1) = IF used[s][n].pos = 0 THEN F(n) \cup {n} ELSE F(n)
  <2>1. 0..(n + 1) - 1 = (0..n - 1) \cup {n}
    OBVIOUS
  <2> QED  BY <2>1
<1>2. IsFiniteSet(F(n)) /\ n \notin F(n)
  <2>1. IsFiniteSet(0..n - 1) /\ F(n) \in SUBSET (0..n - 1)
    BY FS_Interval
  <2> HIDE DEF F
  <2>2. IsFiniteSet(F(n))
    BY <2>1, FS_Subset
  <2> QED  BY <2>1, <2>2
<1> HIDE DEF F
<1>3. Cardinality(F(0)) = 0 /\ Cardinality(F(n)) \in Nat
  BY <1>1, <1>2, FS_EmptySet, FS_CardinalityType
<1>4. Cardinality(F(n) \cup {n}) = Cardinality(F(n)) + 1
  BY <1>2, FS_AddElement
<1>5. \A m : BlocksTo(s, m) = Cardinality(F(m))
  BY DEF BlocksTo, F
<1> QED  BY <1>1, <1>3, <1>4, <1>5

\* The value of a counter is less than the number of counters.
LEMMA ValueType ==
  ASSUME NEW iv \in Block
  PROVE  Counters \in Nat \ {0} /\ ValueFrom(iv) \in 0..Counters - 1
<1>1. BLOCKLEN \in Places
  BY SizeAssumption DEF Places
<1>2. /\ Value(iv)[BLOCKLEN] \in Nat /\ Value(Last)[BLOCKLEN] \in Nat
      /\ Value(iv)[BLOCKLEN] <= Value(Last)[BLOCKLEN]
  BY <1>1, ValueDef, ValueBound, LastType
<1> QED  BY <1>2, ValueFromIs, CountersIs

\* The keystream bytes of a side, one after the other.
KeystreamOrder(s) ==
  /\ i[s] > 0 => used[s][0] = [ctr |-> iv0, pos |-> 0]
  /\ \A j \in 1..i[s] - 1 :
       LET u == used[s][j - 1] IN
         \/ used[s][j] = [ctr |-> IncrementIv(u.ctr), pos |-> 0]
         \/ used[s][j] = [ctr |-> u.ctr, pos |-> u.pos + 1]
  /\ Iv[s] = IF i[s] = 0 THEN iv0 ELSE IncrementIv(used[s][i[s] - 1].ctr)

LEMMA ProgressOrders ==
  ASSUME NEW s \in Side, Progress(s) PROVE KeystreamOrder(s)
BY DEF Progress, KeystreamOrder, Following

LEMMA UsedType ==
  ASSUME TypeOK, NEW s \in Side, NEW j \in 0..i[s] - 1
  PROVE  used[s][j].ctr \in Block /\ used[s][j].pos \in Nat
<1>1. j \in Index
  <2>1. i[s] \in 0..N /\ N \in Nat
    BY SizeAssumption DEF TypeOK
  <2> QED  BY <2>1 DEF Index
<1> QED  BY <1>1 DEF TypeOK, Offset

\* One more block, one more of the value.
LEMMA NextValue ==
  ASSUME NEW iv \in Block, NEW v \in Nat, ValueFrom(iv) = v % Counters
  PROVE  ValueFrom(IncrementIv(iv)) = (v + 1) % Counters
<1>1. Counters \in Nat \ {0} /\ ValueFrom(iv) \in Nat
  BY ValueType
<1> QED  BY <1>1, IncrementAddsOne, ModStep

\* The counter of the last of n bytes is the first one plus the blocks begun
\* before it.
LEMMA CounterOfByte ==
  ASSUME TypeOK, NEW s \in Side, KeystreamOrder(s)
  PROVE  \A n \in 1..i[s] :
           /\ BlocksTo(s, n) \in Nat \ {0}
           /\ ValueFrom(used[s][n - 1].ctr) = (ValueFrom(iv0) + (BlocksTo(s, n) - 1)) % Counters
<1> DEFINE V0 == ValueFrom(iv0)
           C(n) == /\ BlocksTo(s, n) \in Nat \ {0}
                   /\ ValueFrom(used[s][n - 1].ctr) = (V0 + (BlocksTo(s, n) - 1)) % Counters
           S == {n \in Nat : n > 0 => C(n)}
<1>1. i[s] \in Nat /\ V0 \in 0..Counters - 1 /\ Counters \in Nat \ {0}
  BY ValueType DEF TypeOK
<1>2. 0 \in S
  OBVIOUS
<1>3. ASSUME NEW n \in 0..i[s] - 1, n \in S PROVE n + 1 \in S
  <2>1. n \in Nat /\ n \in 0..i[s] - 1 /\ n + 1 \in Nat /\ (n + 1) - 1 = n
    BY <1>1
  <2>2. BlocksTo(s, n) \in Nat /\ BlocksTo(s, 0) = 0
        /\ BlocksTo(s, n + 1) = BlocksTo(s, n) + IF used[s][n].pos = 0 THEN 1 ELSE 0
    BY <2>1, BlocksToStep
  <2> HIDE DEF V0
  <2>3. CASE n = 0
    <3>1. used[s][n] = [ctr |-> iv0, pos |-> 0]
      BY <1>1, <2>1, <2>3 DEF KeystreamOrder
    <3>2. BlocksTo(s, n + 1) = 1
      BY <2>2, <2>3, <3>1
    <3>3. V0 = (V0 + (1 - 1)) % Counters
      BY <1>1
    <3>4. ValueFrom(used[s][n].ctr) = V0
      BY <3>1 DEF V0
    <3> QED  BY <2>1, <3>2, <3>3, <3>4
  <2>4. CASE n > 0
    <3> DEFINE u == used[s][n - 1]
               v == V0 + (BlocksTo(s, n) - 1)
    <3>1. u.ctr \in Block /\ u.pos \in Nat
      <4>1. n - 1 \in 0..i[s] - 1
        BY <1>1, <2>1, <2>4
      <4> QED  BY <4>1, UsedType
    <3>2. BlocksTo(s, n) \in Nat \ {0} /\ ValueFrom(u.ctr) = v % Counters
      BY <1>3, <2>4
    <3>3. v \in Nat /\ v + 1 = V0 + ((BlocksTo(s, n) + 1) - 1)
      BY <1>1, <3>2
    <3>4. \/ used[s][n] = [ctr |-> IncrementIv(u.ctr), pos |-> 0]
          \/ used[s][n] = [ctr |-> u.ctr, pos |-> u.pos + 1]
      BY <2>1, <2>4 DEF KeystreamOrder
    <3> HIDE DEF u
    <3>5. CASE used[s][n] = [ctr |-> IncrementIv(u.ctr), pos |-> 0]
      <4>1. ValueFrom(used[s][n].ctr) = (v + 1) % Counters
        <5> HIDE DEF v
        <5> QED  BY <3>1, <3>2, <3>3, <3>5, NextValue
      <4>2. BlocksTo(s, n + 1) = BlocksTo(s, n) + 1
        BY <2>2, <3>5
      <4> QED  BY <2>1, <3>2, <3>3, <4>1, <4>2
    <3>6. CASE used[s][n] = [ctr |-> u.ctr, pos |-> u.pos + 1]
      <4>1. BlocksTo(s, n + 1) = BlocksTo(s, n)
        BY <2>2, <3>1, <3>6
      <4> QED  BY <2>1, <3>2, <3>6, <4>1
    <3> QED  BY <3>4, <3>5, <3>6
  <2> QED  BY <2>1, <2>3, <2>4
<1> HIDE DEF S
<1>4. \A n \in 0..i[s] : n \in S
  BY <1>1, <1>2, <1>3, InductionUpTo
<1> QED  BY <1>4 DEF S

\* The number of blocks grows with the bytes, and within a block the offset.
LEMMA OffsetsGrow ==
  ASSUME TypeOK, NEW s \in Side, KeystreamOrder(s), NEW j \in 0..i[s] - 1
  PROVE  \A k \in j..i[s] - 1 :
           /\ BlocksTo(s, j + 1) <= BlocksTo(s, k + 1)
           /\ j < k /\ BlocksTo(s, j + 1) = BlocksTo(s, k + 1) => used[s][j].pos < used[s][k].pos
<1> DEFINE b(n) == BlocksTo(s, n)
           D(k) == /\ b(j + 1) <= b(k + 1)
                   /\ j < k /\ b(j + 1) = b(k + 1) => used[s][j].pos < used[s][k].pos
           S == {k \in Nat : j <= k => D(k)}
<1>1. i[s] \in Nat /\ j \in Nat /\ j <= i[s] - 1 /\ i[s] - 1 \in Nat
  BY DEF TypeOK
<1>2. b(j + 1) \in Nat
  BY <1>1, BlocksToStep
<1>3. D(j)
  BY <1>2
<1>4. 0 \in S
  BY <1>1, <1>3
<1>5. ASSUME NEW k \in 0..(i[s] - 1) - 1, k \in S PROVE k + 1 \in S
  <2> SUFFICES ASSUME j <= k + 1 PROVE D(k + 1)
    OBVIOUS
  <2>1. CASE j = k + 1
    BY <1>3, <2>1
  <2>2. CASE j <= k
    <3>1. D(k)
      BY <1>5, <2>2
    <3>2. k \in Nat /\ k + 1 \in Nat /\ k + 1 \in 1..i[s] - 1 /\ (k + 1) - 1 = k /\ k \in 0..i[s] - 1
      BY <1>1
    <3>3. b(k + 1) \in Nat /\ b((k + 1) + 1) = b(k + 1) + IF used[s][k + 1].pos = 0 THEN 1 ELSE 0
      BY <3>2, BlocksToStep
    <3>4. used[s][k].pos \in Nat /\ used[s][j].pos \in Nat
      BY <3>2, UsedType
    <3>5. \/ used[s][k + 1].pos = 0
          \/ used[s][k + 1].pos = used[s][k].pos + 1
      <4>1. LET u == used[s][(k + 1) - 1] IN
              \/ used[s][k + 1] = [ctr |-> IncrementIv(u.ctr), pos |-> 0]
              \/ used[s][k + 1] = [ctr |-> u.ctr, pos |-> u.pos + 1]
        BY <3>2 DEF KeystreamOrder
      <4> QED  BY <3>2, <4>1
    <3> HIDE DEF b
    <3> QED  BY <1>1, <1>2, <2>2, <3>1, <3>2, <3>3, <3>4, <3>5
  <2> QED  BY <1>1, <2>1, <2>2
<1> HIDE DEF S
<1>6. \A k \in 0..i[s] - 1 : k \in S
  BY <1>1, <1>4, <1>5, InductionUpTo
<1> QED  BY <1>1, <1>6 DEF S

\* Two remainders of numbers less than the divisor apart.
LEMMA SameRemainder ==
  ASSUME NEW m \in Nat \ {0}, NEW x \in Nat, NEW y \in Nat, x <= y, y - x < m, x % m = y % m
  PROVE  x = y
<1> DEFINE p == x \div m
           q == y \div m
<1>1. p \in Int /\ q \in Int /\ x = m * p + (x % m) /\ y = m * q + (y % m) /\ x % m \in Int
  BY Euclid
<1> HIDE DEF p, q
<1>2. PICK r \in Int : x = m * p + r /\ y = m * q + r
  BY <1>1
<1>3. m * p \in Int /\ m * q \in Int
  BY <1>1
<1>4. CASE q >= p + 1
  <2>1. m * q >= m * (p + 1) /\ m * (p + 1) = m * p + m
    BY <1>1, <1>4
  <2> QED  BY <1>2, <1>3, <2>1
<1>5. CASE p >= q + 1
  <2>1. m * p >= m * (q + 1) /\ m * (q + 1) = m * q + m
    BY <1>1, <1>5
  <2> QED  BY <1>2, <1>3, <2>1
<1>6. CASE p = q
  BY <1>2, <1>3, <1>6
<1> QED  BY <1>1, <1>4, <1>5, <1>6

\* The IV counts blocks as one big-endian number, for every block length,
\* through every carry and every wrap (aes.c:552-563).
THEOREM IvIsCounter == Spec => []IvCountsBlocks
<1>1. TypeOK /\ IInv => IvCountsBlocks
  <2> SUFFICES ASSUME TypeOK, IInv, NEW s \in Side
               PROVE  ValueFrom(Iv[s]) = (ValueFrom(iv0) + BlocksMade(s)) % Counters
    BY DEF IvCountsBlocks
  <2>1. KeystreamOrder(s)
    BY ProgressOrders DEF IInv
  <2>2. i[s] \in Nat /\ BlocksMade(s) = BlocksTo(s, i[s]) /\ iv0 \in Block
    BY DEF TypeOK, BlocksMade, BlocksTo
  <2>3. ValueFrom(iv0) \in 0..Counters - 1 /\ Counters \in Nat \ {0}
    BY <2>2, ValueType
  <2>4. CASE i[s] = 0
    <3>1. BlocksMade(s) = 0 /\ Iv[s] = iv0
      BY <2>1, <2>2, <2>4, BlocksToStep DEF KeystreamOrder
    <3> QED  BY <2>3, <3>1
  <2>5. CASE i[s] > 0
    <3> DEFINE u == used[s][i[s] - 1]
               v == ValueFrom(iv0) + (BlocksMade(s) - 1)
    <3>1. Iv[s] = IncrementIv(u.ctr) /\ u.ctr \in Block
      BY <2>1, <2>2, <2>5, UsedType DEF KeystreamOrder
    <3>2. BlocksMade(s) \in Nat \ {0} /\ ValueFrom(u.ctr) = v % Counters
      BY <2>1, <2>2, <2>5, CounterOfByte
    <3>3. v \in Nat /\ v + 1 = ValueFrom(iv0) + BlocksMade(s)
      BY <2>3, <3>2
    <3> HIDE DEF u, v
    <3>4. ValueFrom(Iv[s]) = (v + 1) % Counters
      BY <3>1, <3>2, <3>3, NextValue
    <3> QED  BY <3>3, <3>4
  <2> QED  BY <2>2, <2>4, <2>5
<1> QED  BY <1>1, TypeCorrect, Invariant, PTL

\* Where blocks begin at every multiple of their length, the blocks begun are
\* those before a byte and its own.
LEMMA AlignedBlocks ==
  ASSUME TypeOK, NEW s \in Side, \A j \in 0..i[s] - 1 : used[s][j].pos = j % BLOCKLEN
  PROVE  \A j \in 0..i[s] - 1 : j \div BLOCKLEN \in Int /\ BlocksTo(s, j + 1) = (j \div BLOCKLEN) + 1
<1> DEFINE S == {j \in Nat : j < i[s] => BlocksTo(s, j + 1) = (j \div BLOCKLEN) + 1}
<1>1. i[s] \in Nat /\ BLOCKLEN \in Nat \ {0}
  BY SizeAssumption DEF TypeOK
<1>2. 0 \in S
  <2>1. 0 \div BLOCKLEN = 0 /\ 0 % BLOCKLEN = 0
    BY <1>1
  <2>2. BlocksTo(s, 0) = 0 /\ BlocksTo(s, 0 + 1) = BlocksTo(s, 0) + IF used[s][0].pos = 0 THEN 1 ELSE 0
    BY BlocksToStep
  <2>3. 0 < i[s] => used[s][0].pos = 0
    BY <1>1, <2>1
  <2> QED  BY <2>1, <2>2, <2>3
<1>3. ASSUME NEW j \in 0..i[s] - 1, j \in S PROVE j + 1 \in S
  <2> SUFFICES ASSUME j + 1 < i[s]
               PROVE  BlocksTo(s, (j + 1) + 1) = ((j + 1) \div BLOCKLEN) + 1
    BY <1>1
  <2> DEFINE q == j \div BLOCKLEN
             p == (j + 1) \div BLOCKLEN
             t == (j + 1) % BLOCKLEN
  <2>1. j \in Nat /\ j + 1 \in Nat /\ j + 1 \in 0..i[s] - 1
    BY <1>1
  <2>2. BlocksTo(s, j + 1) = q + 1 /\ used[s][j + 1].pos = t
    <3>1. j < i[s]
      BY <1>1, <2>1
    <3> QED  BY <1>3, <2>1, <3>1
  <2>3. q \in Int /\ p = IF t = 0 THEN q + 1 ELSE q
    BY <1>1, <2>1, DivStep
  <2>4. BlocksTo(s, (j + 1) + 1) = BlocksTo(s, j + 1) + IF used[s][j + 1].pos = 0 THEN 1 ELSE 0
    BY <2>1, BlocksToStep
  <2> HIDE DEF q, p, t
  <2>5. BlocksTo(s, (j + 1) + 1) = p + 1
    BY <2>2, <2>3, <2>4
  <2> QED  BY <2>5 DEF p
<1> HIDE DEF S
<1>4. \A j \in 0..i[s] : j \in S
  BY <1>1, <1>2, <1>3, InductionUpTo
<1> QED
  <2> SUFFICES ASSUME NEW j \in 0..i[s] - 1
               PROVE  j \div BLOCKLEN \in Int /\ BlocksTo(s, j + 1) = (j \div BLOCKLEN) + 1
    OBVIOUS
  <2>1. j \in 0..i[s] /\ j < i[s] /\ j \in Nat
    BY <1>1
  <2> QED  BY <1>1, <1>4, <2>1, Euclid DEF S

\* Cut at whole blocks, every byte is combined as the standard's counter mode
\* says, through every carry and every wrap (aes.c:538-569).
THEOREM CounterModeIsStandard == Spec => []IsCounterMode
<1>1. TypeOK /\ IInv => IsCounterMode
  <2> SUFFICES ASSUME TypeOK, IInv, NEW s \in Side, Aligned(s), NEW j \in 0..i[s] - 1
               PROVE  \E ctr \in Block :
                        /\ ValueFrom(ctr) = (ValueFrom(iv0) + j \div BLOCKLEN) % Counters
                        /\ buf[s][j] = XorByte(Input(s)[j], Cipher(ctr)[j % BLOCKLEN])
    BY DEF IsCounterMode
  <2> DEFINE ctr == used[s][j].ctr
             q == j \div BLOCKLEN
             V0 == ValueFrom(iv0)
  <2>1. KeystreamOrder(s) /\ \A k \in 0..i[s] - 1 : used[s][k].pos = k % BLOCKLEN
    BY ProgressOrders DEF IInv, AlignedPart
  <2>2. i[s] \in Nat /\ j + 1 \in 1..i[s] /\ (j + 1) - 1 = j
    BY DEF TypeOK
  <2>3. ctr \in Block
    BY UsedType
  <2>4. q \in Int /\ BlocksTo(s, j + 1) = q + 1
    BY <2>1, AlignedBlocks
  <2>5. ValueFrom(ctr) = (V0 + (BlocksTo(s, j + 1) - 1)) % Counters
    BY <2>1, <2>2, CounterOfByte
  <2>6. buf[s][j] = XorByte(Input(s)[j], Cipher(ctr)[j % BLOCKLEN])
    BY <2>1 DEF IInv, Combined
  <2>7. ValueFrom(ctr) = (V0 + q) % Counters
    <3> HIDE DEF ctr, q, V0
    <3>1. BlocksTo(s, j + 1) - 1 = q
      BY <2>4
    <3> QED  BY <2>5, <3>1
  <2> HIDE DEF ctr
  <2> QED  BY <2>3, <2>6, <2>7
<1> QED  BY <1>1, TypeCorrect, Invariant, PTL

\* No byte of keystream is used twice, however the message is cut, until the
\* counters are used up (aes.c:538-569).
THEOREM NoKeystreamTwice == Spec => []KeystreamUsedOnce
<1>1. TypeOK /\ IInv => KeystreamUsedOnce
  <2> SUFFICES ASSUME TypeOK, IInv, NEW s \in Side, BlocksMade(s) <= Counters,
                      NEW j \in Index, NEW k \in Index, j < k, k < i[s],
                      used[s][j] = used[s][k]
               PROVE  FALSE
    BY DEF KeystreamUsedOnce
  <2> DEFINE x == BlocksTo(s, j + 1)
             y == BlocksTo(s, k + 1)
             V0 == ValueFrom(iv0)
  <2>1. KeystreamOrder(s)
    BY ProgressOrders DEF IInv
  <2>2. /\ i[s] \in Nat /\ j \in 0..i[s] - 1 /\ k \in 0..i[s] - 1 /\ k \in j..i[s] - 1
        /\ i[s] - 1 \in k..i[s] - 1 /\ j + 1 \in 1..i[s] /\ k + 1 \in 1..i[s]
        /\ (i[s] - 1) + 1 = i[s] /\ (j + 1) - 1 = j /\ (k + 1) - 1 = k
    BY DEF TypeOK, Index
  <2>3. V0 \in Nat /\ Counters \in Nat \ {0}
    BY ValueType DEF TypeOK
  <2>4. /\ x \in Nat \ {0} /\ ValueFrom(used[s][j].ctr) = (V0 + (x - 1)) % Counters
        /\ y \in Nat \ {0} /\ ValueFrom(used[s][k].ctr) = (V0 + (y - 1)) % Counters
    BY <2>1, <2>2, CounterOfByte
  <2>5. x <= y /\ (x = y => used[s][j].pos < used[s][k].pos)
    BY <2>1, <2>2, OffsetsGrow
  <2>6. y <= BlocksMade(s)
    <3>1. BlocksTo(s, k + 1) <= BlocksTo(s, (i[s] - 1) + 1)
      BY <2>1, <2>2, OffsetsGrow
    <3>2. BlocksMade(s) = BlocksTo(s, i[s])
      BY DEF BlocksMade, BlocksTo
    <3> QED  BY <2>2, <3>1, <3>2
  <2>7. BlocksMade(s) \in Nat
    BY <2>2, BlocksToStep DEF BlocksMade, BlocksTo
  <2> HIDE DEF x, y, V0
  <2>8. V0 + (x - 1) = V0 + (y - 1)
    <3>1. /\ V0 + (x - 1) \in Nat /\ V0 + (y - 1) \in Nat /\ V0 + (x - 1) <= V0 + (y - 1)
          /\ (V0 + (y - 1)) - (V0 + (x - 1)) < Counters
      BY <2>3, <2>4, <2>5, <2>6, <2>7
    <3>2. (V0 + (x - 1)) % Counters = (V0 + (y - 1)) % Counters
      BY <2>4
    <3> QED  BY <2>3, <3>1, <3>2, SameRemainder
  <2>9. used[s][j].pos < used[s][k].pos /\ used[s][k].pos \in Nat
    BY <2>2, <2>3, <2>4, <2>5, <2>8, UsedType
  <2> QED  BY <2>9
<1> QED  BY <1>1, TypeCorrect, Invariant, PTL
=============================================================================
