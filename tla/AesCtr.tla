------------------------------- MODULE AesCtr -------------------------------
(***************************************************************************)
(* CTR mode (aes.c:538-569): AES_CTR_xcrypt_buffer encrypts a message with *)
(* one context and decrypts it with another, each side in calls of any     *)
(* number of bytes.  One action is one iteration of the byte loop.         *)
(*                                                                         *)
(* The keystream block is a local of the function: what a call leaves of   *)
(* it is lost, so where the calls begin decides which keystream a byte is  *)
(* combined with.                                                          *)
(***************************************************************************)
EXTENDS Integers, FiniteSets

CONSTANTS
  BLOCKLEN,         \* AES_BLOCKLEN
  Base,             \* values of a byte: 256
  XorByte(_, _),
  Cipher(_),        \* Cipher of a block, with the RoundKey of both contexts
  N, Message        \* bytes of a message, and the messages the program sends

Offset == 0..BLOCKLEN - 1
Byte == 0..Base - 1
Block == [Offset -> Byte]
Index == 0..N - 1

ASSUME SizeAssumption ==
  /\ BLOCKLEN \in Nat \ {0} /\ Base \in Nat \ {0} /\ N \in Nat \ {0}
  /\ Message \subseteq [Index -> Byte]
ASSUME XorAssumption ==
  \A a, b \in Byte : XorByte(a, b) \in Byte /\ XorByte(XorByte(a, b), b) = a
ASSUME CipherAssumption == \A b \in Block : Cipher(b) \in Block

Side == {"encrypt", "decrypt"}

VARIABLES
  plain, iv0,     \* history: the message, and the IV of both contexts
  \* of each side
  buf,            \* the message as far as the side has it, changed in place
  Iv,             \* ctx->Iv
  buffer,         \* the keystream block
  bi,             \* the next byte of it
  i, end,         \* bytes done, and where the call in progress ends
  busy,
  sent,           \* bytes encrypted by calls that have returned
  \* history
  cuts,           \* where the calls of each side began
  used            \* the counter block and the offset each byte was combined with

vars == <<plain, iv0, buf, Iv, buffer, bi, i, end, busy, sent, cuts, used>>

\* Mutant: a byte that overflows does not carry.
IncrementIvNoCarry(iv) ==
  [iv EXCEPT ![BLOCKLEN - 1] = (@ + 1) % Base]

\* Increment Iv and handle overflow: the carry reaches a byte if all bytes
\* after it overflow, and is lost beyond the first.
IncrementIv(iv) ==
  [k \in Offset |-> IF \A l \in k + 1 .. BLOCKLEN - 1 : iv[l] = Base - 1
                    THEN IF iv[k] = Base - 1 THEN 0 ELSE iv[k] + 1
                    ELSE iv[k]]

\* What a side works on: the message, or the bytes it has received.
Input(s) == IF s = "encrypt" THEN plain ELSE buf["encrypt"]
Ready(s) == IF s = "encrypt" THEN N ELSE sent

\* A call on the next n bytes.
Call(s, n) ==
  /\ ~busy[s] /\ busy' = [busy EXCEPT ![s] = TRUE]
  /\ end' = [end EXCEPT ![s] = i[s] + n]
  /\ bi' = [bi EXCEPT ![s] = BLOCKLEN]
  /\ buf' = [buf EXCEPT ![s] =
       [j \in Index |-> IF j \in i[s] .. i[s] + n - 1 THEN Input(s)[j] ELSE @[j]]]
  /\ cuts' = [cuts EXCEPT ![s] = @ \cup {i[s]}]
  /\ UNCHANGED <<plain, iv0, Iv, buffer, i, sent, used>>

\* Mutants: a byte is added, not xored; one iteration too many.
CombineByteAdds(s, keystream, k, c) ==
  /\ busy[s] /\ i[s] < end[s]
  /\ buf' = [buf EXCEPT ![s][i[s]] = (@ + keystream[k]) % Base]
  /\ buffer' = [buffer EXCEPT ![s] = keystream]
  /\ bi' = [bi EXCEPT ![s] = k + 1]
  /\ i' = [i EXCEPT ![s] = @ + 1]
  /\ used' = [used EXCEPT ![s][i[s]] = [ctr |-> c, pos |-> k]]
  /\ UNCHANGED <<plain, iv0, end, busy, sent, cuts>>
CombineByteTooFar(s, keystream, k, c) ==
  /\ busy[s] /\ i[s] <= end[s]
  /\ buf' = [buf EXCEPT ![s] = [j \in Index |-> IF j = i[s] THEN XorByte(@[j], keystream[k]) ELSE @[j]]]
  /\ buffer' = [buffer EXCEPT ![s] = keystream]
  /\ bi' = [bi EXCEPT ![s] = k + 1]
  /\ i' = [i EXCEPT ![s] = @ + 1]
  /\ UNCHANGED <<plain, iv0, end, busy, sent, cuts, used>>

\* buf[i] ^= keystream[k], where the keystream block came from counter c.
CombineByte(s, keystream, k, c) ==
  /\ busy[s] /\ i[s] < end[s]
  /\ buf' = [buf EXCEPT ![s][i[s]] = XorByte(@, keystream[k])]
  /\ buffer' = [buffer EXCEPT ![s] = keystream]
  /\ bi' = [bi EXCEPT ![s] = k + 1]
  /\ i' = [i EXCEPT ![s] = @ + 1]
  /\ used' = [used EXCEPT ![s][i[s]] = [ctr |-> c, pos |-> k]]
  /\ UNCHANGED <<plain, iv0, end, busy, sent, cuts>>

\* Mutant: the counter is incremented at the first block only.
FirstOfBlockSameIv(s) ==
  /\ bi[s] = BLOCKLEN
  /\ CombineByte(s, Cipher(Iv[s]), 0, Iv[s])
  /\ Iv' = IF i[s] = 0 THEN [Iv EXCEPT ![s] = IncrementIv(@)] ELSE Iv

\* bi == AES_BLOCKLEN: another keystream block is made.
FirstOfBlock(s) ==
  /\ bi[s] = BLOCKLEN
  /\ CombineByte(s, Cipher(Iv[s]), 0, Iv[s])
  /\ Iv' = [Iv EXCEPT ![s] = IncrementIv(@)]

RestOfBlock(s) ==
  /\ bi[s] # BLOCKLEN
  /\ CombineByte(s, buffer[s], bi[s], used[s][i[s] - 1].ctr)
  /\ UNCHANGED Iv

\* Mutant: the counter moves on when a call ends.
ReturnSkipsCounter(s) ==
  /\ busy[s] /\ i[s] = end[s] /\ busy' = [busy EXCEPT ![s] = FALSE]
  /\ sent' = IF s = "encrypt" THEN i[s] ELSE sent
  /\ Iv' = [Iv EXCEPT ![s] = IncrementIv(@)]
  /\ UNCHANGED <<plain, iv0, buf, buffer, bi, i, end, cuts, used>>

Return(s) ==
  /\ busy[s] /\ i[s] = end[s] /\ busy' = [busy EXCEPT ![s] = FALSE]
  /\ sent' = IF s = "encrypt" THEN i[s] ELSE sent
  /\ UNCHANGED <<plain, iv0, buf, Iv, buffer, bi, i, end, cuts, used>>

Init ==
  /\ plain \in Message /\ iv0 \in Block
  /\ buf = [s \in Side |-> plain]
  /\ Iv = [s \in Side |-> iv0]
  /\ buffer = [s \in Side |-> iv0] /\ bi = [s \in Side |-> BLOCKLEN]
  /\ i = [s \in Side |-> 0] /\ end = [s \in Side |-> 0]
  /\ busy = [s \in Side |-> FALSE]
  /\ sent = 0
  /\ cuts = [s \in Side |-> {}]
  /\ used = [s \in Side |-> [j \in Index |-> [ctr |-> iv0, pos |-> 0]]]

Next ==
  \E s \in Side :
    \/ \E n \in 0..(Ready(s) - i[s]) : Call(s, n)
    \/ FirstOfBlock(s) \/ RestOfBlock(s) \/ Return(s)

Spec == Init /\ [][Next]_vars
-----------------------------------------------------------------------------
(***************************************************************************)
(* Properties.                                                             *)
(***************************************************************************)
\* Every index stays inside its array.
TypeOK ==
  /\ plain \in Message /\ iv0 \in Block
  /\ buf \in [Side -> [Index -> Byte]]
  /\ Iv \in [Side -> Block]
  /\ buffer \in [Side -> Block] /\ bi \in [Side -> 1..BLOCKLEN]
  /\ \A s \in Side : bi[s] # BLOCKLEN => i[s] > 0
  /\ i \in [Side -> 0..N] /\ end \in [Side -> 0..N]
  /\ busy \in [Side -> BOOLEAN]
  /\ sent \in 0..N
  /\ cuts \in [Side -> SUBSET (0..N)]
  /\ used \in [Side -> [Index -> [ctr : Block, pos : Offset]]]

\* As far as both sides have cut the message into the same calls, the other
\* side recovers it (aes.c:537-569).
SameCuts(k) == \A l \in 0..k : l \in cuts["encrypt"] <=> l \in cuts["decrypt"]
SameCutsRecover ==
  \A j \in 0..i["decrypt"] - 1 : SameCuts(j) => buf["decrypt"][j] = plain[j]

\* A counter block as one big-endian number, and how many of them there are.
Places == 0..BLOCKLEN
ValueFrom(iv) == LET v[k \in Places] == IF k = 0 THEN 0 ELSE v[k - 1] * Base + iv[k - 1] IN v[BLOCKLEN]
Counters == ValueFrom([k \in Offset |-> Base - 1]) + 1
BlocksMade(s) == Cardinality({j \in 0..i[s] - 1 : used[s][j].pos = 0})

\* Cut at whole blocks only, in whatever calls, a message is encrypted and
\* decrypted as the standard says: byte j by the cipher of the first IV plus
\* the number of blocks before it, as one big-endian number (aes.c:538-569).
Aligned(s) == \A c \in cuts[s] : c % BLOCKLEN = 0
IsCounterMode ==
  \A s \in Side : Aligned(s) =>
    \A j \in 0..i[s] - 1 : \E ctr \in Block :
      /\ ValueFrom(ctr) = (ValueFrom(iv0) + j \div BLOCKLEN) % Counters
      /\ buf[s][j] = XorByte(Input(s)[j], Cipher(ctr)[j % BLOCKLEN])

\* No byte of keystream is used twice in a message, however it is cut, as
\* long as it takes no more blocks than there are counters (aes.c:538-569).
KeystreamUsedOnce ==
  \A s \in Side : BlocksMade(s) <= Counters =>
    \A j, k \in Index : j < k /\ k < i[s] => used[s][j] # used[s][k]

\* The IV is the first one plus the number of blocks made, as one big-endian
\* number (aes.c:552-563); what a call leaves of a block counts as used.
IvCountsBlocks ==
  \A s \in Side : ValueFrom(Iv[s]) = (ValueFrom(iv0) + BlocksMade(s)) % Counters
=============================================================================
