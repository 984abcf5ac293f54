--------------------------- MODULE MCAesBenchmark ---------------------------
(***************************************************************************)
(* A small library for the benchmark.  An element of a buffer is a block:  *)
(* one for ECB, two for the modes that chain.  A key has one schedule, and *)
(* memory that was never written may hold another.                         *)
(***************************************************************************)
EXTENDS AesBenchmark

Shift(mode, c) ==
  CASE mode = "ECB_ENCRYPT" -> c.RoundKey
    [] mode = "ECB_DECRYPT" -> 5 - c.RoundKey
    [] mode = "CBC_ENCRYPT" -> c.RoundKey + c.Iv
    [] mode = "CBC_DECRYPT" -> 10 - c.RoundKey - c.Iv
    [] OTHER                -> 3 * c.RoundKey + c.Iv
MCCryptBuf(mode, c, d) == [j \in 1..Len(d) |-> (d[j] + Shift(mode, c)) % 5]
MCCryptIv(mode, c, d) == IF mode \in EcbMode THEN c.Iv ELSE 1 - c.Iv
MCKeyExpansion(k) == k

MCIv == 0..1
MCByte == 0..4
Encrypted(mode, iv, d) == MCCryptBuf(mode, [RoundKey |-> 1, Iv |-> iv], d)
Text == <<3>>
LongText == <<3, 0>>
EcbText == Encrypted("ECB_ENCRYPT", 0, Text)
CbcText == Encrypted("CBC_ENCRYPT", 0, LongText)
CtrText == Encrypted("CTR_XCRYPT", 1, LongText)
MCPayload == {Text, EcbText, LongText, CbcText, CtrText}
=============================================================================
