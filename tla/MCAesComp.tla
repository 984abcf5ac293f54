------------------------------ MODULE MCAesComp ------------------------------
(***************************************************************************)
(* A small library for AesComp: keys, contexts and bytes are small         *)
(* numbers, and encryption depends on the mode, on the whole context and   *)
(* on the position and value of every byte, so that a buffer assembled in  *)
(* the wrong order, a stale context or another mode gives another result.  *)
(***************************************************************************)
EXTENDS AesComp

MCKeyExpansion(k) == k + 1
ModeNumber(m) ==
  CASE m = "ECB_ENCRYPT" -> 0 [] m = "ECB_DECRYPT" -> 1 [] m = "CBC_ENCRYPT" -> 2
    [] m = "CBC_DECRYPT" -> 3 [] OTHER -> 4
MCCryptBuf(m, c, d) ==
  [i \in 1..Len(d) |-> (d[i] + i + ModeNumber(m) + c.RoundKey + 2 * c.Iv) % 5]
MCCryptIv(m, c, d) == IF m \in EcbMode THEN c.Iv ELSE (c.Iv + Len(d)) % 2

MCIv == 0..1
MCOneIv == {0}
MCNoIv(m, c, d) == 0
MCByte == 0..4
ShortPayload == {<<>>, <<1>>, <<1, 2>>}
LongPayload == {<<1, 2, 3>>}

\* With WriteMax = 3 and IntMax = 4: one write() sends the first, an int holds
\* the second as well, and the third is a negative count.
HugePayload == {<<1, 2, 3>>, <<1, 2, 3, 4>>, <<1, 2, 3, 4, 0>>}
=============================================================================
