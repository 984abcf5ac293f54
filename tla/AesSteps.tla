------------------------------ MODULE AesSteps ------------------------------
(***************************************************************************)
(* The operations the cipher and the key schedule are made of (aes.c:      *)
(* 237-409).  A byte is the set of its bits that are 1, so that ^ is the   *)
(* symmetric difference, and a state_t is four columns of four bytes.      *)
(***************************************************************************)
EXTENDS Integers

Byte == SUBSET (0..7)
Four == 0..3
State == [Four -> [Four -> Byte]]

CONSTANTS sbox, rsbox

ASSUME SboxAssumption ==
  /\ sbox \in [Byte -> Byte] /\ rsbox \in [Byte -> Byte]
  /\ \A b \in Byte : rsbox[sbox[b]] = b

Xor(a, b) == (a \ b) \cup (b \ a)

\* Shifted left in eight bits; 0x1b if a bit was shifted out.
xtime(x) == Xor({b + 1 : b \in x \ {7}}, IF 7 \in x THEN {0, 1, 3, 4} ELSE {})

\* A round key is four words of RoundKey.
Nb == 4
Add(s, k) == [i \in Four |-> [j \in Four |-> Xor(s[i][j], k[i][j])]]

\* Mutant: column and row of the key are swapped.
AddRoundKeyTransposed(round, s, RoundKey) ==
  Add(s, [i \in Four |-> [j \in Four |-> RoundKey[round * Nb + j][i]]])
AddRoundKey(round, s, RoundKey) == Add(s, [i \in Four |-> RoundKey[round * Nb + i]])

SubBytes(s) == [i \in Four |-> [j \in Four |-> sbox[s[i][j]]]]
InvSubBytes(s) == [i \in Four |-> [j \in Four |-> rsbox[s[i][j]]]]

\* Mutant: to the left again.
InvShiftRowsLeft(s) == [i \in Four |-> [j \in Four |-> s[(i + j) % 4][j]]]

\* Row j moves j columns to the left, and back.
ShiftRows(s) == [i \in Four |-> [j \in Four |-> s[(i + j) % 4][j]]]
InvShiftRows(s) == [i \in Four |-> [j \in Four |-> s[(i + 4 - j) % 4][j]]]

MixColumn(c) ==
  LET Tmp == Xor(Xor(Xor(c[0], c[1]), c[2]), c[3]) IN
    [j \in Four |-> Xor(c[j], Xor(xtime(Xor(c[j], c[(j + 1) % 4])), Tmp))]
MixColumns(s) == [i \in Four |-> MixColumn(s[i])]

\* The product of x and y, the bits of y being taken up to the fifth.
Multiply(x, y) ==
  LET Times(n, p) == IF (y \div n) % 2 = 1 THEN p ELSE {}
      x2 == xtime(x)  x4 == xtime(x2)  x8 == xtime(x4) IN
    Xor(Xor(Xor(Xor(Times(1, x), Times(2, x2)), Times(4, x4)), Times(8, x8)), Times(16, xtime(x8)))
InvMixColumn(c) ==
  [j \in Four |-> Xor(Xor(Xor(Multiply(c[j], 14), Multiply(c[(j + 1) % 4], 11)),
                          Multiply(c[(j + 2) % 4], 13)), Multiply(c[(j + 3) % 4], 9))]
InvMixColumns(s) == [i \in Four |-> InvMixColumn(s[i])]
=============================================================================
