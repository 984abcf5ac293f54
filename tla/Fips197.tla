------------------------------- MODULE Fips197 -------------------------------
(***************************************************************************)
(* What FIPS-197 says AES is, apart from the key schedule: the S-box from  *)
(* inverses in GF(2^8), the columns as products of polynomials, and the    *)
(* rounds of Cipher and InvCipher.  It shares with the code's functions    *)
(* only xtime and the use of the tables.                                   *)
(***************************************************************************)
EXTENDS AesContext, FiniteSets

\* Section 4.2: the product of a and b modulo x^8 + x^4 + x^3 + x + 1, the
\* sum of a's products with the powers of x that b has.
Degree == 0..7
Powers(a) == LET p[n \in Degree] == IF n = 0 THEN a ELSE xtime(p[n - 1]) IN p
Parity(S) == Cardinality(S) % 2 = 1
Product(a, b) == {k \in Degree : Parity({n \in b : k \in Powers(a)[n]})}

\* Section 5.1.1: the inverse (of 0, 0), then an affine transformation.
InverseByte(a) == IF a = {} THEN {} ELSE CHOOSE b \in Byte : Product(a, b) = {0}
Affine(a) ==
  {k \in Degree : Parity({n \in {0, 4, 5, 6, 7} : (k + n) % 8 \in a}) # (k \in {0, 1, 5, 6})}
StandardSbox(a) == Affine(InverseByte(a))

\* Section 5.1.2 and 5.3.1: row j is shifted by j columns.
StandardShiftRows(s) == [c \in Four |-> [j \in Four |-> s[(c + j) % 4][j]]]
StandardInvShiftRows(s) == [c \in Four |-> [j \in Four |-> s[(c - j) % 4][j]]]

\* Section 5.1.3 and 5.3.3: each column times a fixed polynomial.
TimesPolynomial(c, a0, a1, a2, a3) ==
  [j \in Four |-> Xor(Xor(Xor(Product(c[j], a0), Product(c[(j + 1) % 4], a3)),
                          Product(c[(j + 2) % 4], a2)), Product(c[(j + 3) % 4], a1))]
StandardMixColumns(s) ==           \* {03}x^3 + {01}x^2 + {01}x + {02}
  [c \in Four |-> TimesPolynomial(s[c], {1}, {0}, {0}, {0, 1})]
StandardInvMixColumns(s) ==        \* {0b}x^3 + {0d}x^2 + {09}x + {0e}
  [c \in Four |-> TimesPolynomial(s[c], {1, 2, 3}, {0, 3}, {0, 2, 3}, {0, 1, 3})]

\* Section 5.1.4: column c plus word 4 * round + c of the schedule.
StandardAddRoundKey(round, s, w) ==
  [c \in Four |-> [j \in Four |-> Xor(s[c][j], w[4 * round + c][j])]]

\* Section 5.1, Figure 5: w encrypts m to c, after[r] being the state after
\* round r of those before the last.
IsCipher(m, w, c, after) ==
  /\ after[0] = StandardAddRoundKey(0, m, w)
  /\ \A r \in 1..Nr - 1 :
       after[r] = StandardAddRoundKey(
                    r, StandardMixColumns(StandardShiftRows(SubBytes(after[r - 1]))), w)
  /\ c = StandardAddRoundKey(Nr, StandardShiftRows(SubBytes(after[Nr - 1])), w)

\* Section 5.3, Figure 12: w decrypts c to m, before[r] being the state before
\* the inverse of round r.
IsInvCipher(c, w, m, before) ==
  /\ before[Nr] = StandardAddRoundKey(Nr, c, w)
  /\ \A r \in 1..Nr - 1 :
       before[r] = StandardInvMixColumns(StandardAddRoundKey(
                     r, InvSubBytes(StandardInvShiftRows(before[r + 1])), w))
  /\ m = StandardAddRoundKey(0, InvSubBytes(StandardInvShiftRows(before[1])), w)
=============================================================================
