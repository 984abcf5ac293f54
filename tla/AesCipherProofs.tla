-------------------------- MODULE AesCipherProofs --------------------------
(***************************************************************************)
(* Decryption undoes encryption, for every key schedule, number of rounds  *)
(* and S-box that has its inverse beside it: InvCipher meets the blocks    *)
(* that Cipher went through, in the reverse order.                         *)
(***************************************************************************)
EXTENDS AesCipher, Fips197, FiniteSetTheorems, WellFoundedInduction, TLAPS

(***************************************************************************)
(* Each step of Cipher is undone by the step of that name in InvCipher.    *)
(***************************************************************************)
LEMMA XorType == \A a, b \in Byte : Xor(a, b) \in Byte
BY DEF Xor, Byte

\* The same byte added twice is gone.
LEMMA XorTwice == \A a, b \in Byte : Xor(Xor(a, b), b) = a
BY DEF Xor, Byte

LEMMA XtimeType == \A a \in Byte : xtime(a) \in Byte
<1>1. SUFFICES ASSUME NEW a \in Byte PROVE xtime(a) \in Byte
  OBVIOUS
<1>2. {b + 1 : b \in a \ {7}} \in Byte
  BY DEF Byte
<1>3. (IF 7 \in a THEN {0, 1, 3, 4} ELSE {}) \in Byte
  BY DEF Byte
<1> QED BY <1>2, <1>3, XorType DEF xtime

\* Bit by bit: each bit of the result is the sum of at most two.
LEMMA XtimeBits ==
  \A a \in Byte, b \in 0..7 :
    b \in xtime(a) <=> ~((b > 0 /\ b - 1 \in a) <=> (b \in {0, 1, 3, 4} /\ 7 \in a))
<1>1. SUFFICES ASSUME NEW a \in Byte, NEW b \in 0..7
               PROVE b \in xtime(a) <=> ~((b > 0 /\ b - 1 \in a) <=> (b \in {0, 1, 3, 4} /\ 7 \in a))
  OBVIOUS
<1>2. b \in {c + 1 : c \in a \ {7}} <=> b > 0 /\ b - 1 \in a
  <2>1. ASSUME b > 0, b - 1 \in a PROVE b \in {c + 1 : c \in a \ {7}}
    <3>1. b - 1 \in a \ {7} /\ b = (b - 1) + 1
      BY <2>1
    <3> QED BY <3>1
  <2> QED BY <2>1 DEF Byte
<1>3. b \in (IF 7 \in a THEN {0, 1, 3, 4} ELSE {}) <=> b \in {0, 1, 3, 4} /\ 7 \in a
  OBVIOUS
<1> QED BY <1>2, <1>3 DEF xtime, Xor

LEMMA XtimeLinear == \A a, b \in Byte : xtime(Xor(a, b)) = Xor(xtime(a), xtime(b))
<1>1. SUFFICES ASSUME NEW a \in Byte, NEW b \in Byte
               PROVE xtime(Xor(a, b)) = Xor(xtime(a), xtime(b))
  OBVIOUS
<1>2. Xor(a, b) \in Byte /\ xtime(Xor(a, b)) \in Byte /\ Xor(xtime(a), xtime(b)) \in Byte
  BY XorType, XtimeType
<1>3. ASSUME NEW n \in 0..7 PROVE n \in xtime(Xor(a, b)) <=> n \in Xor(xtime(a), xtime(b))
  <2>1. \A c \in Byte : n \in xtime(c) <=> ~((n > 0 /\ n - 1 \in c) <=> (n \in {0, 1, 3, 4} /\ 7 \in c))
    BY XtimeBits
  <2>2. \A m : m \in Xor(a, b) <=> ~(m \in a <=> m \in b)
    BY DEF Xor
  <2>3. n \in Xor(xtime(a), xtime(b)) <=> ~(n \in xtime(a) <=> n \in xtime(b))
    BY DEF Xor
  <2> QED BY <1>2, <2>1, <2>2, <2>3
<1> QED BY <1>2, <1>3 DEF Byte
-----------------------------------------------------------------------------
(***************************************************************************)
(* MixColumns, byte by byte.  Xor is linear and so is xtime: what a power  *)
(* of xtime does to a mixed byte is to mix the powers.                     *)
(***************************************************************************)
Sum(a, b, c, d) == Xor(Xor(Xor(a, b), c), d)
Mix(a, b, t) == Xor(a, Xor(xtime(Xor(a, b)), t))
Odd(p, q) == ~(p <=> q)

LEMMA XorBits == \A a, b, n : n \in Xor(a, b) <=> Odd(n \in a, n \in b)
BY DEF Xor, Odd

LEMMA XorByBits ==
  ASSUME NEW a \in Byte, NEW b \in Byte, \A n \in 0..7 : n \in a <=> n \in b
  PROVE  a = b
BY DEF Byte

LEMMA SumType == \A a, b, c, d \in Byte : Sum(a, b, c, d) \in Byte
BY XorType DEF Sum

LEMMA SumLinear ==
  \A a, b, c, d \in Byte :
    xtime(Sum(a, b, c, d)) = Sum(xtime(a), xtime(b), xtime(c), xtime(d))
BY XorType, XtimeLinear DEF Sum

LEMMA SumBits ==
  \A a, b, c, d, n :
    n \in Sum(a, b, c, d) <=> Odd(Odd(Odd(n \in a, n \in b), n \in c), n \in d)
BY XorBits DEF Sum, Odd

LEMMA MixType == \A a, b, t \in Byte : Mix(a, b, t) \in Byte
BY XorType, XtimeType DEF Mix

LEMMA MixLinear ==
  \A a, b, t \in Byte : xtime(Mix(a, b, t)) = Mix(xtime(a), xtime(b), xtime(t))
BY XorType, XtimeType, XtimeLinear DEF Mix

LEMMA MixBits ==
  \A a, b \in Byte : \A t, n :
    n \in Mix(a, b, t) <=> Odd(n \in a, Odd(Odd(n \in xtime(a), n \in xtime(b)), n \in t))
BY XorBits, XtimeLinear DEF Mix, Odd

\* The four constants, as sums of powers of xtime.
LEMMA MultiplyBits ==
  \A x, n :
    /\ n \in Multiply(x, 9) <=> Odd(n \in x, n \in xtime(xtime(xtime(x))))
    /\ n \in Multiply(x, 11) <=>
         Odd(Odd(n \in x, n \in xtime(x)), n \in xtime(xtime(xtime(x))))
    /\ n \in Multiply(x, 13) <=>
         Odd(Odd(n \in x, n \in xtime(xtime(x))), n \in xtime(xtime(xtime(x))))
    /\ n \in Multiply(x, 14) <=>
         Odd(Odd(n \in xtime(x), n \in xtime(xtime(x))), n \in xtime(xtime(xtime(x))))
<1>1. /\ (9 \div 1) % 2 = 1 /\ (9 \div 2) % 2 # 1 /\ (9 \div 4) % 2 # 1 /\ (9 \div 8) % 2 = 1
      /\ (9 \div 16) % 2 # 1
      /\ (11 \div 1) % 2 = 1 /\ (11 \div 2) % 2 = 1 /\ (11 \div 4) % 2 # 1 /\ (11 \div 8) % 2 = 1
      /\ (11 \div 16) % 2 # 1
      /\ (13 \div 1) % 2 = 1 /\ (13 \div 2) % 2 # 1 /\ (13 \div 4) % 2 = 1 /\ (13 \div 8) % 2 = 1
      /\ (13 \div 16) % 2 # 1
      /\ (14 \div 1) % 2 # 1 /\ (14 \div 2) % 2 = 1 /\ (14 \div 4) % 2 = 1 /\ (14 \div 8) % 2 = 1
      /\ (14 \div 16) % 2 # 1
  OBVIOUS
<1>2. TAKE x, n
<1>3. Multiply(x, 9) = Xor(Xor(Xor(Xor(x, {}), {}), xtime(xtime(xtime(x)))), {})
  BY <1>1 DEF Multiply
<1>4. Multiply(x, 11) = Xor(Xor(Xor(Xor(x, xtime(x)), {}), xtime(xtime(xtime(x)))), {})
  BY <1>1 DEF Multiply
<1>5. Multiply(x, 13) = Xor(Xor(Xor(Xor(x, {}), xtime(xtime(x))), xtime(xtime(xtime(x)))), {})
  BY <1>1 DEF Multiply
<1>6. Multiply(x, 14) = Xor(Xor(Xor(Xor({}, xtime(x)), xtime(xtime(x))), xtime(xtime(xtime(x)))), {})
  BY <1>1 DEF Multiply
<1> QED BY <1>3, <1>4, <1>5, <1>6, XorBits DEF Odd

\* The bits of the powers of a mixed byte, and of the sum of a column.
LEMMA MixPowers ==
  ASSUME NEW a \in Byte, NEW b \in Byte, NEW t \in Byte, NEW n
  PROVE  /\ n \in Mix(a, b, t) <=>
              Odd(n \in a, Odd(Odd(n \in xtime(a), n \in xtime(b)), n \in t))
         /\ n \in xtime(Mix(a, b, t)) <=>
              Odd(n \in xtime(a), Odd(Odd(n \in xtime(xtime(a)), n \in xtime(xtime(b))), n \in xtime(t)))
         /\ n \in xtime(xtime(Mix(a, b, t))) <=>
              Odd(n \in xtime(xtime(a)),
                  Odd(Odd(n \in xtime(xtime(xtime(a))), n \in xtime(xtime(xtime(b)))),
                      n \in xtime(xtime(t))))
         /\ n \in xtime(xtime(xtime(Mix(a, b, t)))) <=>
              Odd(n \in xtime(xtime(xtime(a))),
                  Odd(Odd(n \in xtime(xtime(xtime(xtime(a)))), n \in xtime(xtime(xtime(xtime(b))))),
                      n \in xtime(xtime(xtime(t)))))
<1>1. xtime(Mix(a, b, t)) = Mix(xtime(a), xtime(b), xtime(t))
  BY MixLinear
<1>2. xtime(a) \in Byte /\ xtime(b) \in Byte /\ xtime(t) \in Byte
  BY XtimeType
<1>3. xtime(xtime(Mix(a, b, t))) = Mix(xtime(xtime(a)), xtime(xtime(b)), xtime(xtime(t)))
  BY <1>1, <1>2, MixLinear
<1>4. xtime(xtime(a)) \in Byte /\ xtime(xtime(b)) \in Byte /\ xtime(xtime(t)) \in Byte
  BY <1>2, XtimeType
<1>5. xtime(xtime(xtime(Mix(a, b, t))))
        = Mix(xtime(xtime(xtime(a))), xtime(xtime(xtime(b))), xtime(xtime(xtime(t))))
  BY <1>3, <1>4, MixLinear
<1>6. xtime(xtime(xtime(a))) \in Byte /\ xtime(xtime(xtime(b))) \in Byte
  BY <1>4, XtimeType
<1>7. n \in Mix(a, b, t) <=>
        Odd(n \in a, Odd(Odd(n \in xtime(a), n \in xtime(b)), n \in t))
  BY MixBits
<1>8. n \in xtime(Mix(a, b, t)) <=>
        Odd(n \in xtime(a), Odd(Odd(n \in xtime(xtime(a)), n \in xtime(xtime(b))), n \in xtime(t)))
  BY <1>1, <1>2, MixBits
<1>9. n \in xtime(xtime(Mix(a, b, t))) <=>
        Odd(n \in xtime(xtime(a)),
            Odd(Odd(n \in xtime(xtime(xtime(a))), n \in xtime(xtime(xtime(b)))),
                n \in xtime(xtime(t))))
  BY <1>3, <1>4, MixBits
<1>10. n \in xtime(xtime(xtime(Mix(a, b, t)))) <=>
        Odd(n \in xtime(xtime(xtime(a))),
            Odd(Odd(n \in xtime(xtime(xtime(xtime(a)))), n \in xtime(xtime(xtime(xtime(b))))),
                n \in xtime(xtime(xtime(t)))))
  BY <1>5, <1>6, MixBits
<1> QED BY <1>7, <1>8, <1>9, <1>10

LEMMA SumPowers ==
  ASSUME NEW a \in Byte, NEW b \in Byte, NEW c \in Byte, NEW d \in Byte, NEW n
  PROVE  LET t == Sum(a, b, c, d) IN
         /\ n \in t <=> Odd(Odd(Odd(n \in a, n \in b), n \in c), n \in d)
         /\ n \in xtime(t) <=>
              Odd(Odd(Odd(n \in xtime(a), n \in xtime(b)), n \in xtime(c)), n \in xtime(d))
         /\ n \in xtime(xtime(t)) <=>
              Odd(Odd(Odd(n \in xtime(xtime(a)), n \in xtime(xtime(b))), n \in xtime(xtime(c))),
                  n \in xtime(xtime(d)))
         /\ n \in xtime(xtime(xtime(t))) <=>
              Odd(Odd(Odd(n \in xtime(xtime(xtime(a))), n \in xtime(xtime(xtime(b)))),
                      n \in xtime(xtime(xtime(c)))), n \in xtime(xtime(xtime(d))))
<1> DEFINE t == Sum(a, b, c, d)
<1>1. xtime(t) = Sum(xtime(a), xtime(b), xtime(c), xtime(d))
  BY SumLinear
<1>2. xtime(a) \in Byte /\ xtime(b) \in Byte /\ xtime(c) \in Byte /\ xtime(d) \in Byte
  BY XtimeType
<1>3. xtime(xtime(t)) = Sum(xtime(xtime(a)), xtime(xtime(b)), xtime(xtime(c)), xtime(xtime(d)))
  BY <1>1, <1>2, SumLinear
<1>4. /\ xtime(xtime(a)) \in Byte /\ xtime(xtime(b)) \in Byte
      /\ xtime(xtime(c)) \in Byte /\ xtime(xtime(d)) \in Byte
  BY <1>2, XtimeType
<1>5. xtime(xtime(xtime(t)))
        = Sum(xtime(xtime(xtime(a))), xtime(xtime(xtime(b))),
              xtime(xtime(xtime(c))), xtime(xtime(xtime(d))))
  BY <1>3, <1>4, SumLinear
<1> QED BY <1>1, <1>3, <1>5, SumBits DEF Odd

LEMMA MixUndone ==
  ASSUME NEW a \in Byte, NEW b \in Byte, NEW c \in Byte, NEW d \in Byte
  PROVE  LET t == Sum(a, b, c, d) IN
           Sum(Multiply(Mix(a, b, t), 14), Multiply(Mix(b, c, t), 11),
               Multiply(Mix(c, d, t), 13), Multiply(Mix(d, a, t), 9)) = a
<1> DEFINE t == Sum(a, b, c, d)
           m0 == Mix(a, b, t)
           m1 == Mix(b, c, t)
           m2 == Mix(c, d, t)
           m3 == Mix(d, a, t)
           r == Sum(Multiply(m0, 14), Multiply(m1, 11), Multiply(m2, 13), Multiply(m3, 9))
<1>1. SUFFICES ASSUME NEW n PROVE n \in r <=> n \in a
  OBVIOUS
<1>2. t \in Byte
  BY SumType
<1>3. n \in r <=> Odd(Odd(Odd(n \in Multiply(m0, 14), n \in Multiply(m1, 11)),
                          n \in Multiply(m2, 13)), n \in Multiply(m3, 9))
  BY SumBits
<1> HIDE DEF t, m0, m1, m2, m3
<1>4. /\ n \in Multiply(m0, 14) <=>
           Odd(Odd(n \in xtime(m0), n \in xtime(xtime(m0))), n \in xtime(xtime(xtime(m0))))
      /\ n \in Multiply(m1, 11) <=>
           Odd(Odd(n \in m1, n \in xtime(m1)), n \in xtime(xtime(xtime(m1))))
      /\ n \in Multiply(m2, 13) <=>
           Odd(Odd(n \in m2, n \in xtime(xtime(m2))), n \in xtime(xtime(xtime(m2))))
      /\ n \in Multiply(m3, 9) <=> Odd(n \in m3, n \in xtime(xtime(xtime(m3))))
  BY MultiplyBits
<1> DEFINE P0(x) == n \in x
           P1(x) == n \in xtime(x)
           P2(x) == n \in xtime(xtime(x))
           P3(x) == n \in xtime(xtime(xtime(x)))
           P4(x) == n \in xtime(xtime(xtime(xtime(x))))
<1>5. /\ P0(t) <=> Odd(Odd(Odd(P0(a), P0(b)), P0(c)), P0(d))
      /\ P1(t) <=> Odd(Odd(Odd(P1(a), P1(b)), P1(c)), P1(d))
      /\ P2(t) <=> Odd(Odd(Odd(P2(a), P2(b)), P2(c)), P2(d))
      /\ P3(t) <=> Odd(Odd(Odd(P3(a), P3(b)), P3(c)), P3(d))
  BY SumPowers DEF t
<1> DEFINE Mixed(m, x, y) ==
             /\ P0(m) <=> Odd(P0(x), Odd(Odd(P1(x), P1(y)), P0(t)))
             /\ P1(m) <=> Odd(P1(x), Odd(Odd(P2(x), P2(y)), P1(t)))
             /\ P2(m) <=> Odd(P2(x), Odd(Odd(P3(x), P3(y)), P2(t)))
             /\ P3(m) <=> Odd(P3(x), Odd(Odd(P4(x), P4(y)), P3(t)))
<1>6. Mixed(m0, a, b)
  BY <1>2, MixPowers DEF m0
<1>7. Mixed(m1, b, c)
  BY <1>2, MixPowers DEF m1
<1>8. Mixed(m2, c, d)
  BY <1>2, MixPowers DEF m2
<1>9. Mixed(m3, d, a)
  BY <1>2, MixPowers DEF m3
<1> QED BY <1>3, <1>4, <1>5, <1>6, <1>7, <1>8, <1>9 DEF Odd
-----------------------------------------------------------------------------
(***************************************************************************)
(* The steps.                                                              *)
(***************************************************************************)
LEMMA AddType == \A s, k \in State : Add(s, k) \in State
BY XorType DEF Add, State

LEMMA AddUndone == \A s, k \in State : Add(Add(s, k), k) = s
BY XorType, XorTwice DEF Add, State

LEMMA SubBytesType == \A s \in State : SubBytes(s) \in State /\ InvSubBytes(s) \in State
BY SboxAssumption DEF SubBytes, InvSubBytes, State

LEMMA SubBytesUndone == \A s \in State : InvSubBytes(SubBytes(s)) = s
BY SboxAssumption DEF SubBytes, InvSubBytes, State

LEMMA Columns ==
  \A i, j \in Four : /\ (i + j) % 4 \in Four /\ (i + 4 - j) % 4 \in Four
                     /\ (((i + 4 - j) % 4) + j) % 4 = i
BY DEF Four

LEMMA ShiftRowsType == \A s \in State : ShiftRows(s) \in State /\ InvShiftRows(s) \in State
<1>1. TAKE s \in State
<1>2. \A i, j \in Four : s[(i + j) % 4][j] \in Byte /\ s[(i + 4 - j) % 4][j] \in Byte
  BY Columns DEF State
<1> QED BY <1>2 DEF ShiftRows, InvShiftRows, State

LEMMA ShiftRowsUndone == \A s \in State : InvShiftRows(ShiftRows(s)) = s
BY Columns DEF ShiftRows, InvShiftRows, State

LEMMA MultiplyType == \A x \in Byte : \A y : Multiply(x, y) \in Byte
<1>1. TAKE x \in Byte
<1>a. TAKE y
<1> DEFINE Times(n, p) == IF (y \div n) % 2 = 1 THEN p ELSE {}
<1>2. \A n, p : p \in Byte => Times(n, p) \in Byte
  BY DEF Byte
<1> DEFINE x2 == xtime(x)  x4 == xtime(x2)  x8 == xtime(x4)  x16 == xtime(x8)
<1>3. x2 \in Byte /\ x4 \in Byte /\ x8 \in Byte /\ x16 \in Byte
  BY XtimeType
<1> HIDE DEF Times
<1>4. /\ Times(1, x) \in Byte /\ Times(2, x2) \in Byte /\ Times(4, x4) \in Byte
      /\ Times(8, x8) \in Byte /\ Times(16, x16) \in Byte
  BY <1>2, <1>3
<1>5. Xor(Xor(Xor(Xor(Times(1, x), Times(2, x2)), Times(4, x4)), Times(8, x8)), Times(16, x16)) \in Byte
  BY <1>4, XorType
<1> QED BY <1>5 DEF Multiply, Times

LEMMA MixColumnType ==
  \A c \in [Four -> Byte] : MixColumn(c) \in [Four -> Byte] /\ InvMixColumn(c) \in [Four -> Byte]
<1>1. TAKE c \in [Four -> Byte]
<1>2. 0 \in Four /\ 1 \in Four /\ 2 \in Four /\ 3 \in Four
  BY DEF Four
<1>3. \A j \in Four : (j + 1) % 4 \in Four /\ (j + 2) % 4 \in Four /\ (j + 3) % 4 \in Four
  BY DEF Four
<1>4. MixColumn(c) \in [Four -> Byte]
  <2>1. Xor(Xor(Xor(c[0], c[1]), c[2]), c[3]) \in Byte
    BY <1>2, XorType
  <2>2. \A j \in Four : xtime(Xor(c[j], c[(j + 1) % 4])) \in Byte
    BY <1>3, XorType, XtimeType
  <2> QED BY <2>1, <2>2, XorType DEF MixColumn
<1>5. InvMixColumn(c) \in [Four -> Byte]
  <2>1. \A j \in Four : /\ Multiply(c[j], 14) \in Byte /\ Multiply(c[(j + 1) % 4], 11) \in Byte
                        /\ Multiply(c[(j + 2) % 4], 13) \in Byte /\ Multiply(c[(j + 3) % 4], 9) \in Byte
    BY <1>3, MultiplyType
  <2> QED BY <2>1, XorType DEF InvMixColumn
<1> QED BY <1>4, <1>5

\* The sum of a column does not depend on where one starts.
LEMMA SumRotates == \A a, b, c, d \in Byte : Sum(b, c, d, a) = Sum(a, b, c, d)
BY SumType, SumBits, XorByBits DEF Odd

LEMMA MixColumnUndone == \A c \in [Four -> Byte] : InvMixColumn(MixColumn(c)) = c
<1>1. TAKE c \in [Four -> Byte]
<1> DEFINE m == MixColumn(c)
           t == Sum(c[0], c[1], c[2], c[3])
<1>2. 0 \in Four /\ 1 \in Four /\ 2 \in Four /\ 3 \in Four
  BY DEF Four
<1>3. /\ m[0] = Mix(c[0], c[1], t) /\ m[1] = Mix(c[1], c[2], t)
      /\ m[2] = Mix(c[2], c[3], t) /\ m[3] = Mix(c[3], c[0], t)
  BY <1>2 DEF MixColumn, Mix, Sum
<1>4. c[0] \in Byte /\ c[1] \in Byte /\ c[2] \in Byte /\ c[3] \in Byte
  BY <1>2
<1>5. /\ Sum(c[1], c[2], c[3], c[0]) = t
      /\ Sum(c[2], c[3], c[0], c[1]) = t
      /\ Sum(c[3], c[0], c[1], c[2]) = t
  BY <1>4, SumRotates
<1> HIDE DEF m, t
<1>6. /\ Sum(Multiply(m[0], 14), Multiply(m[1], 11), Multiply(m[2], 13), Multiply(m[3], 9)) = c[0]
      /\ Sum(Multiply(m[1], 14), Multiply(m[2], 11), Multiply(m[3], 13), Multiply(m[0], 9)) = c[1]
      /\ Sum(Multiply(m[2], 14), Multiply(m[3], 11), Multiply(m[0], 13), Multiply(m[1], 9)) = c[2]
      /\ Sum(Multiply(m[3], 14), Multiply(m[0], 11), Multiply(m[1], 13), Multiply(m[2], 9)) = c[3]
  BY <1>3, <1>4, <1>5, MixUndone DEF t
<1>7. \A j \in Four : InvMixColumn(m)[j] = c[j]
  <2>1. InvMixColumn(m)[0] = c[0]
    BY <1>2, <1>6 DEF InvMixColumn, Sum
  <2>2. InvMixColumn(m)[1] = c[1]
    BY <1>2, <1>6 DEF InvMixColumn, Sum
  <2>3. InvMixColumn(m)[2] = c[2]
    BY <1>2, <1>6 DEF InvMixColumn, Sum
  <2>4. InvMixColumn(m)[3] = c[3]
    BY <1>2, <1>6 DEF InvMixColumn, Sum
  <2> QED BY <2>1, <2>2, <2>3, <2>4 DEF Four
<1>8. InvMixColumn(m) \in [Four -> Byte]
  BY MixColumnType DEF m
<1> QED BY <1>7, <1>8 DEF m

LEMMA MixColumnsType == \A s \in State : MixColumns(s) \in State /\ InvMixColumns(s) \in State
BY MixColumnType DEF MixColumns, InvMixColumns, State

\* For every column of bytes: 0x0e, 0x0b, 0x0d and 0x09 are right.
THEOREM MixColumnsUndone == \A s \in State : InvMixColumns(MixColumns(s)) = s
BY MixColumnType, MixColumnUndone DEF MixColumns, InvMixColumns, State

-----------------------------------------------------------------------------
(***************************************************************************)
(* The steps are those of the standard.  A bit of a product is the parity  *)
(* of a set of powers, which one power more turns over.                    *)
(***************************************************************************)
LEMMA ParityTurns ==
  /\ ~Parity({})
  /\ \A S, x : IsFiniteSet(S) /\ x \notin S => (Parity(S \cup {x}) <=> ~Parity(S))
<1>1. ~Parity({})
  BY FS_EmptySet DEF Parity
<1>2. ASSUME NEW S, NEW x, IsFiniteSet(S), x \notin S
      PROVE  Parity(S \cup {x}) <=> ~Parity(S)
  <2>1. Cardinality(S) \in Nat /\ Cardinality(S \cup {x}) = Cardinality(S) + 1
    BY <1>2, FS_AddElement, FS_CardinalityType
  <2>2. \A n \in Nat : (n + 1) % 2 = 1 <=> n % 2 # 1
    OBVIOUS
  <2> QED  BY <2>1, <2>2 DEF Parity
<1> QED  BY <1>1, <1>2

LEMMA ParityOfThree ==
  ASSUME NEW G, NEW x, NEW y, NEW z, x # y, y # z, x # z
  PROVE  /\ Parity({n \in {x} : n \in G}) <=> x \in G
         /\ Parity({n \in {x, y} : n \in G}) <=> Odd(x \in G, y \in G)
         /\ Parity({n \in {x, y, z} : n \in G}) <=> Odd(Odd(x \in G, y \in G), z \in G)
<1> DEFINE A == {n \in {x} : n \in G}
           B == {n \in {x, y} : n \in G}
           C == {n \in {x, y, z} : n \in G}
<1>1. IsFiniteSet({}) /\ IsFiniteSet(A) /\ IsFiniteSet(B)
  <2>1. IsFiniteSet({x}) /\ IsFiniteSet({x, y})
    <3>1. {x, y} = {x} \cup {y}
      OBVIOUS
    <3>2. IsFiniteSet({x})
      BY FS_Singleton
    <3>3. IsFiniteSet({x} \cup {y})
      BY <3>2, FS_AddElement
    <3> QED  BY <3>1, <3>2, <3>3
  <2>2. A \in SUBSET {x} /\ B \in SUBSET {x, y}
    OBVIOUS
  <2> HIDE DEF A, B
  <2> QED  BY <2>1, <2>2, FS_Subset, FS_EmptySet
<1>2. A = IF x \in G THEN {} \cup {x} ELSE {}
  OBVIOUS
<1>3. B = (IF y \in G THEN A \cup {y} ELSE A) /\ y \notin A
  OBVIOUS
<1>4. C = (IF z \in G THEN B \cup {z} ELSE B) /\ z \notin B
  OBVIOUS
<1> HIDE DEF A, B, C
<1>5. Parity(A) <=> x \in G
  BY <1>1, <1>2, ParityTurns
<1>6. Parity(B) <=> Odd(x \in G, y \in G)
  BY <1>1, <1>3, <1>5, ParityTurns DEF Odd
<1>7. Parity(C) <=> Odd(Odd(x \in G, y \in G), z \in G)
  BY <1>1, <1>4, <1>6, ParityTurns DEF Odd
<1> QED  BY <1>5, <1>6, <1>7 DEF A, B, C

LEMMA PowersAre ==
  ASSUME NEW a
  PROVE  /\ Powers(a)[0] = a /\ Powers(a)[1] = xtime(a) /\ Powers(a)[2] = xtime(xtime(a))
         /\ Powers(a)[3] = xtime(xtime(xtime(a)))
<1> DEFINE x1 == xtime(a)
           x2 == xtime(x1)
           x3 == xtime(x2)
           x4 == xtime(x3)
           x5 == xtime(x4)
           x6 == xtime(x5)
           x7 == xtime(x6)
           q == [n \in Degree |-> CASE n = 0 -> a [] n = 1 -> x1 [] n = 2 -> x2 [] n = 3 -> x3
                                    [] n = 4 -> x4 [] n = 5 -> x5 [] n = 6 -> x6 [] OTHER -> x7]
           Is(p) == p = [n \in Degree |-> IF n = 0 THEN a ELSE xtime(p[n - 1])]
<1>1. Is(q)
  <2>1. ASSUME NEW n \in Degree PROVE q[n] = IF n = 0 THEN a ELSE xtime(q[n - 1])
    <3>1. n \in {0, 1, 2, 3, 4, 5, 6, 7}
      BY DEF Degree
    <3>2. /\ q[0] = a /\ q[1] = x1 /\ q[2] = x2 /\ q[3] = x3
          /\ q[4] = x4 /\ q[5] = x5 /\ q[6] = x6 /\ q[7] = x7
      BY DEF Degree
    <3> HIDE DEF q
    <3> QED  BY <3>1, <3>2
  <2> QED  BY <2>1
<1>2. Powers(a) = CHOOSE p : Is(p)
  BY DEF Powers
<1>3. Is(Powers(a))
  <2> HIDE DEF Is, q
  <2> QED  BY <1>1, <1>2
<1> DEFINE p == Powers(a)
<1>4. p = [n \in Degree |-> IF n = 0 THEN a ELSE xtime(p[n - 1])]
  BY <1>3
<1> HIDE DEF p
<1>5. p[0] = a /\ p[1] = xtime(p[0]) /\ p[2] = xtime(p[1]) /\ p[3] = xtime(p[2])
  BY <1>4 DEF Degree
<1> QED  BY <1>5 DEF p

LEMMA ProductBits ==
  ASSUME NEW a, NEW k \in Degree
  PROVE  /\ k \in Product(a, {0}) <=> k \in a
         /\ k \in Product(a, {1}) <=> k \in xtime(a)
         /\ k \in Product(a, {0, 1}) <=> Odd(k \in a, k \in xtime(a))
         /\ k \in Product(a, {0, 3}) <=> Odd(k \in a, k \in xtime(xtime(xtime(a))))
         /\ k \in Product(a, {0, 1, 3}) <=>
              Odd(Odd(k \in a, k \in xtime(a)), k \in xtime(xtime(xtime(a))))
         /\ k \in Product(a, {0, 2, 3}) <=>
              Odd(Odd(k \in a, k \in xtime(xtime(a))), k \in xtime(xtime(xtime(a))))
         /\ k \in Product(a, {1, 2, 3}) <=>
              Odd(Odd(k \in xtime(a), k \in xtime(xtime(a))), k \in xtime(xtime(xtime(a))))
<1> DEFINE G == {n \in Degree : k \in Powers(a)[n]}
<1>1. /\ 0 \in G <=> k \in a
      /\ 1 \in G <=> k \in xtime(a)
      /\ 2 \in G <=> k \in xtime(xtime(a))
      /\ 3 \in G <=> k \in xtime(xtime(xtime(a)))
  BY PowersAre DEF Degree
<1>2. ASSUME NEW b \in SUBSET Degree
      PROVE  k \in Product(a, b) <=> Parity({n \in b : n \in G})
  <2>1. {n \in b : n \in G} = {n \in b : k \in Powers(a)[n]}
    OBVIOUS
  <2> QED  BY <2>1 DEF Product
<1>3. /\ {0} \in SUBSET Degree /\ {1} \in SUBSET Degree /\ {0, 1} \in SUBSET Degree
      /\ {0, 3} \in SUBSET Degree /\ {0, 1, 3} \in SUBSET Degree /\ {0, 2, 3} \in SUBSET Degree
      /\ {1, 2, 3} \in SUBSET Degree
  BY DEF Degree
<1> HIDE DEF G
<1>d. 0 # 1 /\ 0 # 2 /\ 0 # 3 /\ 1 # 2 /\ 1 # 3 /\ 2 # 3
  OBVIOUS
<1>4. Parity({n \in {0} : n \in G}) <=> 0 \in G
  BY <1>d, ParityOfThree
<1>5. Parity({n \in {1} : n \in G}) <=> 1 \in G
  BY <1>d, ParityOfThree
<1>6. Parity({n \in {0, 1} : n \in G}) <=> Odd(0 \in G, 1 \in G)
  BY <1>d, ParityOfThree
<1>7. Parity({n \in {0, 3} : n \in G}) <=> Odd(0 \in G, 3 \in G)
  BY <1>d, ParityOfThree
<1>8. Parity({n \in {0, 1, 3} : n \in G}) <=> Odd(Odd(0 \in G, 1 \in G), 3 \in G)
  BY <1>d, ParityOfThree
<1>9. Parity({n \in {0, 2, 3} : n \in G}) <=> Odd(Odd(0 \in G, 2 \in G), 3 \in G)
  BY <1>d, ParityOfThree
<1>10. Parity({n \in {1, 2, 3} : n \in G}) <=> Odd(Odd(1 \in G, 2 \in G), 3 \in G)
  BY <1>d, ParityOfThree
<1> QED  BY <1>1, <1>2, <1>3, <1>4, <1>5, <1>6, <1>7, <1>8, <1>9, <1>10 DEF Odd

LEMMA ProductType == \A a, b : Product(a, b) \in Byte
BY DEF Product, Byte, Degree

\* The code's sums are the standard's products.
LEMMA MixIsProduct ==
  ASSUME NEW a \in Byte, NEW b \in Byte, NEW c \in Byte, NEW d \in Byte
  PROVE  Mix(a, b, Sum(a, b, c, d))
           = Sum(Product(a, {1}), Product(b, {0, 1}), Product(c, {0}), Product(d, {0}))
<1> DEFINE t == Sum(a, b, c, d)
           l == Mix(a, b, t)
           r == Sum(Product(a, {1}), Product(b, {0, 1}), Product(c, {0}), Product(d, {0}))
<1>1. l \in Byte /\ r \in Byte /\ t \in Byte
  BY SumType, MixType, ProductType
<1>2. ASSUME NEW n \in 0..7 PROVE n \in l <=> n \in r
  <2>1. n \in l <=> Odd(n \in a, Odd(Odd(n \in xtime(a), n \in xtime(b)), n \in t))
    BY MixBits
  <2>2. n \in t <=> Odd(Odd(Odd(n \in a, n \in b), n \in c), n \in d)
    BY SumBits
  <2>3. n \in r <=> Odd(Odd(Odd(n \in Product(a, {1}), n \in Product(b, {0, 1})),
                            n \in Product(c, {0})), n \in Product(d, {0}))
    BY SumBits
  <2>4. /\ n \in Product(a, {1}) <=> n \in xtime(a)
        /\ n \in Product(b, {0, 1}) <=> Odd(n \in b, n \in xtime(b))
        /\ n \in Product(c, {0}) <=> n \in c
        /\ n \in Product(d, {0}) <=> n \in d
    BY ProductBits DEF Degree
  <2> HIDE DEF l, r, t
  <2> QED  BY <2>1, <2>2, <2>3, <2>4 DEF Odd
<1> HIDE DEF l, r, t
<1>3. l = r
  BY <1>1, <1>2, XorByBits
<1> QED  BY <1>3 DEF l, r, t

LEMMA MultiplyIsProduct ==
  ASSUME NEW a \in Byte
  PROVE  /\ Multiply(a, 14) = Product(a, {1, 2, 3}) /\ Multiply(a, 11) = Product(a, {0, 1, 3})
         /\ Multiply(a, 13) = Product(a, {0, 2, 3}) /\ Multiply(a, 9) = Product(a, {0, 3})
<1>1. \A n \in 0..7 :
        /\ n \in Multiply(a, 14) <=> n \in Product(a, {1, 2, 3})
        /\ n \in Multiply(a, 11) <=> n \in Product(a, {0, 1, 3})
        /\ n \in Multiply(a, 13) <=> n \in Product(a, {0, 2, 3})
        /\ n \in Multiply(a, 9) <=> n \in Product(a, {0, 3})
  BY MultiplyBits, ProductBits DEF Degree
<1> QED  BY <1>1, MultiplyType, ProductType, XorByBits

LEMMA StandardColumns ==
  ASSUME NEW c \in [Four -> Byte]
  PROVE  /\ MixColumn(c) = TimesPolynomial(c, {1}, {0}, {0}, {0, 1})
         /\ InvMixColumn(c) = TimesPolynomial(c, {1, 2, 3}, {0, 3}, {0, 2, 3}, {0, 1, 3})
<1>1. 0 \in Four /\ 1 \in Four /\ 2 \in Four /\ 3 \in Four
  BY DEF Four
<1>2. c[0] \in Byte /\ c[1] \in Byte /\ c[2] \in Byte /\ c[3] \in Byte
  BY <1>1
<1>3. ASSUME NEW j \in Four
      PROVE  /\ c[j] \in Byte /\ c[(j + 1) % 4] \in Byte /\ c[(j + 2) % 4] \in Byte
             /\ c[(j + 3) % 4] \in Byte
             /\ Sum(c[0], c[1], c[2], c[3])
                  = Sum(c[j], c[(j + 1) % 4], c[(j + 2) % 4], c[(j + 3) % 4])
  <2>1. j \in {0, 1, 2, 3}
    BY DEF Four
  <2>2. /\ Sum(c[1], c[2], c[3], c[0]) = Sum(c[0], c[1], c[2], c[3])
        /\ Sum(c[2], c[3], c[0], c[1]) = Sum(c[0], c[1], c[2], c[3])
        /\ Sum(c[3], c[0], c[1], c[2]) = Sum(c[0], c[1], c[2], c[3])
    BY <1>2, SumRotates
  <2> QED  BY <1>2, <2>1, <2>2
<1>4. ASSUME NEW j \in Four
      PROVE  MixColumn(c)[j] = TimesPolynomial(c, {1}, {0}, {0}, {0, 1})[j]
  <2>1. MixColumn(c)[j] = Mix(c[j], c[(j + 1) % 4], Sum(c[0], c[1], c[2], c[3]))
    BY DEF MixColumn, Mix, Sum
  <2>2. TimesPolynomial(c, {1}, {0}, {0}, {0, 1})[j]
          = Sum(Product(c[j], {1}), Product(c[(j + 1) % 4], {0, 1}), Product(c[(j + 2) % 4], {0}),
                Product(c[(j + 3) % 4], {0}))
    BY DEF TimesPolynomial, Sum
  <2> QED  BY <1>3, <2>1, <2>2, MixIsProduct
<1>5. MixColumn(c) = TimesPolynomial(c, {1}, {0}, {0}, {0, 1})
  BY <1>4 DEF MixColumn, TimesPolynomial
<1>6. InvMixColumn(c) = TimesPolynomial(c, {1, 2, 3}, {0, 3}, {0, 2, 3}, {0, 1, 3})
  BY <1>3, MultiplyIsProduct DEF InvMixColumn, TimesPolynomial
<1> QED  BY <1>5, <1>6

\* Each step of the code, on any state, is the standard's.
THEOREM StepsAreStandard ==
  \A s \in State, w \in Schedule, r \in 0..Nr :
    /\ ShiftRows(s) = StandardShiftRows(s) /\ InvShiftRows(s) = StandardInvShiftRows(s)
    /\ MixColumns(s) = StandardMixColumns(s) /\ InvMixColumns(s) = StandardInvMixColumns(s)
    /\ AddRoundKey(r, s, w) = StandardAddRoundKey(r, s, w)
<1> TAKE s \in State, w \in Schedule, r \in 0..Nr
<1>1. ShiftRows(s) = StandardShiftRows(s)
  BY DEF ShiftRows, StandardShiftRows
<1>2. InvShiftRows(s) = StandardInvShiftRows(s)
  <2>1. \A c, j \in Four : (c + 4 - j) % 4 = (c - j) % 4
    BY DEF Four
  <2> QED  BY <2>1 DEF InvShiftRows, StandardInvShiftRows
<1>3. MixColumns(s) = StandardMixColumns(s) /\ InvMixColumns(s) = StandardInvMixColumns(s)
  <2>1. \A c \in Four : s[c] \in [Four -> Byte]
    BY DEF State
  <2> QED  BY <2>1, StandardColumns
           DEF MixColumns, InvMixColumns, StandardMixColumns, StandardInvMixColumns
<1>4. AddRoundKey(r, s, w) = StandardAddRoundKey(r, s, w)
  <2>1. \A c \in Four : r * Nb + c = 4 * r + c
    BY ContextAssumption DEF Nb, Four
  <2> QED  BY <2>1 DEF AddRoundKey, Add, StandardAddRoundKey
<1> QED  BY <1>1, <1>2, <1>3, <1>4

-----------------------------------------------------------------------------
(***************************************************************************)
(* How: InvCipher goes back through the blocks Cipher went through.        *)
(***************************************************************************)
Turn(s) == CASE s = "SubBytes" -> 0 [] s = "ShiftRows" -> 1 [] s = "MixColumns" -> 2
             [] s = "AddRoundKey" -> 3
Before(r, s) == op = "Cipher" => (r < round \/ (r = round /\ Turn(s) < Turn(step)))

\* What each step of Cipher has done to the block, once it was taken.
SubLink(r) == past[r]["ShiftRows"] = SubBytes(past[r]["SubBytes"])
ShiftLink(r) ==
  past[r][IF r = Nr THEN "AddRoundKey" ELSE "MixColumns"] = ShiftRows(past[r]["ShiftRows"])
MixLink(r) == past[r]["AddRoundKey"] = MixColumns(past[r]["MixColumns"])
AddLink(r) == past[r + 1]["SubBytes"] = AddRoundKey(r, past[r]["AddRoundKey"], RoundKey)
Chain ==
  /\ past[0]["AddRoundKey"] = plain
  /\ \A r \in 1..Nr :
       /\ Before(r, "SubBytes") => SubLink(r)
       /\ Before(r, "ShiftRows") => ShiftLink(r)
       /\ r < Nr /\ Before(r, "MixColumns") => MixLink(r)
  /\ \A r \in 0..Nr - 1 : Before(r, "AddRoundKey") => AddLink(r)

Forward ==
  /\ step \in Step
  /\ round = 0 => step = "AddRoundKey"
  /\ step = "MixColumns" => round < Nr
  /\ state = past[round][step]

Retraced ==
  CASE step = "AddRoundKey" /\ round = Nr ->
         state = AddRoundKey(Nr, past[Nr]["AddRoundKey"], RoundKey)
    [] step = "InvShiftRows" ->
         /\ round < Nr
         /\ state = past[round + 1][IF round + 1 = Nr THEN "AddRoundKey" ELSE "MixColumns"]
    [] step = "InvSubBytes" -> round < Nr /\ state = past[round + 1]["ShiftRows"]
    [] step = "AddRoundKey" /\ round < Nr -> state = past[round + 1]["SubBytes"]
    [] step = "InvMixColumns" -> round \in 1..Nr - 1 /\ state = past[round]["AddRoundKey"]
    [] OTHER -> FALSE

IInv ==
  /\ op \in {"Cipher", "encrypted", "InvCipher"} => Chain
  /\ op = "Cipher" => Forward
  /\ op = "encrypted" => state = AddRoundKey(Nr, past[Nr]["AddRoundKey"], RoundKey)
  /\ op = "InvCipher" => Retraced
  /\ RoundTrip
-----------------------------------------------------------------------------
LEMMA RoundsType ==
  /\ Nr \in Nat \ {0} /\ 0 \in 0..Nr /\ Nr \in 0..Nr
  /\ \A r \in 0..Nr, i \in Four : r * Nb + i \in 0..Words - 1
BY ContextAssumption DEF Words, Nb, Four

LEMMA RoundKeyType ==
  ASSUME NEW k \in Schedule, NEW r \in 0..Nr
  PROVE  [i \in Four |-> k[r * Nb + i]] \in State
BY RoundsType DEF State, Word, Schedule

LEMMA AddRoundKeyType ==
  ASSUME NEW k \in Schedule, NEW r \in 0..Nr, NEW s \in State
  PROVE  AddRoundKey(r, s, k) \in State
BY RoundKeyType, AddType DEF AddRoundKey

LEMMA AddRoundKeyUndone ==
  ASSUME NEW k \in Schedule, NEW r \in 0..Nr, NEW s \in State
  PROVE  AddRoundKey(r, AddRoundKey(r, s, k), k) = s
BY RoundKeyType, AddUndone DEF AddRoundKey

\* Each step of the two functions keeps the block and the round in range.
LEMMA TypeStep ==
  ASSUME TypeOK, IInv, [Next]_vars
  PROVE  TypeOK'
<1> USE DEF TypeOK
<1>1. ASSUME NEW m \in Plain, AES_ECB_encrypt(m) PROVE TypeOK'
  <2>1. m \in State
    BY PlainAssumption
  <2> QED BY <1>1, <2>1, RoundsType DEF AES_ECB_encrypt, Step
<1>2. CASE CipherSubBytes
  BY <1>2, SubBytesType DEF CipherSubBytes, CipherStep, Step
<1>3. CASE CipherShiftRows
  BY <1>3, ShiftRowsType DEF CipherShiftRows, CipherStep, Step
<1>4. CASE CipherMixColumns
  BY <1>4, MixColumnsType DEF CipherMixColumns, CipherStep, Step
<1>5. CASE CipherAddRoundKey
  <2>1. AddRoundKey(round, state, RoundKey) \in State
    BY AddRoundKeyType
  <2>2. round # Nr => round + 1 \in 0..Nr
    BY RoundsType
  <2> QED BY <1>5, <2>1, <2>2 DEF CipherAddRoundKey, CipherStep, Returns, Step
<1>6. CASE AES_ECB_decrypt
  BY <1>6, RoundsType DEF AES_ECB_decrypt, Step
<1>7. CASE DoInvShiftRows
  BY <1>7, ShiftRowsType DEF DoInvShiftRows, InvCipherStep, InvStep
<1>8. CASE DoInvSubBytes
  BY <1>8, SubBytesType DEF DoInvSubBytes, InvCipherStep, InvStep
<1>9. CASE InvCipherAddRoundKey
  <2>1. AddRoundKey(round, state, RoundKey) \in State
    BY AddRoundKeyType
  <2>2. Nr - 1 \in 0..Nr
    BY RoundsType
  <2> QED BY <1>9, <2>1, <2>2 DEF InvCipherAddRoundKey, InvCipherStep, Returns, InvStep
<1>10. CASE DoInvMixColumns
  <2>1. round - 1 \in 0..Nr
    BY <1>10, RoundsType DEF DoInvMixColumns, InvCipherStep, IInv, Retraced
  <2> QED BY <1>10, <2>1, MixColumnsType DEF DoInvMixColumns, InvCipherStep, InvStep
<1>11. CASE UNCHANGED vars
  BY <1>11 DEF vars, cipherVars
<1> QED BY <1>1, <1>2, <1>3, <1>4, <1>5, <1>6, <1>7, <1>8, <1>9, <1>10, <1>11 DEF Next

LEMMA TurnValue ==
  /\ Turn("SubBytes") = 0 /\ Turn("ShiftRows") = 1
  /\ Turn("MixColumns") = 2 /\ Turn("AddRoundKey") = 3
BY DEF Turn

\* A step of Cipher adds the link of the place <<round, step>> to the chain,
\* if it wrote the block that comes next and left those before alone.
LEMMA ChainStep ==
  ASSUME TypeOK, Chain, Forward, op = "Cipher",
         NEW s, NEW r1 \in 0..Nr, NEW next \in Step, CipherStep(s, r1, next),
         \/ step = "SubBytes" /\ r1 = round /\ next = "ShiftRows" /\ s = SubBytes(state)
         \/ /\ step = "ShiftRows" /\ r1 = round /\ s = ShiftRows(state)
            /\ next = IF round = Nr THEN "AddRoundKey" ELSE "MixColumns"
         \/ step = "MixColumns" /\ r1 = round /\ next = "AddRoundKey" /\ s = MixColumns(state)
         \/ /\ step = "AddRoundKey" /\ round < Nr /\ r1 = round + 1 /\ next = "SubBytes"
            /\ s = AddRoundKey(round, state, RoundKey)
  PROVE  Chain' /\ Forward'
<1> USE DEF TypeOK
<1>1. /\ round' = r1 /\ step' = next /\ state' = s /\ op' = "Cipher"
      /\ plain' = plain /\ RoundKey' = RoundKey
      /\ past'[r1][next] = s
      /\ \A r \in 0..Nr, x \in Step : r # r1 \/ x # next => past'[r][x] = past[r][x]
  BY DEF CipherStep, Step
<1>2. \A r \in 0..Nr, x \in Step :
        Before(r, x)' <=> (r < r1 \/ (r = r1 /\ Turn(x) < Turn(next)))
  BY <1>1 DEF Before
<1>3. \A r \in 0..Nr, x \in Step :
        Before(r, x) <=> (r < round \/ (r = round /\ Turn(x) < Turn(step)))
  BY DEF Before
<1>4. /\ state = past[round][step] /\ step \in Step
      /\ (round = 0 => step = "AddRoundKey") /\ (step = "MixColumns" => round < Nr)
  BY DEF Forward
<1>5. Forward'
  <2>1. next \in Step /\ state' = past'[r1][next]
    BY <1>1
  <2>2. r1 = 0 => next = "AddRoundKey"
    BY <1>4
  <2>3. next = "MixColumns" => r1 < Nr
    BY <1>4, RoundsType
  <2> QED BY <1>1, <2>1, <2>2, <2>3 DEF Forward
<1>6. past'[0]["AddRoundKey"] = plain'
  BY <1>1, <1>4, RoundsType DEF Chain, Step
<1>7. ASSUME NEW r \in 1..Nr, Before(r, "SubBytes")' PROVE SubLink(r)'
  BY <1>1, <1>2, <1>3, <1>4, <1>7, TurnValue DEF Chain, SubLink, Step
<1>8. ASSUME NEW r \in 1..Nr, Before(r, "ShiftRows")' PROVE ShiftLink(r)'
  BY <1>1, <1>2, <1>3, <1>4, <1>8, TurnValue DEF Chain, ShiftLink, Step
<1>9. ASSUME NEW r \in 1..Nr, r < Nr, Before(r, "MixColumns")' PROVE MixLink(r)'
  BY <1>1, <1>2, <1>3, <1>4, <1>9, TurnValue DEF Chain, MixLink, Step
<1>10. ASSUME NEW r \in 0..Nr - 1, Before(r, "AddRoundKey")' PROVE AddLink(r)'
  BY <1>1, <1>2, <1>3, <1>4, <1>10, TurnValue, RoundsType DEF Chain, AddLink, Step
<1> QED BY <1>5, <1>6, <1>7, <1>8, <1>9, <1>10 DEF Chain

\* Outside Cipher the chain is complete.
LEMMA LinksDone ==
  ASSUME TypeOK, Chain, op # "Cipher" \/ (round = Nr /\ step = "AddRoundKey")
  PROVE  /\ \A r \in 1..Nr : SubLink(r) /\ ShiftLink(r) /\ (r < Nr => MixLink(r))
         /\ \A r \in 0..Nr - 1 : AddLink(r)
<1>1. \A r \in 0..Nr - 1, x \in Step : Before(r, x)
  BY RoundsType DEF Before, TypeOK
<1>2. Before(Nr, "SubBytes") /\ Before(Nr, "ShiftRows")
  BY RoundsType, TurnValue DEF Before, TypeOK
<1>3. \A r \in 1..Nr : r \in 0..Nr - 1 \/ r = Nr
  BY RoundsType
<1> QED BY <1>1, <1>2, <1>3 DEF Chain, Step

\* Nothing touches it.
LEMMA ChainKept ==
  ASSUME TypeOK, Chain, op # "Cipher" \/ (round = Nr /\ step = "AddRoundKey"), op' # "Cipher",
         UNCHANGED <<RoundKey, plain, past>>
  PROVE  Chain' /\ (\A r \in 1..Nr : SubLink(r) /\ ShiftLink(r) /\ (r < Nr => MixLink(r)))
                /\ (\A r \in 0..Nr - 1 : AddLink(r))
<1>1. /\ \A r \in 1..Nr : SubLink(r)' /\ ShiftLink(r)' /\ (r < Nr => MixLink(r)')
      /\ \A r \in 0..Nr - 1 : AddLink(r)'
  BY LinksDone DEF SubLink, ShiftLink, MixLink, AddLink
<1> QED BY <1>1, LinksDone DEF Chain

LEMMA IInvStep ==
  ASSUME TypeOK, IInv, [Next]_vars
  PROVE  IInv'
<1> USE DEF TypeOK
<1>1. ASSUME NEW m \in Plain, AES_ECB_encrypt(m) PROVE IInv'
  <2>1. m \in State
    BY PlainAssumption
  <2>2. /\ \A r \in 1..Nr, s \in Step : ~Before(r, s)'
        /\ \A r \in 0..Nr : ~Before(r, "AddRoundKey")'
    BY <1>1, TurnValue DEF AES_ECB_encrypt, Before, Step
  <2>3. past'[0]["AddRoundKey"] = plain' /\ state' = past'[round']["AddRoundKey"]
    BY <1>1, <2>1, RoundsType DEF AES_ECB_encrypt, Step
  <2>4. Chain'
    <3>1. \A r \in 0..Nr - 1 : r \in 0..Nr
      BY RoundsType
    <3>2. \A r \in 1..Nr : ~Before(r, "SubBytes")' /\ ~Before(r, "ShiftRows")' /\ ~Before(r, "MixColumns")'
      BY <2>2 DEF Step
    <3>3. \A r \in 0..Nr - 1 : ~Before(r, "AddRoundKey")'
      BY <2>2, <3>1
    <3> QED BY <2>3, <3>2, <3>3 DEF Chain
  <2>5. Forward'
    BY <1>1, <2>3 DEF AES_ECB_encrypt, Forward, Step
  <2> QED BY <1>1, <2>4, <2>5 DEF AES_ECB_encrypt, IInv, RoundTrip
<1> DEFINE CipherLeft == Chain' /\ Forward' /\ op' = "Cipher"
<1>2. CipherLeft => IInv'
  BY DEF IInv, RoundTrip
<1>3. CASE CipherSubBytes
  <2>1. Chain /\ Forward /\ op = "Cipher" /\ op' = "Cipher"
    BY <1>3 DEF CipherSubBytes, CipherStep, IInv
  <2> QED BY <1>2, <1>3, <2>1, ChainStep DEF CipherSubBytes, Step
<1>4. CASE CipherShiftRows
  <2>1. Chain /\ Forward /\ op = "Cipher" /\ op' = "Cipher"
    BY <1>4 DEF CipherShiftRows, CipherStep, IInv
  <2> QED BY <1>2, <1>4, <2>1, ChainStep DEF CipherShiftRows, Step
<1>5. CASE CipherMixColumns
  <2>1. Chain /\ Forward /\ op = "Cipher" /\ op' = "Cipher"
    BY <1>5 DEF CipherMixColumns, CipherStep, IInv
  <2> QED BY <1>2, <1>5, <2>1, ChainStep DEF CipherMixColumns, Step
<1>6. CASE CipherAddRoundKey
  <2>1. Chain /\ Forward /\ op = "Cipher" /\ step = "AddRoundKey"
    BY <1>6 DEF CipherAddRoundKey, CipherStep, Returns, IInv
  <2>2. CASE round = Nr
    <3>1. /\ op' = "encrypted" /\ UNCHANGED <<RoundKey, plain, past, round, step>>
          /\ state' = AddRoundKey(Nr, past[Nr]["AddRoundKey"], RoundKey)
      BY <1>6, <2>1, <2>2 DEF CipherAddRoundKey, Returns, Forward
    <3> QED BY <2>1, <2>2, <3>1, ChainKept DEF IInv, RoundTrip
  <2>3. CASE round # Nr
    <3>1. /\ round < Nr /\ round + 1 \in 0..Nr /\ op' = "Cipher"
          /\ CipherStep(AddRoundKey(round, state, RoundKey), round + 1, "SubBytes")
      BY <1>6, <2>3, RoundsType DEF CipherAddRoundKey, CipherStep
    <3> QED BY <1>2, <2>1, <3>1, ChainStep DEF Step
  <2> QED BY <2>2, <2>3
<1>7. CASE AES_ECB_decrypt
  <2>1. Chain'
    BY <1>7, ChainKept DEF AES_ECB_decrypt, IInv
  <2> QED BY <1>7, <2>1, RoundsType DEF AES_ECB_decrypt, IInv, Retraced, RoundTrip
<1> DEFINE AllLinks ==
             /\ \A r \in 1..Nr : SubLink(r) /\ ShiftLink(r) /\ (r < Nr => MixLink(r))
             /\ \A r \in 0..Nr - 1 : AddLink(r)
<1>8. ASSUME NEW s, NEW r, NEW next, InvCipherStep(s, r, next)
      PROVE  Chain' /\ AllLinks /\ Retraced /\ (Retraced' => IInv')
  <2>1. /\ op = "InvCipher" /\ op' = "InvCipher" /\ UNCHANGED <<RoundKey, plain, past>>
        /\ Chain /\ Retraced
    BY <1>8 DEF InvCipherStep, IInv
  <2>2. Chain' /\ AllLinks
    BY <2>1, ChainKept
  <2> QED BY <2>1, <2>2 DEF IInv, RoundTrip
<1>9. CASE DoInvShiftRows
  <2>1. InvCipherStep(InvShiftRows(state), round, "InvSubBytes")
    BY <1>9 DEF DoInvShiftRows
  <2>2. AllLinks /\ round < Nr /\ (Retraced' => IInv')
        /\ state = past[round + 1][IF round + 1 = Nr THEN "AddRoundKey" ELSE "MixColumns"]
    BY <1>9, <2>1, <1>8 DEF DoInvShiftRows, Retraced
  <2>3. round + 1 \in 1..Nr /\ past[round + 1]["ShiftRows"] \in State
    BY <2>2, RoundsType DEF Step
  <2>4. state = ShiftRows(past[round + 1]["ShiftRows"])
    BY <2>2, <2>3 DEF ShiftLink
  <2>5. state' = past[round + 1]["ShiftRows"]
    BY <2>1, <2>3, <2>4, ShiftRowsUndone DEF InvCipherStep
  <2> QED BY <2>1, <2>2, <2>5 DEF InvCipherStep, Retraced
<1>10. CASE DoInvSubBytes
  <2>1. InvCipherStep(InvSubBytes(state), round, "AddRoundKey")
    BY <1>10 DEF DoInvSubBytes
  <2>2. AllLinks /\ round < Nr /\ (Retraced' => IInv') /\ state = past[round + 1]["ShiftRows"]
    BY <1>10, <2>1, <1>8 DEF DoInvSubBytes, Retraced
  <2>3. round + 1 \in 1..Nr /\ past[round + 1]["SubBytes"] \in State
    BY <2>2, RoundsType DEF Step
  <2>4. state' = past[round + 1]["SubBytes"]
    BY <2>1, <2>2, <2>3, SubBytesUndone DEF InvCipherStep, SubLink
  <2> QED BY <2>1, <2>2, <2>4 DEF InvCipherStep, Retraced
<1>11. CASE InvCipherAddRoundKey
  <2> DEFINE s == AddRoundKey(round, state, RoundKey)
  <2>1. step = "AddRoundKey"
    BY <1>11 DEF InvCipherAddRoundKey
  <2>2. CASE round = Nr /\ InvCipherStep(s, Nr - 1, "InvShiftRows")
    <3>1. (Retraced' => IInv') /\ state = AddRoundKey(Nr, past[Nr]["AddRoundKey"], RoundKey)
      BY <2>1, <2>2, <1>8 DEF Retraced
    <3>2. past[Nr]["AddRoundKey"] \in State
      BY RoundsType DEF Step
    <3>3. state' = past[Nr]["AddRoundKey"]
      BY <2>2, <3>1, <3>2, AddRoundKeyUndone DEF InvCipherStep
    <3> QED BY <2>2, <3>1, <3>3, RoundsType DEF InvCipherStep, Retraced
  <2>3. ASSUME op = "InvCipher", round < Nr
        PROVE  /\ s = past[round]["AddRoundKey"]
               /\ Chain /\ (op' # "Cipher" /\ UNCHANGED <<RoundKey, plain, past>> => Chain')
    <3>1. Chain /\ state = past[round + 1]["SubBytes"]
      BY <2>1, <2>3 DEF IInv, Retraced
    <3>2. round \in 0..Nr - 1 /\ past[round]["AddRoundKey"] \in State
      BY <2>3, RoundsType DEF Step
    <3>3. Before(round, "AddRoundKey")
      BY <2>3 DEF Before
    <3>4. state = AddRoundKey(round, past[round]["AddRoundKey"], RoundKey)
      BY <3>1, <3>2, <3>3 DEF Chain, AddLink
    <3>5. s = past[round]["AddRoundKey"]
      BY <3>2, <3>4, AddRoundKeyUndone
    <3> QED BY <2>3, <3>1, <3>5, ChainKept
  <2>4. CASE round = 0 /\ Returns("InvCipher", s, "decrypted")
    <3>1. op = "InvCipher" /\ round < Nr /\ op' = "decrypted" /\ state' = s
          /\ UNCHANGED <<RoundKey, plain, past>>
      BY <2>4, RoundsType DEF Returns
    <3>2. state' = plain' /\ Chain'
      BY <2>3, <2>4, <3>1 DEF Chain
    <3> QED BY <3>1, <3>2 DEF IInv, RoundTrip
  <2>5. CASE round \in 1..Nr - 1 /\ InvCipherStep(s, round, "InvMixColumns")
    <3>1. op = "InvCipher" /\ round < Nr /\ state' = s /\ past' = past
          /\ step' = "InvMixColumns" /\ round' = round
      BY <2>5, RoundsType DEF InvCipherStep
    <3>2. state' = past'[round]["AddRoundKey"]
      BY <2>3, <3>1
    <3>3. Retraced'
      BY <2>5, <3>1, <3>2 DEF Retraced
    <3> QED BY <1>8, <2>5, <3>3
  <2> QED BY <1>11, <2>2, <2>4, <2>5 DEF InvCipherAddRoundKey
<1>12. CASE DoInvMixColumns
  <2>1. InvCipherStep(InvMixColumns(state), round - 1, "InvShiftRows")
    BY <1>12 DEF DoInvMixColumns
  <2>2. AllLinks /\ round \in 1..Nr - 1 /\ (Retraced' => IInv')
        /\ state = past[round]["AddRoundKey"]
    BY <1>12, <2>1, <1>8 DEF DoInvMixColumns, Retraced
  <2>3. round \in 1..Nr /\ round < Nr /\ past[round]["MixColumns"] \in State
    BY <2>2, RoundsType DEF Step
  <2>4. state' = past[round]["MixColumns"]
    BY <2>1, <2>2, <2>3, MixColumnsUndone DEF InvCipherStep, MixLink
  <2>5. /\ round' + 1 = round /\ round' < Nr /\ step' = "InvShiftRows" /\ past' = past
        /\ state' = past'[round' + 1][IF round' + 1 = Nr THEN "AddRoundKey" ELSE "MixColumns"]
    <3>1. (round - 1) + 1 = round /\ round - 1 < Nr /\ round # Nr
      BY <2>2, RoundsType
    <3>2. round' = round - 1 /\ step' = "InvShiftRows" /\ past' = past
      BY <2>1 DEF InvCipherStep
    <3> QED BY <2>4, <3>1, <3>2
  <2> QED BY <2>2, <2>5 DEF Retraced
<1>13. CASE UNCHANGED vars
  BY <1>13 DEF vars, cipherVars, IInv, Chain, Before, SubLink, ShiftLink, MixLink, AddLink, Forward,
               Retraced, RoundTrip
<1> QED BY <1>1, <1>3, <1>4, <1>5, <1>6, <1>7, <1>9, <1>10, <1>11, <1>12, <1>13 DEF Next

LEMMA Initially == Init => TypeOK /\ IInv
BY RoundsType, PlainAssumption, ContextAssumption DEF Init, TypeOK, IInv, RoundTrip, Step

\* The block is always a block, and no round key is looked for outside the
\* schedule (aes.c:237-247).
THEOREM TypeCorrect == Spec => []TypeOK
<1>1. TypeOK /\ IInv /\ [Next]_vars => (TypeOK /\ IInv)'
  BY TypeStep, IInvStep
<1> QED BY <1>1, Initially, PTL DEF Spec

\* InvCipher undoes Cipher, for every block, number of rounds and schedule
\* (aes.c:413-461).
THEOREM DecryptionRetraces == Spec => []RoundTrip
<1>1. TypeOK /\ IInv /\ [Next]_vars => (TypeOK /\ IInv)'
  BY TypeStep, IInvStep
<1>2. IInv => RoundTrip
  BY DEF IInv
<1> QED BY <1>1, <1>2, Initially, PTL DEF Spec
-----------------------------------------------------------------------------
(***************************************************************************)
(* What Cipher leaves is what the standard says: the blocks it went        *)
(* through are the states after the standard's rounds.                     *)
(***************************************************************************)
After == [r \in 0..Nr - 1 |-> past[r + 1]["SubBytes"]]

LEMMA EncryptedIsStandard ==
  ASSUME TypeOK, IInv, op = "encrypted"
  PROVE  IsCipher(plain, RoundKey, state, After)
<1> USE DEF TypeOK
<1>1. Chain /\ state = AddRoundKey(Nr, past[Nr]["AddRoundKey"], RoundKey)
  BY DEF IInv
<1>2. /\ \A r \in 1..Nr : SubLink(r) /\ ShiftLink(r) /\ (r < Nr => MixLink(r))
      /\ \A r \in 0..Nr - 1 : AddLink(r)
  BY <1>1, LinksDone
<1>3. /\ \A r \in 0..Nr - 1 : r \in 0..Nr /\ After[r] = past[r + 1]["SubBytes"]
      /\ \A r \in 1..Nr : r - 1 \in 0..Nr - 1 /\ r \in 0..Nr /\ (r - 1) + 1 = r
      /\ \A r \in 1..Nr - 1 : r \in 1..Nr /\ r < Nr /\ r # Nr /\ r \in 0..Nr - 1
      /\ 0 \in 0..Nr - 1 /\ Nr \in 1..Nr
  BY RoundsType DEF After
<1>4. \A r \in 0..Nr : past[r]["SubBytes"] \in State /\ past[r]["ShiftRows"] \in State
                       /\ past[r]["MixColumns"] \in State /\ past[r]["AddRoundKey"] \in State
  BY DEF Step
<1>5. ASSUME NEW r \in 1..Nr
      PROVE  past[r][IF r = Nr THEN "AddRoundKey" ELSE "MixColumns"]
               = StandardShiftRows(SubBytes(After[r - 1]))
  <2>1. past[r]["ShiftRows"] = SubBytes(After[r - 1])
    BY <1>2, <1>3 DEF SubLink
  <2>2. past[r][IF r = Nr THEN "AddRoundKey" ELSE "MixColumns"] = ShiftRows(past[r]["ShiftRows"])
    BY <1>2 DEF ShiftLink
  <2>3. ShiftRows(past[r]["ShiftRows"]) = StandardShiftRows(past[r]["ShiftRows"])
    BY <1>3, <1>4, StepsAreStandard
  <2> QED BY <2>1, <2>2, <2>3
<1>6. \A r \in 0..Nr - 1 :
        After[r] = StandardAddRoundKey(r, past[r]["AddRoundKey"], RoundKey)
  BY <1>2, <1>3, <1>4, StepsAreStandard DEF AddLink
<1>7. After[0] = StandardAddRoundKey(0, plain, RoundKey)
  BY <1>1, <1>3, <1>6 DEF Chain
<1>8. ASSUME NEW r \in 1..Nr - 1
      PROVE  After[r] = StandardAddRoundKey(
                          r, StandardMixColumns(StandardShiftRows(SubBytes(After[r - 1]))), RoundKey)
  <2>1. past[r]["MixColumns"] = StandardShiftRows(SubBytes(After[r - 1]))
    BY <1>3, <1>5
  <2>2. past[r]["AddRoundKey"] = StandardMixColumns(past[r]["MixColumns"])
    BY <1>2, <1>3, <1>4, StepsAreStandard DEF MixLink
  <2> QED BY <1>3, <1>6, <2>1, <2>2
<1>9. state = StandardAddRoundKey(Nr, StandardShiftRows(SubBytes(After[Nr - 1])), RoundKey)
  <2>1. past[Nr]["AddRoundKey"] = StandardShiftRows(SubBytes(After[Nr - 1]))
    BY <1>3, <1>5
  <2>2. state = StandardAddRoundKey(Nr, past[Nr]["AddRoundKey"], RoundKey)
    BY <1>1, <1>3, <1>4, StepsAreStandard
  <2> QED BY <2>1, <2>2
<1> QED BY <1>7, <1>8, <1>9 DEF IsCipher
-----------------------------------------------------------------------------
(***************************************************************************)
(* The standard's cipher and its inverse, as functions.  First recursion   *)
(* up to a number, by induction (over a set: the library's theorem about   *)
(* well-founded relations, applied to <).                                  *)
(***************************************************************************)
LEMMA InductionUpTo ==
  ASSUME NEW m \in Nat, NEW S, 0 \in S, \A n \in 0..m - 1 : n \in S => n + 1 \in S
  PROVE  \A n \in 0..m : n \in S
<1> DEFINE T == (0..m) \ S
           R == OpToRel(<, Nat)
<1> SUFFICES ASSUME T # {} PROVE FALSE
  OBVIOUS
<1>1. PICK x \in T : \A y \in T : ~ (<<y, x>> \in R)
  <2>1. IsWellFoundedOn(R, Nat)
    BY NatLessThanWellFounded DEF OpToRel
  <2>2. T \subseteq Nat
    OBVIOUS
  <2> HIDE DEF R, T
  <2> QED  BY <2>1, <2>2, WFMin
<1>2. x - 1 \in T /\ x - 1 \in Nat /\ x \in Nat
  OBVIOUS
<1>3. <<x - 1, x>> \in R
  BY <1>2 DEF OpToRel
<1> QED  BY <1>1, <1>2, <1>3

\* f starts with a, and g[k] takes f[k] to f[k + 1].
Follows(f, a, g, m) == f[0] = a /\ \A k \in 0..m - 1 : f[k + 1] = g[k][f[k]]

LEMMA RecursionExists ==
  ASSUME NEW m \in Nat, NEW S, NEW a \in S, NEW g \in [0..m - 1 -> [S -> S]]
  PROVE  \E f \in [0..m -> S] : Follows(f, a, g, m)
<1> DEFINE T == {n \in 0..m : \E f \in [0..n -> S] : Follows(f, a, g, n)}
<1>1. 0 \in T
  <2>1. [x \in 0..0 |-> a] \in [0..0 -> S] /\ Follows([x \in 0..0 |-> a], a, g, 0)
    BY DEF Follows
  <2>2. 0 \in 0..m
    OBVIOUS
  <2> QED BY <2>1, <2>2
<1>2. ASSUME NEW n \in 0..m - 1, n \in T PROVE n + 1 \in T
  <2>1. PICK f \in [0..n -> S] : Follows(f, a, g, n)
    BY <1>2
  <2> DEFINE h == [x \in 0..n + 1 |-> IF x = n + 1 THEN g[n][f[n]] ELSE f[x]]
  <2>2. g[n] \in [S -> S] /\ f[n] \in S
    OBVIOUS
  <2>3. h \in [0..n + 1 -> S]
    BY <2>2
  <2>4. h[0] = a
    BY <2>1 DEF Follows
  <2>5. ASSUME NEW k \in 0..n + 1 - 1 PROVE h[k + 1] = g[k][h[k]]
    <3>1. k \in 0..n /\ k + 1 \in 0..n + 1 /\ h[k] = f[k]
      OBVIOUS
    <3>2. CASE k = n
      BY <3>1, <3>2
    <3>3. CASE k # n
      <4>1. k \in 0..n - 1 /\ k + 1 # n + 1 /\ k + 1 \in 0..n
        BY <3>1, <3>3
      <4>2. f[k + 1] = g[k][f[k]]
        BY <2>1, <4>1 DEF Follows
      <4> QED BY <3>1, <4>1, <4>2
    <3> QED BY <3>2, <3>3
  <2>6. Follows(h, a, g, n + 1)
    <3> HIDE DEF h
    <3> QED BY <2>4, <2>5 DEF Follows
  <2>7. n + 1 \in 0..m
    OBVIOUS
  <2> QED BY <2>3, <2>6, <2>7
<1>3. m \in T
  <2>1. \A n \in 0..m : n \in T
    <3> HIDE DEF T
    <3> QED BY <1>1, <1>2, InductionUpTo
  <2> QED BY <2>1
<1> QED BY <1>3

LEMMA RecursionUnique ==
  ASSUME NEW m \in Nat, NEW f, NEW h, NEW a, NEW g, Follows(f, a, g, m), Follows(h, a, g, m)
  PROVE  f[m] = h[m]
<1> DEFINE T == {n \in 0..m : f[n] = h[n]}
<1>1. 0 \in T
  BY DEF Follows
<1>2. ASSUME NEW n \in 0..m - 1, n \in T PROVE n + 1 \in T
  BY <1>2 DEF Follows
<1>3. \A n \in 0..m : n \in T
  <2> HIDE DEF T
  <2> QED BY <1>1, <1>2, InductionUpTo
<1> QED BY <1>3

LEMMA StandardTypes ==
  \A s \in State, w \in Schedule, r \in 0..Nr :
    /\ StandardShiftRows(s) \in State /\ StandardInvShiftRows(s) \in State
    /\ StandardMixColumns(s) \in State /\ StandardInvMixColumns(s) \in State
    /\ StandardAddRoundKey(r, s, w) \in State
<1> TAKE s \in State, w \in Schedule, r \in 0..Nr
<1>1. AddRoundKey(r, s, w) \in State
  BY AddRoundKeyType
<1> QED BY <1>1, StepsAreStandard, ShiftRowsType, MixColumnsType

LEMMA StandardUndone ==
  \A s \in State, w \in Schedule, r \in 0..Nr :
    /\ StandardInvShiftRows(StandardShiftRows(s)) = s
    /\ StandardInvMixColumns(StandardMixColumns(s)) = s
    /\ StandardAddRoundKey(r, StandardAddRoundKey(r, s, w), w) = s
<1> TAKE s \in State, w \in Schedule, r \in 0..Nr
<1>1. StandardInvShiftRows(StandardShiftRows(s)) = s
  BY StepsAreStandard, ShiftRowsType, ShiftRowsUndone
<1>2. StandardInvMixColumns(StandardMixColumns(s)) = s
  BY StepsAreStandard, MixColumnsType, MixColumnsUndone
<1>3. StandardAddRoundKey(r, StandardAddRoundKey(r, s, w), w) = s
  <2>1. AddRoundKey(r, s, w) \in State /\ AddRoundKey(r, AddRoundKey(r, s, w), w) = s
    BY AddRoundKeyType, AddRoundKeyUndone
  <2> QED BY <2>1, StepsAreStandard
<1> QED BY <1>1, <1>2, <1>3

\* The rounds of Cipher before the last, and those of InvCipher in the order
\* they are done.
Rounds(w) ==
  [k \in 0..Nr - 1 - 1 |-> [s \in State |->
     StandardAddRoundKey(k + 1, StandardMixColumns(StandardShiftRows(SubBytes(s))), w)]]
InvRounds(w) ==
  [k \in 0..Nr - 1 - 1 |-> [s \in State |->
     StandardInvMixColumns(StandardAddRoundKey(
       Nr - 1 - k, InvSubBytes(StandardInvShiftRows(s)), w))]]

LEMMA RoundsTypes ==
  ASSUME NEW w \in Schedule
  PROVE  /\ Rounds(w) \in [0..Nr - 1 - 1 -> [State -> State]]
         /\ InvRounds(w) \in [0..Nr - 1 - 1 -> [State -> State]]
<1>1. \A k \in 0..Nr - 1 - 1 : k + 1 \in 0..Nr /\ Nr - 1 - k \in 0..Nr
  BY RoundsType
<1>2. ASSUME NEW k \in 0..Nr - 1 - 1, NEW s \in State
      PROVE  StandardAddRoundKey(k + 1, StandardMixColumns(StandardShiftRows(SubBytes(s))), w)
               \in State
  <2>1. StandardShiftRows(SubBytes(s)) \in State
    BY SubBytesType, StandardTypes, RoundsType
  <2>2. StandardMixColumns(StandardShiftRows(SubBytes(s))) \in State
    BY <2>1, StandardTypes, RoundsType
  <2> QED BY <1>1, <2>2, StandardTypes
<1>3. ASSUME NEW k \in 0..Nr - 1 - 1, NEW s \in State
      PROVE  StandardInvMixColumns(StandardAddRoundKey(
               Nr - 1 - k, InvSubBytes(StandardInvShiftRows(s)), w)) \in State
  <2>1. InvSubBytes(StandardInvShiftRows(s)) \in State
    BY SubBytesType, StandardTypes, RoundsType
  <2>2. StandardAddRoundKey(Nr - 1 - k, InvSubBytes(StandardInvShiftRows(s)), w) \in State
    BY <1>1, <2>1, StandardTypes
  <2> QED BY <2>2, StandardTypes, RoundsType
<1> QED BY <1>2, <1>3 DEF Rounds, InvRounds

\* IsCipher and IsInvCipher as recursions.
LEMMA CipherFollows ==
  ASSUME NEW w \in Schedule, NEW b \in State, NEW c, NEW after \in [0..Nr - 1 -> State]
  PROVE  IsCipher(b, w, c, after) <=>
           /\ Follows(after, StandardAddRoundKey(0, b, w), Rounds(w), Nr - 1)
           /\ c = StandardAddRoundKey(Nr, StandardShiftRows(SubBytes(after[Nr - 1])), w)
<1>1. /\ \A r \in 1..Nr - 1 : r - 1 \in 0..Nr - 1 - 1 /\ (r - 1) + 1 = r
      /\ \A k \in 0..Nr - 1 - 1 : k + 1 \in 1..Nr - 1 /\ (k + 1) - 1 = k /\ k \in 0..Nr - 1
  BY RoundsType
<1>2. \A k \in 0..Nr - 1 - 1 :
        Rounds(w)[k][after[k]]
          = StandardAddRoundKey(
              k + 1, StandardMixColumns(StandardShiftRows(SubBytes(after[k]))), w)
  BY <1>1 DEF Rounds
<1> QED BY <1>1, <1>2 DEF IsCipher, Follows

LEMMA InvCipherFollows ==
  ASSUME NEW w \in Schedule, NEW c \in State, NEW b, NEW before \in [1..Nr -> State]
  PROVE  IsInvCipher(c, w, b, before) <=>
           /\ Follows([k \in 0..Nr - 1 |-> before[Nr - k]], StandardAddRoundKey(Nr, c, w),
                      InvRounds(w), Nr - 1)
           /\ b = StandardAddRoundKey(0, InvSubBytes(StandardInvShiftRows(before[1])), w)
<1> DEFINE f == [k \in 0..Nr - 1 |-> before[Nr - k]]
           Undone(r, s) == StandardInvMixColumns(StandardAddRoundKey(
                              r, InvSubBytes(StandardInvShiftRows(s)), w))
<1>1. /\ \A r \in 1..Nr - 1 : /\ Nr - 1 - r \in 0..Nr - 1 - 1 /\ Nr - 1 - (Nr - 1 - r) = r
                              /\ Nr - (Nr - 1 - r) = r + 1 /\ Nr - ((Nr - 1 - r) + 1) = r
      /\ \A k \in 0..Nr - 1 - 1 : /\ Nr - 1 - k \in 1..Nr - 1 /\ (Nr - 1 - k) + 1 = Nr - k
                                  /\ Nr - (k + 1) = Nr - 1 - k
                                  /\ k \in 0..Nr - 1 /\ k + 1 \in 0..Nr - 1
      /\ \A k \in 0..Nr - 1 : Nr - k \in 1..Nr
      /\ 0 \in 0..Nr - 1 /\ Nr - 0 = Nr
  BY RoundsType
<1>2. \A k \in 0..Nr - 1 : f[k] = before[Nr - k] /\ f[k] \in State
  BY <1>1
<1>3. \A k \in 0..Nr - 1 - 1 : InvRounds(w)[k][f[k]] = Undone(Nr - 1 - k, f[k])
  <2> TAKE k \in 0..Nr - 1 - 1
  <2>1. f[k] \in State
    BY <1>1, <1>2
  <2> HIDE DEF f
  <2> QED BY <2>1 DEF InvRounds
<1> HIDE DEF f, Undone
<1>4. (\A k \in 0..Nr - 1 - 1 : f[k + 1] = InvRounds(w)[k][f[k]])
        <=> (\A r \in 1..Nr - 1 : before[r] = Undone(r, before[r + 1]))
  <2>1. ASSUME NEW k \in 0..Nr - 1 - 1
        PROVE  f[k + 1] = before[Nr - 1 - k]
               /\ InvRounds(w)[k][f[k]] = Undone(Nr - 1 - k, before[(Nr - 1 - k) + 1])
    <3>1. /\ k \in 0..Nr - 1 /\ k + 1 \in 0..Nr - 1 /\ Nr - (k + 1) = Nr - 1 - k
          /\ (Nr - 1 - k) + 1 = Nr - k
      BY <1>1
    <3>2. f[k] = before[Nr - k] /\ f[k + 1] = before[Nr - (k + 1)]
      BY <1>2, <3>1
    <3>3. InvRounds(w)[k][f[k]] = Undone(Nr - 1 - k, f[k])
      BY <1>3
    <3> QED BY <3>1, <3>2, <3>3
  <2>2. ASSUME \A k \in 0..Nr - 1 - 1 : f[k + 1] = InvRounds(w)[k][f[k]],
               NEW r \in 1..Nr - 1
        PROVE  before[r] = Undone(r, before[r + 1])
    <3>1. PICK k \in 0..Nr - 1 - 1 : Nr - 1 - k = r
      BY <1>1
    <3> QED BY <2>1, <2>2, <3>1
  <2>3. ASSUME \A r \in 1..Nr - 1 : before[r] = Undone(r, before[r + 1]),
               NEW k \in 0..Nr - 1 - 1
        PROVE  f[k + 1] = InvRounds(w)[k][f[k]]
    BY <1>1, <2>1, <2>3
  <2> QED BY <2>2, <2>3
<1>5. f[0] = before[Nr]
  BY <1>1, <1>2
<1>6. IsInvCipher(c, w, b, before) <=>
        /\ before[Nr] = StandardAddRoundKey(Nr, c, w)
        /\ \A r \in 1..Nr - 1 : before[r] = Undone(r, before[r + 1])
        /\ b = StandardAddRoundKey(0, InvSubBytes(StandardInvShiftRows(before[1])), w)
  BY DEF IsInvCipher, Undone
<1>7. Follows(f, StandardAddRoundKey(Nr, c, w), InvRounds(w), Nr - 1) <=>
        /\ before[Nr] = StandardAddRoundKey(Nr, c, w)
        /\ \A r \in 1..Nr - 1 : before[r] = Undone(r, before[r + 1])
  BY <1>4, <1>5 DEF Follows
<1> QED BY <1>6, <1>7 DEF f

\* Every block has one cipher text, and every cipher text one block.
Encrypts(b, w, c) == \E after \in [0..Nr - 1 -> State] : IsCipher(b, w, c, after)
Decrypts(c, w, b) == \E before \in [1..Nr -> State] : IsInvCipher(c, w, b, before)

LEMMA EncryptsOnce ==
  ASSUME NEW w \in Schedule, NEW b \in State
  PROVE  /\ \E c \in State : Encrypts(b, w, c)
         /\ \A c, d : Encrypts(b, w, c) /\ Encrypts(b, w, d) => c = d
<1> DEFINE a == StandardAddRoundKey(0, b, w)
           Last(s) == StandardAddRoundKey(Nr, StandardShiftRows(SubBytes(s)), w)
<1>1. Nr - 1 \in Nat /\ Nr - 1 \in 0..Nr - 1
  BY RoundsType
<1>2. a \in State /\ Rounds(w) \in [0..Nr - 1 - 1 -> [State -> State]]
  BY RoundsType, RoundsTypes, StandardTypes
<1>3. \A s \in State : Last(s) \in State
  <2> TAKE s \in State
  <2>1. StandardShiftRows(SubBytes(s)) \in State
    BY SubBytesType, StandardTypes, RoundsType
  <2> QED BY <2>1, StandardTypes, RoundsType
<1> HIDE DEF a, Last
<1>4. PICK f \in [0..Nr - 1 -> State] : Follows(f, a, Rounds(w), Nr - 1)
  BY <1>1, <1>2, RecursionExists
<1>5. IsCipher(b, w, Last(f[Nr - 1]), f)
  BY <1>4, CipherFollows DEF a, Last
<1>6. Last(f[Nr - 1]) \in State
  BY <1>1, <1>3
<1>7. ASSUME NEW c, NEW d, Encrypts(b, w, c), Encrypts(b, w, d) PROVE c = d
  <2>1. PICK g \in [0..Nr - 1 -> State] : IsCipher(b, w, c, g)
    BY <1>7 DEF Encrypts
  <2>2. PICK h \in [0..Nr - 1 -> State] : IsCipher(b, w, d, h)
    BY <1>7 DEF Encrypts
  <2>3. /\ Follows(g, a, Rounds(w), Nr - 1) /\ c = Last(g[Nr - 1])
        /\ Follows(h, a, Rounds(w), Nr - 1) /\ d = Last(h[Nr - 1])
    BY <2>1, <2>2, CipherFollows DEF a, Last
  <2>4. g[Nr - 1] = h[Nr - 1]
    BY <1>1, <2>3, RecursionUnique
  <2> QED BY <2>3, <2>4
<1>8. Encrypts(b, w, Last(f[Nr - 1]))
  BY <1>5 DEF Encrypts
<1> QED BY <1>6, <1>7, <1>8

LEMMA DecryptsOnce ==
  ASSUME NEW w \in Schedule, NEW c \in State
  PROVE  /\ \E b \in State : Decrypts(c, w, b)
         /\ \A b, d : Decrypts(c, w, b) /\ Decrypts(c, w, d) => b = d
<1> DEFINE a == StandardAddRoundKey(Nr, c, w)
           Last(s) == StandardAddRoundKey(0, InvSubBytes(StandardInvShiftRows(s)), w)
           Turned(g) == [k \in 0..Nr - 1 |-> g[Nr - k]]
<1>1. Nr - 1 \in Nat /\ Nr - 1 \in 0..Nr - 1 /\ 1 \in 1..Nr /\ Nr - (Nr - 1) = 1
  BY RoundsType
<1>2. a \in State /\ InvRounds(w) \in [0..Nr - 1 - 1 -> [State -> State]]
  BY RoundsType, RoundsTypes, StandardTypes
<1>3. \A s \in State : Last(s) \in State
  <2> TAKE s \in State
  <2>1. InvSubBytes(StandardInvShiftRows(s)) \in State
    BY SubBytesType, StandardTypes, RoundsType
  <2> QED BY <2>1, StandardTypes, RoundsType
<1>4. \A g : Turned(g)[Nr - 1] = g[1]
  BY <1>1
<1> HIDE DEF a, Last
<1>5. PICK f \in [0..Nr - 1 -> State] : Follows(f, a, InvRounds(w), Nr - 1)
  BY <1>1, <1>2, RecursionExists
<1> DEFINE before == [r \in 1..Nr |-> f[Nr - r]]
<1>6. before \in [1..Nr -> State] /\ Turned(before) = f
  <2>1. /\ \A r \in 1..Nr : Nr - r \in 0..Nr - 1
        /\ \A k \in 0..Nr - 1 : Nr - k \in 1..Nr /\ Nr - (Nr - k) = k
    BY RoundsType
  <2> QED BY <2>1
<1> HIDE DEF before
<1>7. IsInvCipher(c, w, Last(before[1]), before)
  BY <1>5, <1>6, InvCipherFollows DEF a, Last
<1>8. Last(before[1]) \in State /\ Decrypts(c, w, Last(before[1]))
  BY <1>1, <1>3, <1>6, <1>7 DEF Decrypts
<1>9. ASSUME NEW b, NEW d, Decrypts(c, w, b), Decrypts(c, w, d) PROVE b = d
  <2>1. PICK g \in [1..Nr -> State] : IsInvCipher(c, w, b, g)
    BY <1>9 DEF Decrypts
  <2>2. PICK h \in [1..Nr -> State] : IsInvCipher(c, w, d, h)
    BY <1>9 DEF Decrypts
  <2>3. /\ Follows(Turned(g), a, InvRounds(w), Nr - 1) /\ b = Last(g[1])
        /\ Follows(Turned(h), a, InvRounds(w), Nr - 1) /\ d = Last(h[1])
    BY <2>1, <2>2, InvCipherFollows DEF a, Last
  <2> HIDE DEF Turned
  <2>4. Turned(g)[Nr - 1] = Turned(h)[Nr - 1]
    BY <1>1, <2>3, RecursionUnique
  <2> QED BY <1>4, <2>3, <2>4
<1> QED BY <1>8, <1>9

\* Section 5.3 undoes section 5.1: the states are met in the reverse order.
LEMMA StandardInverse ==
  ASSUME NEW w \in Schedule, NEW b \in State, NEW c, Encrypts(b, w, c)
  PROVE  Decrypts(c, w, b)
<1>1. PICK after \in [0..Nr - 1 -> State] : IsCipher(b, w, c, after)
  BY DEF Encrypts
<1> DEFINE before == [r \in 1..Nr |-> StandardShiftRows(SubBytes(after[r - 1]))]
<1>2. /\ \A r \in 1..Nr : r - 1 \in 0..Nr - 1
      /\ \A r \in 1..Nr - 1 : /\ r \in 1..Nr /\ r \in 0..Nr /\ r + 1 \in 1..Nr
                              /\ (r + 1) - 1 = r /\ r \in 0..Nr - 1
      /\ 0 \in 0..Nr /\ Nr \in 0..Nr /\ Nr \in 1..Nr /\ 1 \in 1..Nr /\ 1 - 1 = 0
      /\ 0 \in 0..Nr - 1 /\ Nr - 1 \in 0..Nr - 1
  BY RoundsType
<1>3. \A r \in 0..Nr - 1 : SubBytes(after[r]) \in State /\ StandardShiftRows(SubBytes(after[r])) \in State
  BY <1>2, SubBytesType, StandardTypes
<1>4. \A r \in 1..Nr : before[r] = StandardShiftRows(SubBytes(after[r - 1])) /\ before[r] \in State
  BY <1>2, <1>3
<1>5. before \in [1..Nr -> State]
  BY <1>2, <1>3
<1> HIDE DEF before
\* The inverse of a round's first two steps.
<1>6. \A r \in 1..Nr : InvSubBytes(StandardInvShiftRows(before[r])) = after[r - 1]
  BY <1>2, <1>3, <1>4, StandardUndone, SubBytesUndone
<1>7. before[Nr] = StandardAddRoundKey(Nr, c, w)
  BY <1>1, <1>2, <1>3, <1>4, StandardUndone DEF IsCipher
<1>8. ASSUME NEW r \in 1..Nr - 1
      PROVE  before[r] = StandardInvMixColumns(StandardAddRoundKey(
                           r, InvSubBytes(StandardInvShiftRows(before[r + 1])), w))
  <2>1. after[r] = StandardAddRoundKey(r, StandardMixColumns(before[r]), w)
    BY <1>1, <1>2, <1>4 DEF IsCipher
  <2>2. InvSubBytes(StandardInvShiftRows(before[r + 1])) = after[r]
    BY <1>2, <1>6
  <2>3. before[r] \in State /\ StandardMixColumns(before[r]) \in State
    BY <1>2, <1>4, StandardTypes
  <2>4. StandardAddRoundKey(r, after[r], w) = StandardMixColumns(before[r])
    BY <1>2, <2>1, <2>3, StandardUndone
  <2> QED BY <1>2, <2>2, <2>3, <2>4, StandardUndone
<1>9. b = StandardAddRoundKey(0, InvSubBytes(StandardInvShiftRows(before[1])), w)
  <2>1. after[0] = StandardAddRoundKey(0, b, w)
    BY <1>1 DEF IsCipher
  <2> QED BY <1>2, <1>6, <2>1, StandardUndone
<1> QED BY <1>5, <1>7, <1>8, <1>9 DEF Decrypts, IsInvCipher

\* Every schedule makes the standard's cipher a function of the block, and its
\* inverse cipher one that undoes it: what the modes of aes.c:492-572 take the
\* block cipher to be.
THEOREM BlockCipherExists ==
  \A w \in Schedule : \E enc, dec \in [State -> State] : \A b \in State :
    /\ \A c \in State : Encrypts(b, w, c) <=> c = enc[b]
    /\ \A c \in State : Decrypts(b, w, c) <=> c = dec[b]
    /\ dec[enc[b]] = b
<1> TAKE w \in Schedule
<1> DEFINE enc == [b \in State |-> CHOOSE c \in State : Encrypts(b, w, c)]
           dec == [b \in State |-> CHOOSE c \in State : Decrypts(b, w, c)]
<1>1. ASSUME NEW b \in State
      PROVE  enc[b] \in State /\ \A c \in State : Encrypts(b, w, c) <=> c = enc[b]
  BY EncryptsOnce
<1>2. ASSUME NEW b \in State
      PROVE  dec[b] \in State /\ \A c \in State : Decrypts(b, w, c) <=> c = dec[b]
  BY DecryptsOnce
<1>3. enc \in [State -> State] /\ dec \in [State -> State]
  BY <1>1, <1>2
<1> HIDE DEF enc, dec
<1>4. ASSUME NEW b \in State PROVE dec[enc[b]] = b
  <2>1. enc[b] \in State /\ Encrypts(b, w, enc[b])
    BY <1>1
  <2>2. Decrypts(enc[b], w, b)
    BY <2>1, StandardInverse
  <2> QED BY <1>2, <2>1, <2>2
<1> QED BY <1>1, <1>2, <1>3, <1>4
=============================================================================
