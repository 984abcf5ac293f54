--------------------------- MODULE AesKeyExpansion ---------------------------
(***************************************************************************)
(* KeyExpansion (aes.c:146-217), one action per word of RoundKey.  The     *)
(* context it writes may be fresh memory or hold the schedule of another   *)
(* key: each word is computed from two words of the same array.            *)
(***************************************************************************)
EXTENDS AesContext

CONSTANTS
  Nk,            \* words of a key
  keyExpSize,    \* bytes of RoundKey: AES_keyExpSize
  Rcon,          \* the table
  Keys           \* the keys the program uses

\* The three builds: aes.c and aes.h choose their sizes each for itself.
ASSUME BuildAssumption ==
  <<Nk, Nr, keyExpSize>> \in {<<4, 10, 176>>, <<6, 12, 208>>, <<8, 14, 240>>}
\* Rcon[i] contains x to the power i - 1.
ASSUME RconAssumption ==
  /\ Rcon \in [0..10 -> Byte] /\ Rcon[1] = {0}
  /\ \A n \in 1..9 : Rcon[n + 1] = xtime(Rcon[n])
ASSUME KeysAssumption == Keys \subseteq [0..Nk - 1 -> Word]

AES256 == Nk = 8

VARIABLES
  Key,           \* the argument
  i,             \* words of RoundKey that are done
  expanding,     \* a call is in progress
  used           \* history: the elements of Rcon it has read

keyVars == <<Key, i, expanding, used>>
contextVars == <<RoundKey, keyVars>>

XorWord(v, w) == [j \in Four |-> Xor(v[j], w[j])]
RotWord(w) == [j \in Four |-> w[(j + 1) % 4]]
SubWord(w) == [j \in Four |-> sbox[w[j]]]
AddRcon(w, n) == [w EXCEPT ![0] = Xor(@, Rcon[n])]

AES_init_ctx(k) ==
  /\ ~expanding /\ expanding' = TRUE
  /\ Key' = k /\ i' = 0 /\ used' = {}
  /\ UNCHANGED RoundKey

\* The first round key is the key itself.
CopyWord ==
  /\ expanding /\ i < Nk
  /\ RoundKey' = [RoundKey EXCEPT ![i] = Key[i]]
  /\ i' = i + 1
  /\ UNCHANGED <<Key, expanding, used>>

\* Mutants: one word too many; no second SubWord; Rcon counted from 0.
ExpandWordTooFar ==
  /\ expanding /\ i \in Nk..Words
  /\ RoundKey' = [RoundKey EXCEPT ![i] = XorWord(RoundKey[i - Nk], RoundKey[i - 1])]
  /\ i' = i + 1
  /\ UNCHANGED <<Key, expanding, used>>
ExpandWordOneSub ==
  /\ expanding /\ i \in Nk..Words - 1
  /\ LET last == RoundKey[i - 1]
         tempa == IF i % Nk = 0 THEN AddRcon(SubWord(RotWord(last)), i \div Nk) ELSE last
     IN  RoundKey' = [RoundKey EXCEPT ![i] = XorWord(RoundKey[i - Nk], tempa)]
  /\ used' = IF i % Nk = 0 THEN used \cup {i \div Nk} ELSE used
  /\ i' = i + 1
  /\ UNCHANGED <<Key, expanding>>
ExpandWordRcon0 ==
  /\ expanding /\ i \in Nk..Words - 1
  /\ LET last == RoundKey[i - 1]
         turned == IF i % Nk = 0 THEN AddRcon(SubWord(RotWord(last)), i \div Nk - 1) ELSE last
         tempa == IF AES256 /\ i % Nk = 4 THEN SubWord(turned) ELSE turned
     IN  RoundKey' = [RoundKey EXCEPT ![i] = XorWord(RoundKey[i - Nk], tempa)]
  /\ used' = IF i % Nk = 0 THEN used \cup {i \div Nk - 1} ELSE used
  /\ i' = i + 1
  /\ UNCHANGED <<Key, expanding>>

\* The word before turns and is substituted at each multiple of Nk, and
\* with a 256 bit key it is substituted once more in between.
ExpandWord ==
  /\ expanding /\ i \in Nk..Words - 1
  /\ LET last == RoundKey[i - 1]
         turned == IF i % Nk = 0 THEN AddRcon(SubWord(RotWord(last)), i \div Nk) ELSE last
         tempa == IF AES256 /\ i % Nk = 4 THEN SubWord(turned) ELSE turned
     IN  RoundKey' = [RoundKey EXCEPT ![i] = XorWord(RoundKey[i - Nk], tempa)]
  /\ used' = IF i % Nk = 0 THEN used \cup {i \div Nk} ELSE used
  /\ i' = i + 1
  /\ UNCHANGED <<Key, expanding>>

KeyExpansionReturn ==
  /\ expanding /\ i = Words
  /\ expanding' = FALSE
  /\ UNCHANGED <<RoundKey, Key, i, used>>

\* There is a schedule in the context.
Expanded == ~expanding /\ i = Words

KeyInit ==
  /\ RoundKey \in RoundKeys
  /\ Key \in Keys /\ i = 0 /\ expanding = FALSE /\ used = {}

KeyNext ==
  \/ \E k \in Keys : AES_init_ctx(k)
  \/ CopyWord \/ ExpandWord \/ KeyExpansionReturn
-----------------------------------------------------------------------------
(***************************************************************************)
(* Properties.                                                             *)
(***************************************************************************)
\* Every word is written inside the array of aes.h.
KeyTypeOK ==
  /\ RoundKey \in Schedule /\ Key \in Keys
  /\ expanding \in BOOLEAN
  /\ i \in 0..Words /\ 4 * i <= keyExpSize
  /\ used \subseteq DOMAIN Rcon
  /\ ~expanding => i \in {0, Words}

\* The schedule of FIPS-197, section 5.2, as a relation between its words.
Standard(k, w) ==
  IF k < Nk THEN w[k] = Key[k]
  ELSE LET temp == CASE k % Nk = 0 -> AddRcon(SubWord(RotWord(w[k - 1])), k \div Nk)
                     [] Nk > 6 /\ k % Nk = 4 -> SubWord(w[k - 1])
                     [] OTHER -> w[k - 1]
       IN  w[k] = XorWord(w[k - Nk], temp)

\* Whatever the context held before, the words that are done follow from the
\* key alone (aes.c:146-217).
Scheduled == \A k \in 0..i - 1 : Standard(k, RoundKey)

\* What aes.c:128-130 says of Rcon: up to Rcon[10] is used for 128 bit keys,
\* up to 8 and up to 7 for the others, all of them, and never Rcon[0].
LastRcon == CASE Nk = 4 -> 10 [] Nk = 6 -> 8 [] Nk = 8 -> 7
RconUse ==
  /\ used \subseteq 1..LastRcon
  /\ Expanded => used = 1..LastRcon
=============================================================================
