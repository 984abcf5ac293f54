---------------------------- MODULE AesBenchmark ----------------------------
(***************************************************************************)
(* benchmark.c, the program the repository measures the compartment with,  *)
(* linked with the stub: six tests an iteration, each a context set up, a  *)
(* buffer encrypted or decrypted in place and compared with the answer.    *)
(*                                                                         *)
(* The stub, the socket and the compartment are AesComp; this module says  *)
(* which calls the program makes, and in which order.  The operands of +   *)
(* are evaluated in any order, so the tests of an iteration are, too.      *)
(***************************************************************************)
EXTENDS AesComp

CONSTANTS
  BENCH_ITERATIONS,          \* bound: 10000 in the code
  BenchKey, CbcIv, CtrIv,    \* key[] and iv[] of the tests
  EcbIn, EcbOut,             \* in[] and out[] of test_encrypt_ecb
  CbcIn, CbcOut,             \* of test_encrypt_cbc
  CtrIn, CtrOut              \* of test_xcrypt_ctr

Vector(mode, iv, in, out) == [mode |-> mode, iv |-> iv, in |-> in, out |-> out]

test_encrypt_ecb == Vector("ECB_ENCRYPT", AnyIv, EcbIn, EcbOut)
test_decrypt_ecb == Vector("ECB_DECRYPT", AnyIv, EcbOut, EcbIn)
test_encrypt_cbc == Vector("CBC_ENCRYPT", CbcIv, CbcIn, CbcOut)
test_decrypt_cbc == Vector("CBC_DECRYPT", CbcIv, CbcOut, CbcIn)
test_xcrypt_ctr == Vector("CTR_XCRYPT", CtrIv, CtrIn, CtrOut)
test_encrypt_ctr == test_xcrypt_ctr
test_decrypt_ctr == test_xcrypt_ctr

TestFunction == [
  encrypt_cbc |-> test_encrypt_cbc, decrypt_cbc |-> test_decrypt_cbc,
  encrypt_ctr |-> test_encrypt_ctr, decrypt_ctr |-> test_decrypt_ctr,
  decrypt_ecb |-> test_decrypt_ecb, encrypt_ecb |-> test_encrypt_ecb]
Test == DOMAIN TestFunction

ASSUME BenchAssumption ==
  /\ BENCH_ITERATIONS \in Nat \ {0}
  /\ BenchKey \in Key /\ {CbcIv, CtrIv} \subseteq Iv
  /\ {EcbIn, EcbOut, CbcIn, CbcOut, CtrIn, CtrOut} \subseteq Payload
  /\ Len(EcbIn) = BLOCKLEN /\ Len(EcbOut) = BLOCKLEN
  /\ Len(CbcIn) % BLOCKLEN = 0 /\ Len(CbcOut) % BLOCKLEN = 0
\* The answers are those of the library, and never what is in the buffer
\* already; ECB does not look at the IV.
ASSUME VectorAssumption ==
  \A t \in Test, iv \in Iv :
    LET f == TestFunction[t] IN
      /\ f.in # f.out
      /\ f.mode \in EcbMode \/ iv = f.iv =>
           CryptBuf(f.mode, [RoundKey |-> KeyExpansion(BenchKey), Iv |-> iv], f.in) = f.out

InMain == -1
VARIABLES
  i,        \* main: the iteration
  todo,     \* tests of it that were not evaluated yet
  test,     \* the test in progress
  stage,    \* its next call: "init" or "crypt", or "none" between two tests
  exit,     \* the sum so far
  result    \* what main returned, or InMain

benchVars == <<i, todo, test, stage, exit, result>>

\* A test's first call.  Its struct AES_ctx is on the stack, where another
\* test's was.
InitCall(t) ==
  /\ stage = "none" /\ result = InMain /\ t \in todo
  /\ IF TestFunction[t].mode \in EcbMode
       THEN AES_init_ctx
       ELSE AES_init_ctx_iv /\ call'.iv = TestFunction[t].iv
  /\ call'.key = BenchKey
  /\ todo' = todo \ {t} /\ test' = t /\ stage' = "init"
  /\ UNCHANGED <<i, exit, result>>

\* Its second, when the first has returned.
CryptCall ==
  /\ stage = "init"
  /\ AES_ECB \/ AES_CBC \/ AES_CTR
  /\ call'.mode = TestFunction[test].mode /\ call'.buf = TestFunction[test].in
  /\ stage' = "crypt"
  /\ UNCHANGED <<i, todo, test, exit, result>>

\* A call returns; after the second, memcmp says what the test returns.
CallReturns ==
  /\ ClientReturn
  /\ IF stage = "crypt"
       THEN /\ stage' = "none"
            /\ exit' = IF buf = TestFunction[test].out THEN exit ELSE exit + 1
       ELSE UNCHANGED <<stage, exit>>
  /\ UNCHANGED <<i, todo, test, result>>

\* Mutants: the sum is not looked at; i is not incremented.
EndOfIterationUnchecked ==
  /\ cli = "idle" /\ stage = "none" /\ todo = {} /\ result = InMain
  /\ exit' = 0
  /\ \/ i + 1 < BENCH_ITERATIONS /\ i' = i + 1 /\ todo' = Test /\ UNCHANGED result
     \/ i + 1 = BENCH_ITERATIONS /\ result' = 0 /\ UNCHANGED <<i, todo>>
  /\ UNCHANGED <<test, stage, vars>>
EndOfIterationForEver ==
  /\ cli = "idle" /\ stage = "none" /\ todo = {} /\ result = InMain
  /\ \/ exit > 0 /\ result' = exit /\ UNCHANGED <<i, todo, exit>>
     \/ exit = 0 /\ todo' = Test /\ UNCHANGED <<i, exit, result>>
  /\ UNCHANGED <<test, stage, vars>>

\* The end of the loop's body: an error ends main, as does the last iteration.
EndOfIteration ==
  /\ cli = "idle" /\ stage = "none" /\ todo = {} /\ result = InMain
  /\ \/ exit > 0 /\ result' = exit /\ UNCHANGED <<i, todo, exit>>
     \/ exit = 0 /\ i + 1 < BENCH_ITERATIONS
        /\ i' = i + 1 /\ todo' = Test /\ UNCHANGED <<exit, result>>
     \/ exit = 0 /\ i + 1 = BENCH_ITERATIONS /\ result' = 0 /\ UNCHANGED <<i, todo, exit>>
  /\ UNCHANGED <<test, stage, vars>>

\* main has returned: exit() runs the stub's destructor.
Exit == result # InMain /\ destroy /\ UNCHANGED benchVars

BenchInit ==
  /\ Init
  /\ i = 0 /\ todo = Test /\ test \in Test /\ stage = "none" /\ exit = 0 /\ result = InMain

InStub == ClientWriteMsg \/ ClientWriteBuf \/ ClientReadMsg \/ ClientReadBuf
Program == (\E t \in Test : InitCall(t)) \/ CryptCall \/ CallReturns \/ EndOfIteration \/ Exit
Others == InStub \/ ServerStep \/ ClientCrash \/ ServerCrash \/ Finished

BenchNext == Program \/ (Others /\ UNCHANGED benchVars)

allVars == <<vars, benchVars>>
BenchSpec == BenchInit /\ [][BenchNext]_allVars

\* The operating system runs both processes, and main goes on by itself.
BenchFairness ==
  /\ WF_allVars(Program \/ (InStub /\ UNCHANGED benchVars))
  /\ WF_allVars(ServerStep /\ UNCHANGED benchVars)
FairBenchSpec == BenchSpec /\ BenchFairness
-----------------------------------------------------------------------------
(***************************************************************************)
(* Properties.                                                             *)
(***************************************************************************)
\* The benchmark is AesComp's program: it calls the API as AesComp lets any
\* program call it, so what holds of every program holds of it.
IsProgram == Spec

\* An error is the compartment's death and never the stub's or the
\* compartment's doing: while the compartment lives every answer is right,
\* also with contexts on a used stack and an IV that AES_init_ctx makes up
\* (benchmark.c:49-56).
ErrorMeansDeath == exit > 0 => sEnd # "open"

\* A compartment that dies before the last answer was sent is never passed
\* over: main does not return 0 after it (benchmark.c:53-65).
AnswersDue ==
  \/ todo # {} \/ stage = "init" \/ i + 1 < BENCH_ITERATIONS
  \/ stage = "crypt" /\ cli \in {"writeMsg", "writeBuf", "readMsg"} /\ Len(s2c) <= Len(buf)
  \/ stage = "crypt" /\ cli = "readBuf" /\ Len(s2c) < Len(buf)
DeathNoticed == [](result = InMain /\ sEnd # "open" /\ AnswersDue => [](result # 0))

\* The benchmark ends, whether the compartment lives or dies, and the
\* compartment with it, or it spins as AesComp says.
BenchmarkEnds == <>(ClientGone /\ (ServerGone \/ Spinning))
=============================================================================
