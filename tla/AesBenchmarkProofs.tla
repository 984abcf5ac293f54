------------------------- MODULE AesBenchmarkProofs -------------------------
(***************************************************************************)
(* Proofs about AesBenchmark: that it is one of AesComp's programs, so that*)
(* every theorem about AesComp holds of it, and, from one of them, that an *)
(* error it reports is the compartment's death.                            *)
(***************************************************************************)
EXTENDS AesBenchmark, AesCompProofs, FiniteSetTheorems

Function == TestFunction[test]

\* A context that gives the answer of a test.
ReadyCtx(f, c) ==
  /\ c.RoundKey = KeyExpansion(BenchKey)
  /\ f.mode \in EcbMode \/ c.Iv = f.iv

(***************************************************************************)
(* The inductive invariant: which call a test is in, and with what.        *)
(***************************************************************************)
InitStage ==
  /\ InCall =>
       /\ call.type = IF Function.mode \in EcbMode THEN "INIT" ELSE "INIT_IV"
       /\ call.key = BenchKey
       /\ call.type = "INIT_IV" => call.iv = Function.iv
  /\ cli = "idle" /\ sEnd = "open" => ReadyCtx(Function, ctx)

CryptStage ==
  /\ cli # "idle"
  /\ InCall =>
       /\ call.type = "CRYPT" /\ call.mode = Function.mode /\ call.buf = Function.in
       /\ sEnd = "open" => ReadyCtx(Function, call.ctx)

TestInv ==
  /\ test \in Test /\ stage \in {"none", "init", "crypt"} /\ exit \in Nat
  /\ stage = "none" => ~InCall
  /\ stage = "init" => InitStage
  /\ stage = "crypt" => CryptStage
  /\ ErrorMeansDeath

-----------------------------------------------------------------------------
(***************************************************************************)
(* The benchmark is a program.                                             *)
(***************************************************************************)
LEMMA BenchStep == [BenchNext]_allVars => [Next]_vars
<1>1. ASSUME NEW t \in Test, InitCall(t) PROVE Next
  BY <1>1 DEF InitCall, Next, Api
<1>2. CryptCall => Next
  BY DEF CryptCall, Next, Api
<1>3. CallReturns => Next
  BY DEF CallReturns, Next, ClientStep
<1>4. EndOfIteration => UNCHANGED vars
  BY DEF EndOfIteration
<1>5. Exit => Next
  BY DEF Exit, Next
<1>6. Others => Next
  BY DEF Others, InStub, Next, ClientStep
<1>7. UNCHANGED allVars => UNCHANGED vars
  BY DEF allVars
<1> QED  BY <1>1, <1>2, <1>3, <1>4, <1>5, <1>6, <1>7 DEF BenchNext, Program

\* The benchmark calls the API as AesComp lets any program call it, so what
\* holds of every program holds of the benchmark.
THEOREM BenchmarkIsProgram == BenchSpec => Spec
<1>1. BenchInit => Init
  BY DEF BenchInit
<1> QED  BY <1>1, BenchStep, PTL DEF BenchSpec, Spec

-----------------------------------------------------------------------------
(***************************************************************************)
(* Every step keeps the invariant.                                         *)
(***************************************************************************)
\* What the tests are.
LEMMA TestFacts ==
  ASSUME NEW t \in Test
  PROVE  LET f == TestFunction[t] IN
           /\ f.mode \in Mode /\ f.iv \in Iv
           /\ f.mode \in EcbMode <=> f.mode \in {"ECB_ENCRYPT", "ECB_DECRYPT"}
BY BenchAssumption, CtxFields DEF Test, TestFunction, test_encrypt_cbc, test_decrypt_cbc, test_encrypt_ctr,
   test_decrypt_ctr, test_encrypt_ecb, test_decrypt_ecb, test_xcrypt_ctr, Vector, Mode, EcbMode, CbcMode

\* The compartment does not come back.
LEMMA DeathLasts ==
  ASSUME [Next]_vars, sEnd' = "open"
  PROVE  sEnd = "open"
<1> USE DEF vars, socketVars, clientVars, serverVars, CloseWith
<1>1. CASE Api
  BY <1>1 DEF Api, AES_init_ctx, AES_init_ctx_iv, AES_ctx_set_iv, AES_ECB, AES_CBC, AES_CTR,
              do_generic_crypt, StartCall
<1>2. CASE ClientStep \/ destroy \/ ClientCrash
  BY <1>2 DEF ClientStep, destroy, ClientCrash, ClientWriteMsg, ClientWriteBuf, ClientReadMsg,
              ClientReadBuf, ClientReturn, ClientEnds
<1>3. CASE ServerStep \/ ServerCrash
  BY <1>3 DEF ServerStep, ServerCrash, ServerEnds, ServerReadMsg, Dispatch, ServerReadBuf, ServerCrypt,
              ServerWriteMsg, ServerWriteBuf
<1> QED  BY <1>1, <1>2, <1>3 DEF Next, Finished

\* What the stub and the compartment do by themselves.
LEMMA OthersKeep ==
  ASSUME Others
  PROVE  /\ call' = call
         /\ \/ cli' = cli /\ ctx' = ctx
            \/ InCall /\ InCall'
            \/ cli' = "dead"
<1>1. CASE InStub
  BY <1>1 DEF InStub, ClientWriteMsg, ClientWriteBuf, ClientReadMsg, ClientReadBuf, ClientEnds, InCall
<1>2. CASE ServerStep \/ ServerCrash
  BY <1>2 DEF ServerStep, ServerCrash, ServerReadMsg, ServerReadBuf, ServerCrypt,
              ServerWriteMsg, ServerWriteBuf, clientVars
<1>3. CASE ClientCrash \/ Finished
  BY <1>3 DEF ClientCrash, ClientEnds, Finished, vars, clientVars
<1> QED  BY <1>1, <1>2, <1>3 DEF Others

LEMMA OthersTest ==
  ASSUME TestInv, Others, UNCHANGED benchVars
  PROVE  TestInv'
<1>1. sEnd' = "open" => sEnd = "open"
  BY BenchStep, DeathLasts DEF BenchNext
<1> QED
  BY <1>1, OthersKeep DEF TestInv, InitStage, CryptStage, ErrorMeansDeath, benchVars, Function, ReadyCtx,
                          InCall

LEMMA StartFacts ==
  ASSUME NEW m, NEW d, StartCall(m, d)
  PROVE  /\ cli = "idle" /\ cli' = "writeMsg" /\ sEnd' = sEnd
         /\ call'.type = m.type /\ call'.key = m.key /\ call'.ctx = ctx
BY DEF StartCall, socketVars

LEMMA InitTypes ==
  /\ AES_init_ctx => /\ cli' = "writeMsg" /\ sEnd' = sEnd /\ call'.type = "INIT"
  /\ AES_init_ctx_iv => /\ cli' = "writeMsg" /\ sEnd' = sEnd /\ call'.type = "INIT_IV"
<1>1. ASSUME NEW k \in Key, NEW c \in Ctx
      PROVE  [Uninit EXCEPT !.type = "INIT", !.key = k, !.ctx = c].type = "INIT"
  BY DEF Uninit
<1>2. ASSUME NEW k \in Key, NEW w \in Iv, NEW c \in Ctx
      PROVE  [Uninit EXCEPT !.type = "INIT_IV", !.key = k, !.iv = w, !.ctx = c].type = "INIT_IV"
  BY DEF Uninit
<1>3. ASSUME AES_init_ctx PROVE cli' = "writeMsg" /\ sEnd' = sEnd /\ call'.type = "INIT"
  <2>1. PICK k \in Key, c \in Ctx : StartCall([Uninit EXCEPT !.type = "INIT", !.key = k, !.ctx = c], buf)
    BY <1>3 DEF AES_init_ctx
  <2> QED  BY <2>1, <1>1, StartFacts
<1>4. ASSUME AES_init_ctx_iv PROVE cli' = "writeMsg" /\ sEnd' = sEnd /\ call'.type = "INIT_IV"
  <2>1. PICK k \in Key, w \in Iv, c \in Ctx :
          StartCall([Uninit EXCEPT !.type = "INIT_IV", !.key = k, !.iv = w, !.ctx = c], buf)
    BY <1>4 DEF AES_init_ctx_iv
  <2> QED  BY <2>1, <1>2, StartFacts
<1> QED  BY <1>3, <1>4

LEMMA CryptCallType ==
  ASSUME NEW m, NEW d, do_generic_crypt(m, d)
  PROVE  /\ cli = "idle" /\ cli' = "writeMsg" /\ sEnd' = sEnd
         /\ call'.type = "CRYPT" /\ call'.ctx = ctx
<1> DEFINE r == [Uninit EXCEPT !.type = "CRYPT", !.ctx = ctx, !.mode = m, !.buflen = Len(d)]
<1>1. r.type = "CRYPT"
  BY DEF Uninit
<1>2. StartCall(r, d)
  BY DEF do_generic_crypt
<1> HIDE DEF r
<1> QED  BY <1>1, <1>2, StartFacts

LEMMA InitCallTest ==
  ASSUME TestInv, NEW t \in Test, InitCall(t)
  PROVE  TestInv'
<1> DEFINE f == TestFunction[t]
<1>1. sEnd' = sEnd /\ cli' = "writeMsg" /\ call'.key = BenchKey
  BY InitTypes DEF InitCall
<1>2. call'.type = IF f.mode \in EcbMode THEN "INIT" ELSE "INIT_IV"
  BY InitTypes DEF InitCall
<1>3. call'.type = "INIT_IV" => call'.iv = f.iv
  BY <1>2 DEF InitCall
<1>4. test' = t /\ stage' = "init" /\ exit' = exit
  BY DEF InitCall
<1> QED
  BY <1>1, <1>2, <1>3, <1>4 DEF TestInv, InitStage, ErrorMeansDeath, Function, InCall

LEMMA CryptCallTest ==
  ASSUME TestInv, CryptCall
  PROVE  TestInv'
<1>1. /\ sEnd' = sEnd /\ cli = "idle" /\ cli' = "writeMsg"
      /\ call'.type = "CRYPT" /\ call'.ctx = ctx
  BY CryptCallType DEF CryptCall, AES_ECB, AES_CBC, AES_CTR
<1>2. /\ call'.mode = Function.mode /\ call'.buf = Function.in
      /\ test' = test /\ stage = "init" /\ stage' = "crypt" /\ exit' = exit
  BY DEF CryptCall, Function
<1> QED
  BY <1>1, <1>2 DEF TestInv, InitStage, CryptStage, ErrorMeansDeath, Function, ReadyCtx, InCall

\* The answer of a test is right while the compartment is up.
LEMMA AnswerRight ==
  ASSUME TypeOK, Coupling, TestInv, stage = "crypt", cli = "done", sEnd = "open"
  PROVE  buf = Function.out
<1>1. call \in Call /\ call.type = "CRYPT" /\ call.mode = Function.mode /\ call.buf = Function.in
  BY DEF TestInv, CryptStage, InCall, Coupling, ClientPart
<1>2. buf = CryptBuf(call.mode, call.ctx, call.buf)
  BY <1>1, ReplyFromCoupling DEF ReplyCorrect, NativeBuf
<1>3. ReadyCtx(Function, call.ctx) /\ call.ctx \in Ctx
  BY <1>1 DEF TestInv, CryptStage, InCall, Call
<1>4. call.ctx = [RoundKey |-> KeyExpansion(BenchKey), Iv |-> call.ctx.Iv] /\ call.ctx.Iv \in Iv
  BY <1>3 DEF Ctx, ReadyCtx
<1>5. CryptBuf(Function.mode, [RoundKey |-> KeyExpansion(BenchKey), Iv |-> call.ctx.Iv], Function.in)
        = Function.out
  BY <1>3, <1>4, VectorAssumption DEF TestInv, Function, ReadyCtx
<1> QED  BY <1>1, <1>2, <1>4, <1>5

\* The context of a test is ready once its first call has returned.
LEMMA ContextReady ==
  ASSUME TypeOK, Coupling, TestInv, stage = "init", cli = "done", sEnd = "open"
  PROVE  ReadyCtx(Function, ctx)
<1>1. /\ call \in Call /\ call.key = BenchKey
      /\ call.type = IF Function.mode \in EcbMode THEN "INIT" ELSE "INIT_IV"
      /\ call.type = "INIT_IV" => call.iv = Function.iv
  BY DEF TestInv, InitStage, InCall, Coupling, ClientPart
<1>2. /\ ctx.RoundKey = NativeCtx(call).RoundKey
      /\ call.type # "INIT" => ctx.Iv = NativeCtx(call).Iv
  BY ReplyFromCoupling DEF ReplyCorrect
<1>3. call.ctx \in Ctx
  BY <1>1 DEF Call
<1>4. NativeCtx(call).RoundKey = KeyExpansion(BenchKey)
  BY <1>1, <1>3 DEF NativeCtx, InitCtx, InitCtxIv, Ctx
<1>5. call.type = "INIT_IV" => NativeCtx(call).Iv = Function.iv
  BY <1>1, <1>3 DEF NativeCtx, InitCtxIv, Ctx
<1> QED  BY <1>1, <1>2, <1>4, <1>5 DEF ReadyCtx

LEMMA CallReturnsTest ==
  ASSUME TypeOK, Coupling, TestInv, CallReturns
  PROVE  TestInv'
<1>1. cli = "done" /\ cli' = "idle" /\ ctx' = ctx /\ sEnd' = sEnd /\ test' = test
  BY DEF CallReturns, ClientReturn, socketVars
<1>2. CASE stage = "crypt"
  <2>1. stage' = "none" /\ exit' = IF buf = Function.out THEN exit ELSE exit + 1
    BY <1>2 DEF CallReturns, Function
  <2>2. sEnd = "open" => buf = Function.out
    BY <1>1, <1>2, AnswerRight
  <2> QED  BY <1>1, <2>1, <2>2 DEF TestInv, ErrorMeansDeath, InCall
<1>3. CASE stage = "init"
  <2>1. stage' = stage /\ exit' = exit
    BY <1>3 DEF CallReturns
  <2>2. sEnd = "open" => ReadyCtx(Function, ctx)
    BY <1>1, <1>3, ContextReady
  <2> QED
    BY <1>1, <1>3, <2>1, <2>2 DEF TestInv, InitStage, ErrorMeansDeath, InCall, Function, ReadyCtx
<1>4. stage # "none"
  BY <1>1 DEF TestInv, InCall
<1> QED  BY <1>2, <1>3, <1>4 DEF TestInv

LEMMA MainTest ==
  ASSUME TestInv, EndOfIteration \/ Exit \/ UNCHANGED allVars
  PROVE  TestInv'
<1>1. CASE EndOfIteration
  BY <1>1 DEF EndOfIteration, TestInv, InitStage, CryptStage, ErrorMeansDeath, Function, ReadyCtx, InCall,
              vars, clientVars, serverVars, socketVars
<1>2. CASE Exit
  <2>1. cli' \in {"exited", "dead"} /\ sEnd' = sEnd
    BY <1>2 DEF Exit, destroy, ClientEnds
  <2>2. UNCHANGED benchVars
    BY <1>2 DEF Exit
  <2> QED  BY <2>1, <2>2 DEF TestInv, InitStage, CryptStage, ErrorMeansDeath, Function, InCall, benchVars
<1>3. CASE UNCHANGED allVars
  BY <1>3 DEF TestInv, InitStage, CryptStage, ErrorMeansDeath, Function, ReadyCtx, InCall, allVars,
              benchVars, vars, clientVars, serverVars, socketVars
<1> QED  BY <1>1, <1>2, <1>3

-----------------------------------------------------------------------------
LEMMA BenchTest ==
  ASSUME MaxLen <= SegMax
  PROVE  BenchSpec => []TestInv
<1>1. BenchInit => TestInv
  BY DEF BenchInit, Init, TestInv, ErrorMeansDeath, InCall
<1>2. ASSUME TypeOK, Coupling, TestInv, [BenchNext]_allVars PROVE TestInv'
  BY <1>2, OthersTest, InitCallTest, CryptCallTest, CallReturnsTest, MainTest DEF BenchNext, Program
<1>3. BenchSpec => [](TypeOK /\ Coupling)
  BY BenchmarkIsProgram, CouplingInvariant, PTL
<1> QED  BY <1>1, <1>2, <1>3, PTL DEF BenchSpec

\* When a buffer is one segment, the benchmark reports an error only if the
\* compartment died: as long as it lives, every test of every iteration gets
\* its answer, in whatever order the compiler evaluates the tests.
THEOREM ErrorsAreDeaths ==
  ASSUME MaxLen <= SegMax
  PROVE  BenchSpec => []ErrorMeansDeath
<1>1. TestInv => ErrorMeansDeath
  BY DEF TestInv
<1> QED  BY <1>1, BenchTest, PTL

-----------------------------------------------------------------------------
(***************************************************************************)
(* A death before the last answer.  Once the compartment has died with     *)
(* answers due, this holds until main returns: calls remain that end in    *)
(* SIGPIPE, or the answer of the one in progress will be missing, or the   *)
(* sum is positive already.                                                *)
(***************************************************************************)
AnswerMissing ==
  \/ cli = "readMsg" /\ Len(s2c) <= Len(buf)
  \/ cli = "readBuf" /\ Len(s2c) < Len(buf)
  \/ cli = "done" /\ buf # Function.out

Doomed ==
  /\ sEnd # "open" /\ result # 0
  /\ \/ result # InMain \/ ClientGone \/ exit > 0
     \/ todo # {} \/ stage = "init" \/ i + 1 < BENCH_ITERATIONS
     \/ cli \in {"writeMsg", "writeBuf"}
     \/ stage = "crypt" /\ AnswerMissing

\* An answer is never what is in the buffer already, so no buffer is empty.
LEMMA AnswerIsNews ==
  ASSUME TestInv
  PROVE  Function.in \in Buffer /\ Function.in # Function.out /\ Len(Function.in) > 0
<1> DEFINE f == Function
           c == [RoundKey |-> KeyExpansion(BenchKey), Iv |-> f.iv]
<1>1. f.mode \in Mode /\ f.iv \in Iv
  BY TestFacts DEF TestInv, Function
<1>2. f.in \in Payload
  BY BenchAssumption DEF TestInv, Function, Test, TestFunction, test_encrypt_cbc, test_decrypt_cbc,
     test_encrypt_ctr, test_decrypt_ctr, test_encrypt_ecb, test_decrypt_ecb, test_xcrypt_ctr, Vector
<1>3. f.in \in Buffer /\ c \in Ctx
  BY <1>1, <1>2, BenchAssumption, PayloadAssumption, LibraryAssumption DEF Ctx
<1>4. f.in # f.out /\ CryptBuf(f.mode, c, f.in) = f.out
  BY <1>1, VectorAssumption DEF TestInv, Function
<1>5. f.out \in Buffer /\ Len(f.out) = Len(f.in)
  BY <1>1, <1>3, <1>4, CryptType
<1> HIDE DEF f
<1>6. f.in \in Seq(Byte) /\ f.out \in Seq(Byte) /\ Len(f.in) \in Nat
  BY <1>3, <1>5, BufferSeq, DataAssumption
<1>7. Len(f.in) # 0
  BY <1>4, <1>5, <1>6, EmptySeq
<1> QED  BY <1>3, <1>4, <1>6, <1>7 DEF f

\* Reading nothing leaves the buffer as it is.
LEMMA ReadNothing ==
  ASSUME NEW b \in Seq(Byte)
  PROVE  Overlay(b, Taken(<<>>, Len(b))) = b
<1>1. Len(b) \in Nat /\ b = [k \in 1..Len(b) |-> b[k]] /\ Len(<<>>) = 0
  BY LenProperties
<1>2. Smaller(Len(b), Len(<<>>)) = 0
  BY <1>1 DEF Smaller
<1>3. Taken(<<>>, Len(b)) = <<>>
  BY <1>2 DEF Taken
<1> QED  BY <1>1, <1>3 DEF Overlay

\* The stub of a program whose compartment is dead.
LEMMA StubDoomed ==
  ASSUME TypeOK, Coupling, TestInv, Doomed, InStub, UNCHANGED benchVars
  PROVE  Doomed'
<1>1. sEnd' # "open"
  BY BenchStep, DeathLasts DEF BenchNext, Others, Doomed
<1>2. ServerGone /\ sEnd # "open"
  BY DEF Coupling, Doomed
<1>3. ASSUME ClientEnds("dead") PROVE Doomed'
  BY <1>1, <1>3 DEF ClientEnds, Doomed, ClientGone, benchVars
<1> DEFINE Due == result # InMain \/ exit > 0 \/ todo # {} \/ stage = "init" \/ i + 1 < BENCH_ITERATIONS
<1>4. CASE Due
  BY <1>1, <1>4 DEF Doomed, benchVars
<1>5. CASE ~Due /\ stage = "crypt"
  <2>1. cli \in {"writeMsg", "writeBuf", "readMsg", "readBuf"} => 
          /\ call \in Call /\ call.type = "CRYPT" /\ call.buf = Function.in
          /\ buf = Function.in
    BY <1>5 DEF TestInv, CryptStage, InCall, Coupling, ClientPart, TypeOK
  <2>2. buf \in Seq(Byte) /\ Len(buf) \in Nat
    BY BufferSeq, DataAssumption DEF TypeOK
  <2>3. Function.in # Function.out /\ Len(Function.in) > 0
    BY AnswerIsNews
  <2>4. CASE ClientWriteMsg
    BY <1>2, <1>3, <2>4 DEF ClientWriteMsg
  <2>5. CASE ClientWriteBuf
    <3>1. csent = 0
      BY <2>5 DEF ClientWriteBuf, Coupling, ClientPart
    <3> QED  BY <1>2, <1>3, <2>5, <3>1 DEF ClientWriteBuf
  <2>6. CASE ClientReadMsg
    <3>1. cli = "readMsg" /\ Len(s2c) <= Len(buf) /\ s2c \in Seq(Element)
      BY <1>5, <2>6 DEF ClientReadMsg, Doomed, AnswerMissing, ClientGone, TypeOK
    <3>2. CASE s2c = <<>> /\ sEnd = "reset" /\ ClientEnds("dead")
      BY <1>3, <3>2
    <3>3. CASE /\ (s2c # <<>> /\ s2c' = Tail(s2c)) \/ (s2c = <<>> /\ s2c' = s2c)
               /\ cli' = "readBuf" /\ buf' = buf
      <4>1. Len(s2c') < Len(buf)
        <5>1. CASE s2c # <<>> /\ s2c' = Tail(s2c)
          BY <2>2, <3>1, <5>1, HeadTailProperties, LenProperties
        <5>2. CASE s2c = <<>> /\ s2c' = s2c
          BY <2>1, <2>3, <3>1, <5>2
        <5> QED  BY <3>3, <5>1, <5>2
      <4> QED  BY <1>1, <1>5, <3>3, <4>1 DEF Doomed, AnswerMissing, benchVars
    <3>4. \/ s2c = <<>> /\ sEnd = "reset" /\ ClientEnds("dead")
          \/ /\ (s2c # <<>> /\ s2c' = Tail(s2c)) \/ (s2c = <<>> /\ s2c' = s2c)
             /\ cli' = "readBuf" /\ buf' = buf
      BY <2>1, <2>6, <3>1 DEF ClientReadMsg
    <3> QED  BY <3>2, <3>3, <3>4
  <2>7. CASE ClientReadBuf
    <3>1. cli = "readBuf" /\ Len(s2c) < Len(buf)
      BY <1>5, <2>7 DEF ClientReadBuf, Doomed, AnswerMissing, ClientGone
    <3>2. s2c = <<>>
      <4>1. s2c = <<>> \/ s2c = Raw(NativeBuf(call))
        BY <1>2, <3>1 DEF Coupling, ServerGonePart, ClientGone
      <4>2. NativeBuf(call) \in Seq(Byte) /\ Len(NativeBuf(call)) = Len(buf)
        BY <2>1, <3>1, NativeType, BufferSeq
      <4> QED  BY <3>1, <4>1, <4>2, RawSeq
    <3>3. CASE ClientEnds("dead")
      BY <1>3, <3>3
    <3>4. CASE cli' = "done" /\ buf' = Overlay(buf, Taken(s2c, Len(buf)))
      <4>1. buf' # Function.out
        BY <2>1, <2>2, <2>3, <3>1, <3>2, <3>4, ReadNothing
      <4>2. Function' = Function
        BY DEF Function, benchVars
      <4> QED  BY <1>1, <1>5, <3>4, <4>1, <4>2 DEF Doomed, AnswerMissing, benchVars
    <3> QED  BY <2>7, <3>3, <3>4 DEF ClientReadBuf
  <2> QED  BY <2>4, <2>5, <2>6, <2>7 DEF InStub
<1>6. stage # "none"
  BY DEF InStub, ClientWriteMsg, ClientWriteBuf, ClientReadMsg, ClientReadBuf, TestInv, InCall
<1> QED  BY <1>4, <1>5, <1>6 DEF TestInv

\* The rest of the system is still, or ends the program.
LEMMA OthersDoomed ==
  ASSUME TypeOK, Coupling, TestInv, Doomed, Others, UNCHANGED benchVars
  PROVE  Doomed'
<1>1. sEnd' # "open"
  BY BenchStep, DeathLasts DEF BenchNext, Doomed
<1>2. ~ServerStep /\ ~ServerCrash
  BY DEF Coupling, Doomed, ServerGone, ServerStep, ServerCrash, ServerReadMsg, ServerReadBuf, ServerCrypt,
         ServerWriteMsg, ServerWriteBuf
<1>3. CASE ClientCrash
  BY <1>1, <1>3 DEF ClientCrash, ClientEnds, Doomed, ClientGone, benchVars
<1>4. CASE Finished
  BY <1>1, <1>4 DEF Finished, ClientGone, Doomed, benchVars, vars, clientVars
<1> QED  BY <1>2, <1>3, <1>4, StubDoomed DEF Others

\* The program itself: it makes another call, or finds the answer missing.
LEMMA ProgramDoomed ==
  ASSUME TypeOK, TestInv, Doomed, Program
  PROVE  Doomed'
<1>1. sEnd' # "open"
  BY BenchStep, DeathLasts DEF BenchNext, Doomed
<1>2. ASSUME NEW t \in Test, InitCall(t) PROVE Doomed'
  BY <1>1, <1>2 DEF InitCall, Doomed
<1>3. CASE CryptCall
  <2>1. cli' = "writeMsg"
    BY <1>3, CryptCallType DEF CryptCall, AES_ECB, AES_CBC, AES_CTR
  <2> QED  BY <1>1, <1>3, <2>1 DEF CryptCall, Doomed
<1>4. CASE CallReturns
  <2>1. cli = "done" /\ exit \in Nat /\ exit' \in Nat /\ exit' >= exit /\ UNCHANGED <<i, todo, test, result>>
    BY <1>4 DEF CallReturns, ClientReturn, TestInv
  <2>2. CASE stage = "crypt" /\ AnswerMissing
    <3>1. exit' = exit + 1
      BY <1>4, <2>1, <2>2 DEF CallReturns, AnswerMissing, Function
    <3> QED  BY <1>1, <2>1, <3>1 DEF Doomed
  <2>3. CASE stage = "init"
    BY <1>1, <1>4, <2>1, <2>3 DEF CallReturns, Doomed
  <2> QED  BY <1>1, <2>1, <2>2, <2>3 DEF Doomed, ClientGone
<1>5. CASE EndOfIteration
  <2>1. exit \in Nat /\ Test # {}
    BY DEF TestInv
  <2>2. CASE exit > 0 /\ result' = exit
    BY <1>1, <2>1, <2>2 DEF Doomed, InMain
  <2>3. CASE exit = 0 /\ todo' = Test /\ result' = result
    BY <1>1, <2>1, <2>3 DEF Doomed
  <2>4. ~(exit = 0 /\ i + 1 = BENCH_ITERATIONS)
    BY <1>5, BenchAssumption DEF EndOfIteration, Doomed, ClientGone
  <2> QED  BY <1>5, <2>2, <2>3, <2>4 DEF EndOfIteration
<1>6. CASE Exit
  BY <1>1, <1>6 DEF Exit, Doomed, benchVars
<1> QED  BY <1>2, <1>3, <1>4, <1>5, <1>6 DEF Program

\* The compartment's death before the last answer was sent is never passed
\* over (benchmark.c:53-65), whatever the library and the answers, if a
\* buffer is queued at once.
THEOREM DeathIsNoticed ==
  ASSUME MaxLen <= SegMax
  PROVE  BenchSpec => DeathNoticed
<1> DEFINE Death == result = InMain /\ sEnd # "open" /\ AnswersDue
           Inv == TypeOK /\ Coupling /\ TestInv
<1>1. BenchSpec => []Inv
  <2>1. BenchSpec => [](TypeOK /\ Coupling)
    BY BenchmarkIsProgram, CouplingInvariant, PTL
  <2>2. BenchSpec => []TestInv
    BY BenchTest
  <2> QED  BY <2>1, <2>2, PTL
<1>2. Death => Doomed
  BY DEF AnswersDue, Doomed, AnswerMissing, InMain
<1>3. Inv /\ Doomed /\ [BenchNext]_allVars => Doomed'
  <2>1. CASE UNCHANGED allVars
    BY <2>1 DEF Doomed, AnswerMissing, Function, ClientGone, allVars, benchVars, vars, clientVars, socketVars
  <2> QED  BY <2>1, OthersDoomed, ProgramDoomed DEF BenchNext
<1>4. Doomed => result # 0
  BY DEF Doomed
<1> HIDE DEF Death, Inv
<1>5. BenchSpec => [](Death => [](result # 0))
  BY <1>1, <1>2, <1>3, <1>4, PTL DEF BenchSpec
<1> QED  BY <1>5 DEF Death, DeathNoticed

-----------------------------------------------------------------------------
(***************************************************************************)
(* The benchmark ends, but for the fairness of the two processes: somebody *)
(* can go on, and each step counts.                                        *)
(***************************************************************************)
MainInv ==
  /\ i \in 0..BENCH_ITERATIONS - 1 /\ todo \subseteq Test
  /\ result # InMain => stage = "none"

LEMMA MainKeeps ==
  ASSUME TestInv, MainInv, [BenchNext]_allVars
  PROVE  MainInv'
<1>1. CASE (Others /\ UNCHANGED benchVars) \/ Exit \/ UNCHANGED allVars
  BY <1>1 DEF MainInv, Exit, benchVars, allVars
<1>2. ASSUME NEW t \in Test, InitCall(t) PROVE MainInv'
  BY <1>2 DEF InitCall, MainInv
<1>3. CASE CryptCall
  BY <1>3 DEF CryptCall, MainInv
<1>4. CASE CallReturns
  BY <1>4 DEF CallReturns, MainInv
<1>5. CASE EndOfIteration
  BY <1>5, BenchAssumption DEF EndOfIteration, MainInv
<1> QED  BY <1>1, <1>2, <1>3, <1>4, <1>5 DEF BenchNext, Program

\* The tests that are left can be counted.
LEMMA TestsCount ==
  /\ Cardinality(Test) \in Nat
  /\ \A T \in SUBSET Test :
       /\ Cardinality(T) \in Nat
       /\ T = {} => Cardinality(T) = 0
       /\ \A t \in T : Cardinality(T \ {t}) = Cardinality(T) - 1
<1>1. IsFiniteSet(Test)
  <2> DEFINE three == (({"encrypt_cbc"} \cup {"decrypt_cbc"}) \cup {"encrypt_ctr"})
  <2>1. IsFiniteSet(three)
    BY FS_Singleton, FS_AddElement
  <2> HIDE DEF three
  <2>2. IsFiniteSet(((three \cup {"decrypt_ctr"}) \cup {"decrypt_ecb"}) \cup {"encrypt_ecb"})
    BY <2>1, FS_AddElement
  <2>3. Test = ((three \cup {"decrypt_ctr"}) \cup {"decrypt_ecb"}) \cup {"encrypt_ecb"}
    BY DEF Test, TestFunction, three
  <2> QED  BY <2>2, <2>3
<1>2. ASSUME NEW T \in SUBSET Test
      PROVE  /\ Cardinality(T) \in Nat
             /\ T = {} => Cardinality(T) = 0
             /\ \A t \in T : Cardinality(T \ {t}) = Cardinality(T) - 1
  <2>1. IsFiniteSet(T)
    BY <1>1, FS_Subset
  <2> QED  BY <2>1, FS_CardinalityType, FS_EmptySet, FS_RemoveElement
<1> QED  BY <1>1, <1>2, FS_CardinalityType
\* What main has to do yet: a test is begun, returned to, gone on with and
\* returned to again, an iteration and main itself end, and the program.
TestStepsLeft ==
  CASE stage = "init" -> (IF InCall THEN 3 ELSE 2) [] stage = "crypt" -> 1 [] OTHER -> 0
MainStepsLeft ==
  IF ClientGone THEN 0
  ELSE IF result # InMain THEN 1
  ELSE 2 + (BENCH_ITERATIONS - 1 - i) * (4 * Cardinality(Test) + 1)
         + 4 * Cardinality(todo) + TestStepsLeft

\* Each step of main brings the benchmark nearer to its end, and between two
\* of them stub and compartment can only bring the call nearer to its own
\* (benchmark.c:45-68).
BenchShortens ==
  [][~ClientGone /\ (Program \/ InStub \/ ServerStep) =>
       \/ MainStepsLeft' < MainStepsLeft
       \/ MainStepsLeft' = MainStepsLeft /\ StepsLeft' < StepsLeft]_allVars


LEMMA MainStepsType ==
  ASSUME MainInv
  PROVE  /\ MainStepsLeft \in Nat
         /\ ~ClientGone => MainStepsLeft > 0
<1>1. /\ Cardinality(Test) \in Nat /\ Cardinality(todo) \in Nat
      /\ BENCH_ITERATIONS - 1 - i \in Nat /\ TestStepsLeft \in Nat
  BY TestsCount, BenchAssumption DEF MainInv, TestStepsLeft
<1>2. (BENCH_ITERATIONS - 1 - i) * (4 * Cardinality(Test) + 1) \in Nat
  BY <1>1
<1> QED  BY <1>1, <1>2 DEF MainStepsLeft

\* main goes forward only.
LEMMA ProgramShortens ==
  ASSUME TestInv, MainInv, MainInv', ~ClientGone, Program
  PROVE  MainStepsLeft' < MainStepsLeft
<1> DEFINE n == 4 * Cardinality(Test) + 1
           rest == BENCH_ITERATIONS - 1 - i
<1>1. /\ n \in Nat /\ Cardinality(Test) \in Nat /\ Cardinality(todo) \in Nat
      /\ rest \in Nat /\ rest * n \in Nat
  <2>1. Cardinality(Test) \in Nat /\ Cardinality(todo) \in Nat /\ rest \in Nat
    BY TestsCount, BenchAssumption DEF MainInv
  <2>2. n \in Nat
    BY <2>1
  <2> HIDE DEF n, rest
  <2>3. rest * n \in Nat
    BY <2>1, <2>2
  <2> QED  BY <2>1, <2>2, <2>3
<1>2. result = InMain => MainStepsLeft = 2 + rest * n + 4 * Cardinality(todo) + TestStepsLeft
  BY DEF MainStepsLeft
<1>3. ASSUME UNCHANGED i, result' = InMain, ~ClientGone'
      PROVE  MainStepsLeft' = 2 + rest * n + 4 * Cardinality(todo') + TestStepsLeft'
  BY <1>3 DEF MainStepsLeft
<1>4. CASE ClientGone'
  <2>1. MainStepsLeft' = 0
    BY <1>4 DEF MainStepsLeft
  <2> QED  BY <2>1, MainStepsType
<1>5. ASSUME NEW t \in Test, InitCall(t), ~ClientGone' PROVE MainStepsLeft' < MainStepsLeft
  <2>1. /\ stage = "none" /\ stage' = "init" /\ result = InMain /\ UNCHANGED <<i, result>>
        /\ t \in todo /\ todo' = todo \ {t} /\ cli' = "writeMsg"
    BY <1>5, InitTypes DEF InitCall
  <2>2. TestStepsLeft = 0 /\ TestStepsLeft' = 3
    BY <2>1 DEF TestStepsLeft, InCall
  <2>3. Cardinality(todo') = Cardinality(todo) - 1
    BY <2>1, TestsCount DEF MainInv
  <2> HIDE DEF n, rest
  <2> QED  BY <1>1, <1>2, <1>3, <1>5, <2>1, <2>2, <2>3
<1>6. CASE CryptCall /\ ~ClientGone'
  <2>1. stage = "init" /\ stage' = "crypt" /\ UNCHANGED <<i, todo, result>>
    BY <1>6 DEF CryptCall
  <2>2. cli = "idle" /\ result = InMain
    BY <1>6, <2>1, CryptCallType DEF CryptCall, AES_ECB, AES_CBC, AES_CTR, MainInv
  <2>3. TestStepsLeft = 2 /\ TestStepsLeft' = 1
    BY <2>1, <2>2 DEF TestStepsLeft, InCall
  <2> HIDE DEF n, rest
  <2> QED  BY <1>1, <1>2, <1>3, <1>6, <2>1, <2>2, <2>3
<1>7. CASE CallReturns /\ ~ClientGone'
  <2>1. cli = "done" /\ cli' = "idle" /\ UNCHANGED <<i, todo, result>>
    BY <1>7 DEF CallReturns, ClientReturn
  <2>2. stage \in {"init", "crypt"} /\ result = InMain
    BY <2>1 DEF TestInv, MainInv, InCall
  <2>3. stage' = IF stage = "crypt" THEN "none" ELSE "init"
    BY <1>7, <2>2 DEF CallReturns
  <2>4. TestStepsLeft' = TestStepsLeft - 1 /\ TestStepsLeft \in Nat
    BY <2>1, <2>2, <2>3 DEF TestStepsLeft, InCall
  <2> HIDE DEF n, rest
  <2> QED  BY <1>1, <1>2, <1>3, <1>7, <2>1, <2>2, <2>4
<1>8. CASE EndOfIteration /\ ~ClientGone'
  <2>1. stage = "none" /\ todo = {} /\ result = InMain /\ stage' = stage
    BY <1>8 DEF EndOfIteration
  <2>2. MainStepsLeft = 2 + rest * n
    <3>1. TestStepsLeft = 0 /\ Cardinality(todo) = 0
      BY <2>1, TestsCount DEF TestStepsLeft, MainInv
    <3> HIDE DEF n, rest
    <3> QED  BY <1>1, <1>2, <2>1, <3>1
  <2>3. CASE result' # InMain
    <3>1. MainStepsLeft' = 1
      BY <1>8, <2>3 DEF MainStepsLeft
    <3> HIDE DEF n, rest
    <3> QED  BY <1>1, <2>2, <3>1
  <2>4. CASE result' = InMain
    <3>1. i' = i + 1 /\ todo' = Test
      BY <1>8, <2>4 DEF EndOfIteration, TestInv, InMain
    <3>2. TestStepsLeft' = 0
      BY <2>1 DEF TestStepsLeft
    <3>3. MainStepsLeft' = 2 + (rest - 1) * n + 4 * Cardinality(Test)
      <4>1. MainStepsLeft' = 2 + (BENCH_ITERATIONS - 1 - (i + 1)) * n + 4 * Cardinality(Test) + 0
        BY <1>8, <2>4, <3>1, <3>2 DEF MainStepsLeft
      <4>2. BENCH_ITERATIONS - 1 - (i + 1) = rest - 1
        BY BenchAssumption DEF MainInv
      <4>3. (rest - 1) * n \in Int
        BY <1>1
      <4> HIDE DEF n, rest
      <4> QED  BY <1>1, <4>1, <4>2, <4>3
    <3>4. (rest - 1) * n = rest * n - n
      <4> HIDE DEF n, rest
      <4> QED  BY <1>1
    <3>5. n = 4 * Cardinality(Test) + 1
      OBVIOUS
    <3> HIDE DEF n, rest
    <3> QED  BY <1>1, <2>2, <3>3, <3>4, <3>5
  <2> QED  BY <2>3, <2>4
<1>9. CASE Exit
  BY <1>4, <1>9 DEF Exit, destroy, ClientEnds, ClientGone
<1> QED  BY <1>4, <1>5, <1>6, <1>7, <1>8, <1>9 DEF Program

\* What is not main's step leaves main where it is, or ends it.
LEMMA OthersWait ==
  ASSUME MainInv, ~ClientGone, Others, UNCHANGED benchVars
  PROVE  MainStepsLeft' < MainStepsLeft \/ MainStepsLeft' = MainStepsLeft
<1>1. CASE ClientGone'
  <2>1. MainStepsLeft' = 0
    BY <1>1 DEF MainStepsLeft
  <2> QED  BY <2>1, MainStepsType
<1>2. CASE ~ClientGone'
  <2>1. InCall' <=> InCall
    BY <1>2, OthersKeep DEF ClientGone, InCall
  <2>2. TestStepsLeft' = TestStepsLeft
    BY <2>1 DEF TestStepsLeft, benchVars
  <2> QED  BY <1>2, <2>2 DEF MainStepsLeft, benchVars
<1> QED  BY <1>1, <1>2

\* The compartment has nothing to do between two calls.
LEMMA StepInCall ==
  ASSUME TypeOK, Coupling, ~ClientGone, InStub \/ ServerStep
  PROVE  InCall
<1>1. CASE InStub
  BY <1>1 DEF InStub, ClientWriteMsg, ClientWriteBuf, ClientReadMsg, ClientReadBuf, InCall
<1>2. CASE ServerStep /\ ~InCall
  <2>1. cli = "idle" /\ cEnd = "open" /\ ~ServerGone
    BY <1>2 DEF TypeOK, InCall, ClientGone, Coupling, ServerGone, ServerStep, ServerReadMsg, ServerReadBuf,
                ServerCrypt, ServerWriteMsg, ServerWriteBuf
  <2>2. srv = "readMsg" /\ c2s = <<>>
    BY <2>1 DEF Coupling, BothUp
  <2> QED  BY <1>2, <2>1, <2>2 DEF ServerStep, ServerReadMsg, ServerReadBuf, ServerCrypt, ServerWriteMsg,
                ServerWriteBuf
<1> QED  BY <1>1, <1>2

LEMMA BenchInvariant ==
  ASSUME MaxLen <= SegMax
  PROVE  BenchSpec => [](TypeOK /\ StubPart /\ Coupling /\ TestInv /\ MainInv)
<1>1. BenchInit => MainInv
  BY BenchAssumption DEF BenchInit, MainInv
<1>2. TestInv /\ MainInv /\ [BenchNext]_allVars => MainInv'
  BY MainKeeps
<1>3. BenchSpec => [](TypeOK /\ StubPart /\ Coupling)
  BY BenchmarkIsProgram, CouplingInvariant, StubInvariant, PTL
<1>4. BenchSpec => []TestInv
  BY BenchTest
<1> QED  BY <1>1, <1>2, <1>3, <1>4, PTL DEF BenchSpec

\* When a buffer is one segment, each step of main, the stub or the
\* compartment brings the benchmark nearer to its end, for any number of
\* iterations and in whatever order the tests are evaluated.
THEOREM BenchmarkShortens ==
  ASSUME MaxLen <= SegMax
  PROVE  BenchSpec => BenchShortens
<1> DEFINE Inv == TypeOK /\ StubPart /\ Coupling /\ TestInv /\ MainInv
           Forward == ~ClientGone /\ (Program \/ InStub \/ ServerStep) =>
                        \/ MainStepsLeft' < MainStepsLeft
                        \/ MainStepsLeft' = MainStepsLeft /\ StepsLeft' < StepsLeft
<1>1. Inv /\ Inv' /\ [BenchNext]_allVars => [Forward]_allVars
  <2> SUFFICES ASSUME Inv, Inv', BenchNext, ~ClientGone, Program \/ InStub \/ ServerStep
               PROVE  \/ MainStepsLeft' < MainStepsLeft
                      \/ MainStepsLeft' = MainStepsLeft /\ StepsLeft' < StepsLeft
    OBVIOUS
  <2>1. CASE Program
    BY <2>1, ProgramShortens
  <2>2. CASE ~Program
    <3>1. Others /\ UNCHANGED benchVars /\ (InStub \/ ServerStep)
      BY <2>2 DEF BenchNext
    <3>2. InCall /\ (ClientStep \/ ServerStep)
      BY <3>1, StepInCall DEF InStub, ClientStep
    <3>3. MainStepsLeft' < MainStepsLeft \/ MainStepsLeft' = MainStepsLeft
      BY <3>1, OthersWait
    <3>4. StepsLeft' < StepsLeft
      BY <3>2, EveryCallQuiet, QuietStepShortens, SizeAssumption, DataAssumption
    <3> QED  BY <3>3, <3>4
  <2> QED  BY <2>1, <2>2
<1>2. BenchSpec => []Inv
  BY BenchInvariant
<1> HIDE DEF Inv, Forward
<1>3. BenchSpec => [][Forward]_allVars
  BY <1>1, <1>2, PTL DEF BenchSpec
<1> QED  BY <1>3 DEF Forward, BenchShortens

\* A process that can go on: inside a call as in AesComp, and otherwise main.
MainCanGo ==
  /\ cli = "idle"
  /\ \/ result = InMain /\ stage \in {"none", "init"}
     \/ result # InMain /\ (sEnd # "open" \/ HasRoom(c2s, 1))

\* Until the program has ended, main, the stub or the compartment can go on:
\* the benchmark is never left waiting (benchmark.c:45-68).
BenchNotStuck == ~ClientGone => MainCanGo \/ ClientCanGo \/ ServerCanGo

\* When a buffer is one segment, never is the benchmark left waiting: until
\* it has ended main, the stub or the compartment has a step to take.
THEOREM BenchmarkNeverSticks ==
  ASSUME MaxLen <= SegMax
  PROVE  BenchSpec => []BenchNotStuck
<1>1. ASSUME TypeOK, StubPart, Coupling, TestInv, MainInv, ~ClientGone
      PROVE  MainCanGo \/ ClientCanGo \/ ServerCanGo
  <2>1. CASE InCall
    BY <1>1, <2>1, EveryCallQuiet, QuietCanGo, SizeAssumption, DataAssumption
  <2>2. CASE ~InCall
    <3>1. cli = "idle" /\ stage \in {"none", "init"}
      BY <1>1, <2>2 DEF TypeOK, InCall, ClientGone, TestInv, CryptStage
    <3>2. sEnd = "open" => c2s = <<>>
      BY <1>1, <3>1 DEF Coupling, BothUp
    <3>3. c2s = <<>> => HasRoom(c2s, 1)
      BY SizeAssumption DEF HasRoom
    <3> QED  BY <3>1, <3>2, <3>3 DEF MainCanGo
  <2> QED  BY <2>1, <2>2
<1>2. TypeOK /\ StubPart /\ Coupling /\ TestInv /\ MainInv => BenchNotStuck
  BY <1>1 DEF BenchNotStuck
<1> QED  BY <1>2, BenchInvariant, PTL
=============================================================================
